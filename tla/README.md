# A TLA+ model of the SecAPI reference implementation

This directory models the reference implementation of the Security API
(`reference/src`): the trusted application (`taimpl`), the client library that
talks to it (`clientimpl`) and what they share. TLC checks small instances, and
TLAPS proves the parts that everything else stands on for every size.

## The system

An application links the client library. On its first call the library opens
one session with the TA; every API function packs its arguments, invokes a
command of the TA and unpacks the answer. In the reference build both sides are
one process, so the TA runs on the threads of the application, concurrently.

| part | state | operations | who uses it |
|---|---|---|---|
| slots (`slots.c`) | bit field of allocated slot numbers | allocate, free | object store |
| object store (`object_store.c`) | table of objects with owner and reference count, `release_count`, `is_shutting_down` | add, acquire, release, remove, shutdown | all stores below |
| client store, session (`client_store.c`, `client.c`, `ta_sa_init`, `ta_sa_close`) | the process's session, the global client store, atexit handlers | open, command, close, exit | every API call |
| SVP buffers (`svp_store.c`, `porting/svp.c`, `ta_sa_svp_*`) | buffers with a recursive mutex | create, write, copy, check, key check, release | SVP handlers, ciphers |
| cipher contexts (`cipher_store.c`, `ta_sa_crypto_cipher_*`) | ciphers with a key, an EVP context and a recursive mutex | init, process, process last, update IV, release | cipher handlers, common encryption |
| common encryption (`cenc.c`, `ta_sa_process_common_encryption.c`) | IV, counters and positions of a sample | verify, process | |
| MAC contexts (`mac_store.c`, `hmac_context.c`, `cmac_context.c`) | contexts with a `done` flag | init, process, compute, release | |
| rights, key store, key handlers (`rights.c`, `key_store.c`, `stored_key.c`, `ta_sa_key_*`) | keys with their rights | generate, import, export, unwrap, derive, exchange, release | ciphers, MACs |
| client library (`clientimpl`), dispatch (`ta.c`, `ta_client.c`) | a command, its three parameters, what is allocated for them | check, pack, copy, unpack, answer, copy out, free | every API call |
| key containers, KDFs, primitives, OTP, OpenSSL engine and provider | none or OpenSSL's | | |

What is hard in this code: the stores are shared by threads and an object can
be removed while others use it or wait for it; shutdown runs against calls in
progress; locks of several objects are held at once; a handle that was verified
may mean another object when it is used; a failure in the middle of a handler
must give back what it has taken; the counter of AES-CTR rolls over; the 35
commands have nothing but positions for their parameters, packed on one side and
unpacked on the other, with buffers that may be left out. These are the hazards
that `PROJECT.json` lists, each at its line.

## Modules

| module | models |
|---|---|
| `Slots` | `slots.c` as operators on bit fields: `ffs`, `BLOCK_BITMASK`, `slots_allocate`, `slots_free` |
| `SlotsClient` | a client of `Slots` that allocates and frees; the state machine that is checked |
| `ObjectStore` | `object_store.c`, one action for each stretch under the mutex |
| `ObjectLifecycle` | what an object store promises, abstractly; `ObjectStore` implements it |
| `ObjectStoreProofs` | theorems about `Slots` and `SlotsClient`; the inductive invariant of the store, what follows from it, and the refinements |
| `SvpStore`, `MCSvpStore` | SVP buffers: references, locks, memory |
| `SvpStoreProofs` | its inductive invariant, and what follows |
| `Session` | the session, the client store and the exit of the process |
| `SessionProofs` | its inductive invariant, and what follows |
| `Cenc`, `MCCenc` | the decryption of one sample, by byte positions |
| `CencProofs` | its inductive invariant: nothing is written past a sample, and every byte is right |
| `CipherStore` | cipher contexts, and the locks of common encryption |
| `CipherStoreProofs` | its inductive invariant, and what follows for any, a valid and a careful application |
| `Rights` | flags, the checks of `rights.c`, `restrict_child_rights` |
| `KeyHandlers` | for every command that uses keys: which keys it unwraps with which checks, and which keys it makes |
| `Keys`, `MCKeys` | the key store of a client and the threads that run these commands |
| `KeysProofs` | output protections are kept, for every application; for a careful one whose a key is, and the usages of children |
| `MacStore` | MAC contexts and the handlers that work on them |
| `MacContract` | what MAC contexts promise, without stores, references and locks; `MacStore` implements it |
| `MacStoreProofs` | its inductive invariant, and the refinement |
| `Requests` | the form of a command on its way: parameters, results, what is allocated |
| `ClientLibrary` | one operator for each `sa_*` function: what it checks, packs and copies out |
| `Dispatch` | one operator for each `ta_invoke_*` function of `ta.c`: what it demands and what it calls the handler with |
| `Api` | the arguments of every function: NULL, empty and full, for every algorithm |
| `Commands` | a call from its arguments to its results |
| `CommandsProofs` | for each of the 35 commands that both sides agree; the inductive invariant of a call, and the four properties |

`ObjectStore` uses `Slots`, and is shown to be the client that `SlotsClient`
describes. `SvpStore`, `Session`, `CipherStore`, `MacStore` and `Keys` stand on
an object store and represent it by what `ObjectStore` shows: a reference keeps
the entry, a removal waits for the references, a store that shuts down accepts
nothing. `CipherStore` takes a sample as one step; `Cenc` is the inside of it.
`Commands` composes `ClientLibrary`, `Dispatch` and `Api`: what one packs the
other unpacks.

### Correspondence

* **ObjectStore.** `objects` is the table (`store_object_t`), `slots` the bit
  field, `heap` the life of objects, `release_count` and `is_shutting_down` as
  in the code. `add`, `acquire` and `release` run under the mutex and are one
  action; `store_remove` is a loop that unlocks while it waits, hence `scan`,
  `uncount` and `free` with other threads between; shutdown is a thread of its
  own with one step for each slot.
* **Session.** `client_session` with its unlocked check, lock, second check,
  open, registration and unlock; a command reads the context, acquires the
  client, works, releases. `handlers` is the atexit list, run last in, first
  out. `quiet` says what kind of application it is: whether it ends its calls
  before it exits.
* **SvpStore.** A handler refers to the buffer, locks it, works, unlocks, drops.
  Regions are disjoint pieces of memory. `lent` counts how often the application
  has given one to a buffer and not got it back: it may be in several buffers,
  because neither `svp_create_buffer` nor `svp_store_create` compares it with
  what the others have. `careful` says whether the application
  copies buffers in one order and keeps the release of a handle apart from its
  other uses. Contents are abstracted: range checks and comparisons go either
  way.
* **Cenc.** Output bytes are represented by where they come from: `Clear`, or
  the position in the key stream or chain. `iv`, `enc`, `pos` are the local IV,
  `enc_byte_count` and the position of OpenSSL's context. `want` is the
  reference: what ISO/IEC 23001-7 asks of the sample so far.
* **CipherStore.** Handlers in steps: refer, lock, work, unlock and drop, and
  for common encryption twice (`verify_sample`, `cenc_process_sample`). The
  EVP context is abstracted to the bytes of an incomplete block, a block held
  back by decryption with padding, and whether it is finished; `Update` and
  `Final` are OpenSSL's and allow what its versions do. `allows` are the keys
  whose rights allow their use now, and `RightsChange` is the time and the
  displays that change it between any two steps; `ClearKeys` are those that
  allow clear output, which does not change. `Careful` says whether
  the application keeps to the documented order of calls, `Invalid` whether it
  passes buffer types that do not exist.

* **Keys.** A handler is a record in `KeyHandlers`: `needs`, the keys it unwraps
  in order with the flags and kinds it asks for, and `yields`, the keys it makes
  with the need that limits their rights. `Keys` runs a handler in steps:
  `key_store_unwrap` takes a copy of a key, `Make` creates and stores the next
  key, `Fail` is any error, `Undo` the removals at the end of
  `ta_sa_key_exchange_netflix_dh`. `given` are the handles the application
  knows; `Careful` says that it releases no others. `limits` is history: the
  outputs left by the key whose rights limited a key, and by those that limited
  that one. A key for unwrapping only ends the chain, and of the two keys that a
  Netflix key is computed from one is in it (the section on disagreements says
  what that means). Bit fields are sets
  of flags, lengths of keys are kinds, the bytes of keys are left out.
* **MacStore.** A handler refers to the MAC, locks it, works, unlocks, drops;
  initialisation makes a context and stores it in two steps, release waits for
  the references. `heap` is what the pointers to `hmac_context_t` and
  `cmac_context_t` reach, `made` the context that a thread has made and not yet
  given to the store, `copy` the copy of a key it holds. What a context has
  absorbed is a sequence of chunks, and a MAC is represented by the message it
  is of. `Return` is the end of the handler with all it frees.
* **Commands.** `pc` goes from the arguments over packing, the copy of the
  command, the unpacking and the handler back to the results; `heap` is what is
  allocated for the call; `copy` and `reply` are the results in the copy of the
  command and in the command itself; `app` is what the caller sees. Values are
  sequences of names: `<<"key">>` is the caller's key, `At(buffer, offset)` a
  place inside a buffer, so that a swap or a shift shows. Handlers return
  results or fail, also after storing some; what they do is the subject of the
  other modules. `svp` is whether the build has `ENABLE_SVP`. The version number
  of each command is left out. Calls share only the session, so one caller is
  enough; a process that crashed starts again.

Names are those of the source where there is one. `mtx_lock` and `mtx_unlock`
are assumed to succeed. Operators with an underscore and a suffix
(`Removable_InUse`) are mutants: the definition they are named after with a
plausible mistake, used to see that the properties notice it.

## Runs

| run | what it shows |
|---|---|
| `object_store` | two threads, two owners, three objects for two slots, shutdown at any time: the inductive invariant with exact counts, references keep objects alive, an object is freed once and only by its owner or shutdown, shutdown ends, the store ends empty; the store implements `ObjectLifecycle`, and uses the bit field as `SlotsClient` has it |
| `svp_store` | two threads, two buffers, all operations, double releases included: locked buffers stay, memory is reached through no more buffers than it was given to and not handed back from, work is exclusive; for a careful application no memory is lost and every call returns |
| `session` | three threads and the exit: one session, no client freed under a command, all calls return, a quiet application exits with nothing left |
| `cenc` | four modes, all patterns, counters that roll over: every byte gets its own key stream or chain, nothing is written past the sample |
| `cenc_rollover` | *violated*: a range that begins inside a block, with the rollover near |
| `cipher_store` | two threads, any order of calls, invalid buffer types too: exclusive use, no cipher freed in use |
| `cipher_store_careful` | documented order of calls, rights that change at any time: nothing left behind, output within what was checked, samples decrypted only with the cipher that the call has verified and whose rights it has asked, no work on a cipher whose RSA-OAEP parameters are missing, all calls return |
| `cipher_store_invalid` | *violated*: an invalid buffer type leaves the cipher locked |
| `mac_store` | two threads open, feed, compute and release one MAC: calls take effect one at a time (`MacContract`), a MAC is given out once and is that of all that was accepted, contexts have one owner, nothing is left behind, the calls of a careful application return |
| `keys` | one thread, any chain of commands with keys that expire, require SVP, are for unwrapping only or belong to others: output protections are kept, the usages a parent names for its children apply |
| `keys_exchange` | two threads make, exchange and release keys in three slots: a failed exchange leaves no key behind and removes no other |
| `commands` | all 35 commands with every combination of arguments, parameters that are too long, allocations and handlers that fail: handlers get what the caller gave, results come back only from a success, the dispatcher accepts what the library sends, everything allocated is freed |

The type invariants are part of what the runs check or of the inductive
invariants that the proofs show. That of `Cenc` can be put under INVARIANT in
`Cenc.cfg`.

### Bounds

Two threads are enough for a removal to wait for a user, for the user to empty
and refill the slot, and for two locks in opposite orders; the session has
three, so that one opens, one waits and one has read the pointer. Two slots are
one block of two bits; crossing a block is what `ObjectStoreProofs` proves for
every block width and count. Two slots and three objects let an add find the
store full. `Contexts` bounds the sessions that are opened in a behaviour.
`MaxRefs` bounds references that are left behind, `MaxLent` how often a region
is given to buffers before one hands it back: twice is as many as there are
buffers. In `Cenc` a block has 4 bytes and a word is 64, so that a size that
wraps is again larger than any sample; sizes cover nothing, less than a block,
whole blocks and both together, and counters every distance from the rollover
within a sample. What `Cenc` takes for integers is below what C makes of it: a
call of OpenSSL has less than 2^31 bytes (its length is an `int`,
`symmetric.c:1384`) and a pattern fewer than 2^60 blocks (`cenc.c:266`, `283`
multiply them by 16).

In `CipherStore` a block has 2 bytes. In `cipher_store_careful` lengths are
nothing, a part and one block, with algorithms of whole blocks, with padding,
with a tag and asymmetric, and there are two keys, one of which allows clear
output, so that a context can be opened again with another one. `cipher_store`
is about locks and references: one key and one length, and one algorithm of
each way through the handlers.

In run `keys` two handles are enough for chains of any length, because a child
can replace its grandparent, and for commands with two parents; the clock has
one moment within and one after the period of a key that expires; one exported
key survives its original. Rights that are asked for are four: everything, no
clear output and an end, unwrapping only, and somebody else's. Type J containers
need two parents of different kinds, which keys of 128 bits can both be, and
SoC containers are of usage `KEY_ONLY`. In `keys_exchange` three
slots are just enough for the parents or for the three results: an exchange
stores its keys when its parents are released by the other thread, and fails
with one or two stored when they are not. Rights are all the same there.

In run `mac_store` there is one slot and there are two addresses, so that one
thread finds the store full while another holds it, and an address is used
again. `MaxChunks` is two: the order of two chunks and the one after a MAC was
computed are all there is to confuse.

In run `commands` an argument is NULL, empty or full, a buffer is left out, clear
or SVP, an offset zero, inside or beyond, a list has none, one or many
elements, a sample is followed by none or by any other. The length that the
first bytes of SoC parameters give is zero, that of the structure, or more
(`Oversized`). Offsets are below 4 GiB: `ta.c:1752` passes one through a field
of 32 bits. Structures are given with every algorithm that has parameters and
one that has none. Four
combinations are excluded from the properties by name, each because of a
disagreement below: `ManyOffsets`, `LostOffset`, `InputLeftOut` and the command
of `sa_get_device_id` that fails. `RefusedByTA` lists the calls that the
TA refuses and the library lets through.

### Fairness

A thread that is inside a call goes on (weak fairness of its steps): the code
has no suspension points but locks and the loops that wait for a count. A mutex
that is free again and again is obtained in the end (strong fairness of the
lock steps): mutexes of the C library let waiters in. An exit that has begun
goes on. Nothing is assumed of the application: it may stop calling at any
time. A removal may be starved by threads that keep acquiring the object,
because it looks at the count from time to time; the liveness properties
are stated for what the code does guarantee (`ShutdownCompletes`: a store that
shuts down gives out no references; `ExitEnds`: a quiet exit).

## Proofs

`ObjectStoreProofs`, first part: for every block width and count,
`slots_allocate` returns a free slot and changes no other, fails only if there
is none, and `slots_free` clears exactly the bit of its slot. The argument is
arithmetic: the number `ffs` leads to and the bit that `BLOCK_BITMASK` names are
mirror images in their block. Its second half lifts this to the state machine
`SlotsClient`, for any client.

`ObjectStoreProofs`: `Spec => []IInv` for any number of threads, owners, objects
and slots. `NoUseAfterFree` alone is not inductive: that a removal frees no held
object needs that the count is the number of holders (`RefCountExact`), that a
held entry is the one in the table (`HeldEntryStays`), that slots and entries
agree (`TableConsistent`), that the object taken out of the table is in no other
hands (`FreedOnce`), and for shutdown that the slots behind it are empty
(`ScannedEmpty`) and that no removal is in progress (`ReleaseCountExact`).
`IInv` is the conjunction, with the control state (`ControlOK`); TLC checks it
in run `object_store`. From it follow `NoUseAfterFree`, `RefCountExact`,
`FreedOnce` and `DestroyedEmpty`. The assumptions are those of the modules: the
sets are disjoint from the markers `NULL` and `SLOT_INVALID`, there is at least
one block, and finite sets of threads.

`ObjectStoreProofs` also proves `RemovedByOwner` and two refinements. The store
implements `ObjectLifecycle`: an object's abstract life is read from the table
and the heap, its users from the references, and the step that matters is the
one that takes an object out, where a reference count of zero must mean that the
object has no user; that is `RefCountExact` with `HeldEntryStays`, and that the
object is in no second slot, `TableConsistent`. And the store is the client
that `SlotsClient` describes, with the slots of stored objects as those granted,
so that what the first part shows holds in it.

`KeysProofs`: `Spec => []TypeOK` and `Spec => []OutputProtectionsKept` for any
threads, handles, rights, kinds and video states. That a new key is no freer
than its parent needs that the parent has a key usage, for a parent without any
is treated by `restrict_child_rights` like one for unwrapping only: so
`HandlersLimit` shows of every handler that it asks for a usage of the key that
limits what it makes, and the invariant keeps, for a command in progress, that
its copies had the usages asked for and keep their limits. Handles
that are removed and filled again in between do not matter, because copies are
what a command works on. The theorem is about the chain of keys that limit each
other, and says nothing of the second parent of a Netflix key. For a careful application
`HandsInv` says that what the application knows and what commands have stored is
in the store, no slot twice, and nothing else; it gives `EveryKeyInOneHand`, and
with it `ChildUsagesApply`, because a key that a command has just stored can
then be removed or replaced by nobody else before the command returns.

`MacStoreProofs`: the inductive invariant of `MacStore`, of which `UsedIsStored`,
`EvpOwnedOnce` and `NothingHeld` are parts, and that `MacStore` implements
`MacContract` (`ContractHolds`). In the refinement a MAC is the context that the store reaches
through the pointer in its slot. That the work of one thread does not change
what another MAC is of needs that a context has one owner (`EvpOwnedOnce`), and
that adding one to the store makes a MAC of an empty message needs that a context
which was made and not yet added is as new (`MadeIsNew`).

`SvpStoreProofs`: a buffer is locked by one thread, and every reference is that
of a lock or of a thread that waits for one, those a failed release leaves behind
included. From it `LockedIsStored`, `ExclusiveWork` and `NoWriteAfterReturn`, and for a
careful application whose memory is accepted `MemoryKept`. `NoWriteAfterReturn`
counts: memory is reached through at most as many buffers as it was given to and
not handed back from, so memory that has come back as often as it was given is
not touched. That it is in one buffer only (`MemoryInOneBuffer`) is up to the
application.

`SessionProofs`: a thread that opens the session holds the mutex and has seen that
there is none (`OpeningOK`), what is live belongs to the session
(`LiveIsSession`), the references to a client are its users (`UsersCounted`), and
the exit handlers run in their order (`ExitOK`). That gives `OneSession` and
`ClientOutlivesCommand` for every application. `CleanExit` needs more
(`QuietInv`): of an application that is quiet no call is in progress once the
exit has begun.

`CipherStoreProofs`: as for SVP buffers, references are those of locks and of
threads that wait, and those that a call with an invalid buffer type leaves
behind; it gives `ExclusiveUse` and `UsedIsStored` for every application. With valid buffer types locks and references are those of calls in
progress (`HeldByCalls`), which gives `NothingHeld`. For a careful application
five more parts are inductive: a context is released when nobody uses it
(`ReleasedAlone`), a context that was verified for a sample stays as it was until
it is used, with the key whose rights the call has asked (`VerifiedIsKept`), a
context that a call goes to has its RSA-OAEP parameters (`WantedIsComplete`, from
`GivenComplete`: contexts that the application has been told of do), no two calls for the last chunk of a context are in
progress (`LastAlone`), and only a last chunk leaves an incomplete block in
OpenSSL's buffer (`BufferedIsLast`). They give `UseIsVerified`, `UsedIsComplete` and, for every
block size and all lengths, `OutputFits`. `UseIsVerified` lets the rights change at
any time (`RightsChange`): what is shown is that they allowed decryption when this
call asked, because nothing asks again.

`CencProofs`: in three steps, for every block size, every width of the counter
and of sizes that is a multiple of it, every counter, pattern and number of
subsamples.

* `Placed`: types, what is written and what is left of a stripe add up to what is
  wanted (`LengthsKept`), and only CENC leaves a block before its end
  (`BlocksKept`). It gives `WithinSample`, and is inductive as long as a range of
  AES-CTR that begins inside a block reaches its end (`Split # "any"`): of two
  ranges in one block the second makes `cenc.c:51` wrap, as listed below.
* About `decrypt()`: when it sees no rollover there is none, so that one call of
  OpenSSL is right; a rollover it sees is real if the call begins at a block,
  and then the two calls meet where the counter is zero; counter 0 is taken for
  a rollover and treated without harm, because no block lies before it.
* `IInv` adds that far from a rollover stays far, which counts the blocks begun
  so far (`RolloverKept`), that `iv` and OpenSSL's position are those of the
  bytes decrypted so far (`PositionKept`), what is wanted for the rest of a
  stripe (`StripeKept`), and that the output is what was wanted
  (`OutputKept`). `SampleRight` by itself is not inductive: it says nothing of
  the counter that the next call starts with, and nothing inside a stripe.
  Stripes need that the pattern starts again at multiples of
  `crypt + skip` blocks, and the count of encrypted bytes before a place
  (`EncryptedBefore`) is taken apart range by range.

`SampleRight` follows for ranges that end at blocks through any rollover, and
for ranges that end inside blocks far from one (`FarFromRollover`, in
`Tame`). The run `cenc_rollover` shows that this cannot be left out. `IInv` can be
put under INVARIANT in `Cenc.cfg`, also with `Split = "reaching"`.

`CommandsProofs`: `Commands` has no parameters but `NULL` and a finite table of
calls, so run `commands` goes through all that the module describes; the proof
says why each command is right, from rules about parameters and buffers that do
not depend on the table. It is in three layers.

* About parameters (`Requests`): what `In`, `Out`, `OptionalIn` and the others
  build has the form that the checks of `ta.c` ask for, and a buffer that
  `BufferParam` packs and `BufferOf` unpacks is the same piece of memory
  (`BufferPassed`), its offset applied once.
* One lemma for each command (`KeyUnwrapRight`, `ProcessRight`, ...), by
  algorithm, format and type of buffer: `CommandRight` says that the dispatcher
  accepts what the library sends but for the calls in `RefusedByTA`, that
  the handler gets every argument, and that every result the handler stores
  comes back in the argument it belongs to. `EveryCommandRight` collects them.
* `IInv` for the way of a call: it is one of the interface (`CallOK`), it has
  passed the checks before the point where it is (`ChecksPassed`), holds no
  memory that is not freed after it (`HeapOK`), and while it is out the results
  are in the copy of the command, then in the command, then in the caller's
  arguments (`ResultsKept`). `ResultsReturn` alone says nothing before the
  results are copied out, and `EverythingFreed` nothing before the memory is
  freed. TLC checks the parts of `IInv` when they are put under INVARIANT in
  `Commands.cfg`; all but `CallOK`, which looks every call up in the table, take
  seconds.

That gives `ArgumentsArrive`, `ResultsReturn`, `RequestsAccepted` and
`EverythingFreed`, with the four combinations left out that the next section
lists. The theorems assume `NullIsNoFunction`: the pointer NULL is not a
structure, so that an argument that is NULL can be told from one that is not.

The other assumptions are the named ones of the modules: finite sets of threads,
the marker `NULL` outside of the sets it is added to, sizes that are positive,
rights and kinds within their types.

Every invariant and every action property that a passing run checks is proved.
Only model-checked is liveness (`ShutdownCompletes`, `CallsReturn`, `ExitEnds`),
which is about fairness and out of the prover's reach.

Each proof module begins with `USE SMTT(60), ZenonT(60)`. Every step proves in a
few seconds, but the prover counts the time it spends on preparing other steps,
and the default of five seconds is too short for that in `CommandsProofs`. The
whole of `CommandsProofs` takes about seven minutes.

## Other disagreements

Properties that the modules state and the code does not satisfy, beside the
runs above. Put the name under INVARIANT (or PROPERTY) of the configuration to
see the counterexample.

| property | configuration | what happens |
|---|---|---|
| `CopiesReturn` (SvpStore) | `SvpStore.cfg` | `ta_sa_svp_buffer_copy.c:61` locks out, then in: copies in opposite directions wait for each other |
| `NoUseAfterFree` (Session) | `Session.cfg` | `client_shutdown` frees the session context under a thread that has got it from `client_session` (`client.c:33`) |
| `ChildHasNoMoreOutputs` (Keys) | `Keys.cfg` | `sa_types.h:386`: a child key "shall not have this flag set if the parent key did not have it set"; `stored_key.c:49` limits only the usages of a child of a key for unwrapping only, not its outputs |
| `ChildHasNoMoreOutputs` (Keys) | `KeysExchange.cfg` with `GivenRights <- MoreOrLessOutputs` | a Netflix key is computed from two keys and limited by one of them (`netflix.c:131`, `272`, `279`, `ta_sa_key_exchange.c:347`): it may allow an output that the other forbids |
| `EveryKeyInOneHand` (Keys) | `KeysExchange.cfg` with `Careful = FALSE` | a thread that releases handles it was never given makes a failed exchange remove another thread's key |
| `StoreOutlivesReleases` (ObjectStore) | `ObjectStore.cfg` | `object_store.c:247` reads `store->object_free` after `release_count` was decremented; shutdown can free the store before |
| `OkReleaseReturnsMemory` (SvpStore) | `SvpStore.cfg` | a second release of a handle answers OK without memory and keeps lock and reference (`svp_store.c:236`) |
| `MemoryInOneBuffer` (SvpStore) | `SvpStore.cfg` | the same memory is put into two buffers (`svp.c:48-79` and `svp_store.c:141-196` compare it with nothing): what one release hands back is still reached through the other |
| `StoredHasMemory` (SvpStore) | `SvpStore.cfg` with `ValidRegions = {}` | `svp_create_buffer` returns a status as `bool`; memory outside the SVP region is accepted (`svp.c:65`) |
| `ClientShutdownAfterTa` (Session) | `Session.cfg` | exit handlers run in the other order than the comment at `client.c:77` says |
| `WithinSample` (Cenc) | `CencRollover.cfg` with `Split = "any"` | two protected ranges in one block: `cenc.c:51` wraps and more is decrypted than the range has |
| `FailureReported` (Cenc) | `Cenc.cfg` | a stripe fails and the next subsample overwrites the status (`cenc.c:273`) |
| `LastIsLast` (CipherStore) | `CipherStore.cfg` | a second last chunk is processed with OK |
| `BadDataReported` (CipherStore) | `CipherStore.cfg` | bad padding or a bad tag is an internal error (`symmetric.c:1444`) |
| `StoredKeyLive` (CipherStore) | `CipherStore.cfg` | OAEP parameters fail after the cipher was stored: its key is freed under it |
| `UseIsVerified` (CipherStore) | `CipherStoreCareful.cfg` with `Careful = FALSE` | an application that releases a context and opens another one while a sample is processed: the handle was verified by `verify_sample` and means another cipher in `cenc_process_sample` (`ta_sa_process_common_encryption.c:214`) |
| `UsedIsComplete` (CipherStore) | `CipherStoreCareful.cfg` with `Careful = FALSE` | a context is used after its release, and its slot has a cipher by then whose RSA-OAEP parameters are not set yet (`ta_sa_crypto_cipher_init.c:796`) |
| `ArgumentsArrive` without `~ManyOffsets` (Commands) | `Commands.cfg` | `sa_svp_buffer_write.c:70` copies the first offset into every element of the list |
| `ResultsReturn` without `~LostOffset` (Commands) | `Commands.cfg` | `ta.c:1752` answers the check of an SVP buffer with the offset of a clear one |
| `RequestsAccepted` without `~InputLeftOut` (Commands) | `Commands.cfg` | `sa_crypto_cipher_process_last.c:119` looks at the type of `out` where that of `in` is meant: an SVP input with a clear output is not packed, and its parameter is not set |
| `RequestsAccepted` without `RefusedByTA` (Commands) | `Commands.cfg` | the library lets calls through that the TA refuses because a length is zero, among them `sa_key_unwrap` with AES-GCM or ChaCha20-Poly1305 and no additional data, or because SoC parameters are longer than their structure: the library takes the length from their first two bytes (`sa_key_import.c:153`, `sa_key_provision.c:68`), the TA compares it (`ta.c:361`, `419`) |
| `EverythingFreed` without its exception (Commands) | `Commands.cfg` | `sa_get_device_id.c` returns at once when the command fails, and its command stays allocated |

Read in the code and outside of what the properties above state:
`ta.c:1204` asks whether the output of `cipher_process` is INOUT where the checks
beside it ask whether it is not; `sa_key_provision.c:102` reads the command after
its allocation has failed; the comment at
`sa_ta_types.h:310` has `sa_key_release` INOUT where the library sends it IN;
`ta.c` copies the parameters of ElGamal and then uses the originals; in the build
with shared memory `CREATE_PARAM` leaves the loop of a list with `continue`, and
`sa_key_header.c` does not release its parameter.
The rights of the key of a sample are asked in `verify_sample`
(`ta_sa_process_common_encryption.c:91`) and not again in `cenc_process_sample`: a
key may expire in between. `ta.c:1752` assigns the offset of a clear input through
`in_buffer_type`, of 32 bits, so that from 4 GiB on it comes back truncated.
`ta.c:1867-1871`, in the build without SVP, return out of the loop over the samples
without freeing what it has allocated. `cenc.c:266` and `283` multiply the blocks of a pattern as `size_t`,
and `symmetric.c:1384` passes a length on as `int`: both are taken for integers
that fit. `svp_release_buffer` that fails (`ReleaseBufferFails`) and copies in
opposite directions happen in `SvpStore`, but not with the careful application
that `MemoryKept` and `CallsReturn` are shown for.

## Plan

Done: slots, object store, SVP buffers, session, common encryption, cipher and
MAC contexts, rights and keys, dispatch and client library, with the proofs
above.

Left, in this order:

1. Key containers and KDFs as pure operators against reference definitions: the
   block counters of the concatenation KDF and of CMAC KDF, the content rights of
   type J containers.
2. The one-shot functions of `symmetric.c` that wrap and unwrap keys.

Not modelled, and why:

* the arithmetic of RSA, EC and DH and the digests: calls of OpenSSL with
  conversions of keys, no state of their own;
* OTP and the other porting stand-ins: they replace hardware, and an integrator
  replaces them; what the rest of the code needs of them is in constants
  (`ValidRegions`, `VideoStates`);
* parsing of type J and SoC containers and of JSON: conversions of text; their
  result, the rights and the kind of a key, is an input of `Keys`;
* the OpenSSL engine and provider: adapters of the interface to OpenSSL, whose
  rules their behaviour follows; they use the interface like any application;
* the build with shared memory, which the reference build leaves out, and
  `sa_svp_buffer_alloc`, `sa_svp_buffer_free` and the allocation of SVP memory;
* utilities and tests.
