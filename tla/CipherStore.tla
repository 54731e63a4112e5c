---------------------------- MODULE CipherStore ----------------------------
(***************************************************************************)
(* Cipher contexts: cipher_store.c, the handlers ta_sa_crypto_cipher_*.c   *)
(* and ta_sa_process_common_encryption.c, and the part of symmetric.c that *)
(* drives OpenSSL.  A call refers to the context in the object store,      *)
(* locks it, works on it, unlocks it and drops the reference; other        *)
(* threads run in between.  The object store is taken as ObjectStore shows *)
(* it: a removal waits until there are no references.                      *)
(*                                                                         *)
(* Data is abstracted to lengths.  The references to SVP buffers that a    *)
(* call takes are in SvpStore, the client that it refers to in Session;    *)
(* here the client is a count of references.                               *)
(***************************************************************************)
EXTENDS Integers, FiniteSets

CONSTANTS
  Threads,
  Contexts,    \* slots of the cipher store
  Algorithms,  \* cipher algorithms in use
  BLOCK,       \* AES_BLOCK_SIZE
  KEY_SIZE,    \* of asymmetric keys
  Lengths,     \* values of bytes_to_process
  Keys,
  ClearKeys,   \* those whose rights allow clear output (rights_allowed_clear)
  Invalid,     \* whether buffer types may be invalid
  Careful,     \* whether the application releases a context only when it has
               \* no other use of it, and gives it nothing after the last chunk
               \* but a new IV
  MaxRefs,     \* bound of the references to a context
  NULL

Padded == {"AES_ECB_PKCS7", "AES_CBC_PKCS7"}
Blocks == {"AES_ECB", "AES_CBC"} \cup Padded
Streams == {"AES_CTR", "CHACHA20"}
Tagged == {"AES_GCM", "CHACHA20_POLY1305"}
Symmetric == Blocks \cup Streams \cup Tagged
Asymmetric == {"RSA_PKCS1V15", "RSA_OAEP", "EC_ELGAMAL"}

ASSUME CipherAssumption ==
  /\ Algorithms \subseteq Symmetric \cup Asymmetric
  /\ BLOCK \in Nat \ {0} /\ KEY_SIZE \in Nat \ {0}
  /\ Lengths \subseteq Nat
  /\ ClearKeys \subseteq Keys
  /\ Invalid \in BOOLEAN /\ Careful \in BOOLEAN
  /\ MaxRefs \in Nat

ASSUME ThreadsAssumption == IsFiniteSet(Threads)

Modes == {"ENCRYPT", "DECRYPT"}
BufferTypes == {"CLEAR", "SVP"} \cup (IF Invalid THEN {"INVALID"} ELSE {})

\* cipher_s with what matters of its key (which it is, whether its memory is
\* live) and of the EVP_CIPHER_CTX: bytes of an
\* incomplete block, a block held back, finished.  "last" is set when the last
\* chunk has been processed since the IV was set.
cipher_s ==
  [cipher_algorithm : Symmetric \cup Asymmetric,
   cipher_mode : Modes,
   key : Keys,
   stored_key : {"live", "freed"},
   oaep : BOOLEAN,
   buffered : 0 .. BLOCK - 1,
   held : BOOLEAN,
   finished : BOOLEAN,
   last : BOOLEAN]

ASSUME NullAssumption == NULL \notin Threads \cup Contexts \cup Keys \cup cipher_s

VARIABLES
  store,    \* the ciphers
  refs,     \* their reference counts
  owner,    \* who has locked a cipher
  depth,    \* ... and how often: the mutex is recursive
  client_refs,
  given,    \* contexts that the application has
  pc,
  call,     \* the call of a thread: its name, context and output buffer type
  done,     \* what the call has done: status, bytes written, bytes the output
            \* buffer was checked for, whether it came after the last chunk,
            \* whether OpenSSL found bad padding or a bad tag, the key whose
            \* rights verify_sample found to allow decryption
  allows    \* the keys whose rights allow the use now: the time window and the
            \* state of the video outputs (rights_allowed_decrypt, _encrypt)

ciphers == <<store, refs, owner, depth, client_refs, given, pc, call, done>>
vars == <<ciphers, allows>>

Names == {"init", "process", "process_last", "update_iv", "cenc", "release"}
Points == {"idle", "init", "oaep_acquire", "oaep_lock", "oaep_set", "oaep_release",
           "acquire", "lock", "work", "cenc_acquire", "cenc_lock", "cenc_work",
           "release", "remove", "return"}
Statuses == {"OK", "INVALID_PARAMETER", "OPERATION_NOT_ALLOWED", "INTERNAL_ERROR",
             "VERIFICATION_FAILED", "NO_AVAILABLE_RESOURCE_SLOT"}

Nothing == [status |-> "OK", written |-> 0, required |-> 0, late |-> FALSE, bad |-> FALSE,
            allowed |-> NULL]
NoCall == [name |-> "init", context |-> NULL, out |-> "CLEAR"]

TypeOK ==
  /\ store \in [Contexts -> cipher_s \cup {NULL}]
  /\ refs \in [Contexts -> Nat]
  /\ owner \in [Contexts -> Threads \cup {NULL}]
  /\ depth \in [Contexts -> Nat]
  /\ client_refs \in Nat
  /\ given \subseteq Contexts
  /\ pc \in [Threads -> Points]
  /\ call \in [Threads -> [name : Names, context : Contexts \cup {NULL}, out : BufferTypes]]
  /\ done \in [Threads -> [status : Statuses, written : Nat, required : Nat,
                           late : BOOLEAN, bad : BOOLEAN, allowed : Keys \cup {NULL}]]
  /\ allows \subseteq Keys

Init ==
  /\ store = [c \in Contexts |-> NULL]
  /\ refs = [c \in Contexts |-> 0]
  /\ owner = [c \in Contexts |-> NULL]
  /\ depth = [c \in Contexts |-> 0]
  /\ client_refs = 0
  /\ given = {}
  /\ pc = [t \in Threads |-> "idle"]
  /\ call = [t \in Threads |-> NoCall]
  /\ done = [t \in Threads |-> Nothing]
  /\ allows \in SUBSET Keys

Goto(t, p) == pc' = [pc EXCEPT ![t] = p]
Status(t, s) == done' = [done EXCEPT ![t] = [Nothing EXCEPT !.status = s]]
Context(t) == call[t].context
Cipher(t) == store[Context(t)]
Uses(t, c) == pc[t] # "idle" /\ call[t].context = c

-----------------------------------------------------------------------------
(***************************************************************************)
(* OpenSSL, by what symmetric.c uses of it: EVP_*Update and EVP_*Final as  *)
(* sets of outcomes.  Versions differ in what EVP_*Final leaves of a block *)
(* that it has processed.                                                  *)
(***************************************************************************)
Outcome(c, ok, written, bad) ==
  [cipher |-> c, ok |-> ok, written |-> written, bad |-> bad]

Update(c, n) ==
  CASE c.cipher_algorithm \in Tagged /\ c.finished -> {Outcome(c, FALSE, 0, FALSE)}
    [] c.cipher_algorithm \in Padded /\ c.cipher_mode = "ENCRYPT" ->
         LET all == c.buffered + n
         IN  {Outcome([c EXCEPT !.buffered = all % BLOCK], TRUE,
                      BLOCK * (all \div BLOCK), FALSE)}
    [] c.cipher_algorithm \in Padded /\ c.cipher_mode = "DECRYPT" /\ n > 0 ->
         {Outcome([c EXCEPT !.held = TRUE], TRUE,
                  n - BLOCK + (IF c.held THEN BLOCK ELSE 0), FALSE)}
    [] OTHER -> {Outcome(c, TRUE, n, FALSE)}

TagOutcomes(c) ==
  {Outcome([c EXCEPT !.finished = TRUE], TRUE, 0, FALSE)}
    \cup {Outcome([c EXCEPT !.finished = f], FALSE, 0, TRUE) :
            f \in IF c.cipher_mode = "DECRYPT" THEN BOOLEAN ELSE {}}

PadOutcomes(c) ==
  {Outcome([c EXCEPT !.buffered = b], TRUE, BLOCK, FALSE) : b \in {0, c.buffered}}

Unpadded(c, h, p) == Outcome([c EXCEPT !.held = h], TRUE, BLOCK - p, FALSE)
BadPadding(c) == Outcome(c, FALSE, 0, TRUE)

UnpadOutcomes(c) ==
  {Unpadded(c, h, p) : h \in BOOLEAN, p \in 1 .. BLOCK} \cup {BadPadding(c)}

Final(c) ==
  CASE c.cipher_algorithm \in Tagged                               -> TagOutcomes(c)
    [] c.cipher_algorithm \in Padded /\ c.cipher_mode = "ENCRYPT" -> PadOutcomes(c)
    [] c.cipher_algorithm \in Padded /\ c.cipher_mode = "DECRYPT" ->
         IF c.held THEN UnpadOutcomes(c) ELSE {Outcome(c, FALSE, 0, FALSE)}
    [] OTHER -> {Outcome(c, TRUE, 0, FALSE)}

\* symmetric_context_encrypt_last and symmetric_context_decrypt_last
Then(u, f) == Outcome(f.cipher, f.ok, u.written + f.written, f.bad)

UpdateAndFinal(c, n) ==
  UNION {IF u.ok THEN {Then(u, f) : f \in Final(u.cipher)} ELSE {u} : u \in Update(c, n)}

-----------------------------------------------------------------------------
\* ta_sa_crypto_cipher_init up to the creation of the context
ta_sa_crypto_cipher_init(t) ==
  /\ pc[t] = "idle"
  /\ call' = [call EXCEPT ![t] = [NoCall EXCEPT !.name = "init"]]
  /\ client_refs' = client_refs + 1
  /\ Goto(t, "init")
  /\ UNCHANGED <<store, refs, owner, depth, given, done>>

\* No such key, rights that do not allow the mode (when they are asked: they
\* may have changed when the context is stored), a key or parameters that do
\* not suit the algorithm, or a failure of OpenSSL: nothing is stored.
InitRefused(t) ==
  /\ pc[t] = "init"
  /\ \E s \in {"OPERATION_NOT_ALLOWED", "INVALID_PARAMETER", "INTERNAL_ERROR"} : Status(t, s)
  /\ Goto(t, "return")
  /\ UNCHANGED <<store, refs, owner, depth, client_refs, given, call>>

NewCipher(algorithm, mode, key) ==
  [cipher_algorithm |-> algorithm, cipher_mode |-> mode, key |-> key,
   stored_key |-> "live", oaep |-> FALSE,
   buffered |-> 0, held |-> FALSE, finished |-> FALSE, last |-> FALSE]

\* Mutant: the context is given away before it is complete.
Add_Given(t, c, algorithm, mode, key) ==
  /\ pc[t] = "init"
  /\ store[c] = NULL
  /\ algorithm \in Asymmetric => mode = "DECRYPT"
  /\ store' = [store EXCEPT ![c] = NewCipher(algorithm, mode, key)]
  /\ call' = [call EXCEPT ![t].context = c]
  /\ given' = given \cup {c}
  /\ Goto(t, IF algorithm = "RSA_OAEP" THEN "oaep_acquire" ELSE "return")
  /\ UNCHANGED <<refs, owner, depth, client_refs, done>>

\* cipher_store_add_symmetric_context and cipher_store_add_asymmetric_key.
\* The parameters of RSA-OAEP are set after the cipher is in the store.
Add(t, c, algorithm, mode, key) ==
  /\ pc[t] = "init"
  /\ store[c] = NULL
  /\ algorithm \in Asymmetric => mode = "DECRYPT"
  /\ store' = [store EXCEPT ![c] = NewCipher(algorithm, mode, key)]
  /\ call' = [call EXCEPT ![t].context = c]
  /\ IF algorithm = "RSA_OAEP"
     THEN Goto(t, "oaep_acquire") /\ UNCHANGED given
     ELSE Goto(t, "return") /\ given' = given \cup {c}
  /\ UNCHANGED <<refs, owner, depth, client_refs, done>>

\* The store is full: the caller frees what it made.
AddFails(t) ==
  /\ pc[t] = "init"
  /\ \A c \in Contexts : store[c] # NULL
  /\ Status(t, "NO_AVAILABLE_RESOURCE_SLOT")
  /\ Goto(t, "return")
  /\ UNCHANGED <<store, refs, owner, depth, client_refs, given, call>>

-----------------------------------------------------------------------------
\* The two halves of cipher_store_acquire_exclusive, and its failure
Refer(t, from, to) ==
  /\ pc[t] = from
  /\ Cipher(t) # NULL
  /\ refs[Context(t)] < MaxRefs
  /\ refs' = [refs EXCEPT ![Context(t)] = @ + 1]
  /\ Goto(t, to)
  /\ UNCHANGED <<store, owner, depth, client_refs, given, call, done>>

ReferFails(t, from) ==
  /\ pc[t] = from
  /\ Cipher(t) = NULL
  /\ Status(t, "INVALID_PARAMETER")
  /\ Goto(t, "return")
  /\ UNCHANGED <<store, refs, owner, depth, client_refs, given, call>>

\* Mutant: the mutex does not exclude.
cipher_lock_Shared(t, from, to) ==
  /\ pc[t] = from
  /\ owner' = [owner EXCEPT ![Context(t)] = t]
  /\ depth' = [depth EXCEPT ![Context(t)] = @ + 1]
  /\ Goto(t, to)
  /\ UNCHANGED <<store, refs, client_refs, given, call, done>>

cipher_lock(t, from, to) ==
  /\ pc[t] = from
  /\ owner[Context(t)] \in {NULL, t}
  /\ owner' = [owner EXCEPT ![Context(t)] = t]
  /\ depth' = [depth EXCEPT ![Context(t)] = @ + 1]
  /\ Goto(t, to)
  /\ UNCHANGED <<store, refs, client_refs, given, call, done>>

\* Mutant: the mutex is not unlocked.
Released_KeepsLock(t) ==
  /\ refs' = [refs EXCEPT ![Context(t)] = @ - 1]
  /\ UNCHANGED <<owner, depth>>

\* cipher_store_release_exclusive: unlock, then drop the reference
Released(t) ==
  LET c == Context(t)
  IN  /\ depth' = [depth EXCEPT ![c] = @ - 1]
      /\ owner' = [owner EXCEPT ![c] = IF depth[c] = 1 THEN NULL ELSE t]
      /\ refs' = [refs EXCEPT ![c] = @ - 1]

cipher_store_release_exclusive(t) ==
  /\ pc[t] = "release"
  /\ Released(t)
  /\ Goto(t, "return")
  /\ UNCHANGED <<store, client_refs, given, call, done>>

\* ta_sa_crypto_cipher_init frees the key after every failure, also when the
\* cipher that has it is in the store already.
FreesKey(t) == call[t].name = "init" /\ done[t].status # "OK" /\ Context(t) # NULL

\* client_store_release, and the return to the application
client_store_release(t) ==
  /\ pc[t] = "return"
  /\ client_refs' = client_refs - 1
  /\ IF FreesKey(t) /\ Cipher(t) # NULL
     THEN store' = [store EXCEPT ![Context(t)].stored_key = "freed"]
     ELSE UNCHANGED store
  /\ call' = [call EXCEPT ![t] = NoCall]
  /\ done' = [done EXCEPT ![t] = Nothing]
  /\ Goto(t, "idle")
  /\ UNCHANGED <<refs, owner, depth, given>>

-----------------------------------------------------------------------------
\* cipher_set_oaep_parameters
cipher_set_oaep_parameters(t) ==
  /\ pc[t] = "oaep_set"
  /\ store' = [store EXCEPT ![Context(t)].oaep = TRUE]
  /\ given' = given \cup {Context(t)}
  /\ Goto(t, "release")
  /\ UNCHANGED <<refs, owner, depth, client_refs, call, done>>

\* Its allocation fails: the context stays in the store.
OaepFails(t) ==
  /\ pc[t] = "oaep_set"
  /\ Status(t, "INTERNAL_ERROR")
  /\ Goto(t, "release")
  /\ UNCHANGED <<store, refs, owner, depth, client_refs, given, call>>

-----------------------------------------------------------------------------
\* The application calls one of the other handlers.
MayCall(t, name, c) ==
  /\ pc[t] = "idle"
  /\ c \in given
  /\ Careful =>
       /\ name = "release" => \A u \in Threads : ~Uses(u, c)
       /\ name \in {"process", "process_last", "cenc"} =>
            /\ ~store[c].last
            /\ \A u \in Threads : Uses(u, c) => call[u].name # "process_last"

Call(t, name, c, out) ==
  /\ MayCall(t, name, c)
  /\ call' = [call EXCEPT ![t] = [name |-> name, context |-> c, out |-> out]]
  /\ client_refs' = client_refs + 1
  /\ given' = IF name = "release" /\ Careful THEN given \ {c} ELSE given
  /\ Goto(t, IF name = "release" THEN "remove" ELSE "acquire")
  /\ UNCHANGED <<store, refs, owner, depth, done>>

\* Mutant: a context is removed under its users.
Remove_InUse(t) ==
  /\ pc[t] = "remove"
  /\ Cipher(t) # NULL
  /\ store' = [store EXCEPT ![Context(t)] = NULL]
  /\ given' = given \ {Context(t)}
  /\ Goto(t, "return")
  /\ UNCHANGED <<refs, owner, depth, client_refs, call, done>>

\* ta_sa_crypto_cipher_release: cipher_store_remove and cipher_free
Remove(t) ==
  /\ pc[t] = "remove"
  /\ Cipher(t) # NULL
  /\ refs[Context(t)] = 0
  /\ store' = [store EXCEPT ![Context(t)] = NULL]
  /\ given' = given \ {Context(t)}
  /\ Goto(t, "return")
  /\ UNCHANGED <<refs, owner, depth, client_refs, call, done>>

-----------------------------------------------------------------------------
\* get_required_length of the two handlers
RequiredLength(c, n) == IF c.cipher_algorithm \in Asymmetric THEN KEY_SIZE ELSE n

\* Mutant: no room for the padding of a full block.
LastRequiredLength_Round(c, n) ==
  CASE c.cipher_algorithm \in Padded           -> BLOCK * ((n + BLOCK - 1) \div BLOCK)
    [] c.cipher_algorithm \in Streams \cup Tagged -> n
    [] OTHER                                   -> 0

LastRequiredLength(c, n) ==
  CASE c.cipher_algorithm \in Padded           -> BLOCK * ((n \div BLOCK) + 1)
    [] c.cipher_algorithm \in Streams \cup Tagged -> n
    [] OTHER                                   -> 0

\* What both handlers ask of the buffers
BufferStatus(c, out, in) ==
  CASE "SVP" \in {out, in} /\ c.cipher_algorithm \in Tagged \cup Asymmetric
                                              -> "OPERATION_NOT_ALLOWED"
    [] out = "CLEAR" /\ in # out              -> "INVALID_PARAMETER"
    [] out = "CLEAR" /\ c.key \notin ClearKeys  -> "OPERATION_NOT_ALLOWED"
    [] OTHER                                  -> "OK"

\* ... and of the length
ProcessStatus(c, n) ==
  IF \/ c.cipher_algorithm \in Blocks /\ n % BLOCK # 0
     \/ c.cipher_algorithm \in {"RSA_PKCS1V15", "RSA_OAEP"} /\ n # KEY_SIZE
     \/ c.cipher_algorithm = "EC_ELGAMAL" /\ n # 4 * KEY_SIZE
  THEN "INVALID_PARAMETER" ELSE "OK"

LastStatus(c, n) ==
  IF \/ c.cipher_algorithm \in {"AES_ECB", "AES_CBC"} \cup Asymmetric
     \/ c.cipher_algorithm \in Padded \cup {"AES_GCM"} /\ n > BLOCK
     \/ /\ c.cipher_mode = "DECRYPT"
        /\ \/ c.cipher_algorithm \in Padded /\ n % BLOCK # 0
           \/ c.cipher_algorithm \in Streams /\ n > BLOCK
  THEN "INVALID_PARAMETER" ELSE "OK"

\* The handlers with a NULL output buffer answer the length they need.
AnswerLength(t) ==
  /\ pc[t] = "work"
  /\ call[t].name \in {"process", "process_last"}
  /\ Goto(t, "release")
  /\ UNCHANGED <<store, refs, owner, depth, client_refs, given, call, done>>

\* A buffer type that is neither: the handlers return from within their loop,
\* past all releases.
InvalidType(t) ==
  /\ pc[t] = "work"
  /\ call[t].name \in {"process", "process_last"}
  /\ call[t].out = "INVALID"
  /\ call' = [call EXCEPT ![t] = NoCall]
  /\ Goto(t, "idle")
  /\ UNCHANGED <<store, refs, owner, depth, client_refs, given, done>>

\* Buffers or lengths that do not suit the cipher, or rights that do not allow
\* its use now.  A buffer that is too small or not in its memory is refused
\* whatever else holds.
Refused(t, in, n) ==
  /\ pc[t] = "work"
  /\ call[t].out \in {"CLEAR", "SVP"}
  /\ LET b == BufferStatus(Cipher(t), call[t].out, in)
         l == IF call[t].name = "process" THEN ProcessStatus(Cipher(t), n)
                                          ELSE LastStatus(Cipher(t), n)
     IN  /\ call[t].name \in {"process", "process_last"}
         /\ \/ Status(t, CASE b # "OK" -> b
                           [] l # "OK" -> l
                           [] OTHER    -> "INVALID_PARAMETER")
            \/ /\ b = "OK" /\ l = "OK" /\ Cipher(t).key \notin allows
               /\ Status(t, "OPERATION_NOT_ALLOWED")
  /\ Goto(t, "release")
  /\ UNCHANGED <<store, refs, owner, depth, client_refs, given, call>>

Accepted(t, in, status) ==
  /\ pc[t] = "work"
  /\ call[t].out \in {"CLEAR", "SVP"}
  /\ BufferStatus(Cipher(t), call[t].out, in) = "OK"
  /\ status = "OK"
  /\ Cipher(t).key \in allows
  /\ Goto(t, "release")
  /\ UNCHANGED <<refs, owner, depth, client_refs, given, call>>

Did(t, o, status, required) ==
  done' = [done EXCEPT ![t] =
    [status |-> status, written |-> o.written, required |-> required,
     late |-> Cipher(t).last, bad |-> o.bad, allowed |-> NULL]]

\* ta_sa_crypto_cipher_process_symmetric
process_symmetric(t, in, n) ==
  /\ call[t].name = "process"
  /\ Accepted(t, in, ProcessStatus(Cipher(t), n))
  /\ Cipher(t).cipher_algorithm \in Symmetric
  /\ \E o \in Update(Cipher(t), n) :
       /\ store' = [store EXCEPT ![Context(t)] = o.cipher]
       /\ Did(t, o, IF o.ok THEN "OK" ELSE "INTERNAL_ERROR", RequiredLength(Cipher(t), n))

\* ta_sa_crypto_cipher_process_rsa_pkcs1v15, _rsa_oaep and _ec_elgamal
process_asymmetric(t, in, n) ==
  /\ call[t].name = "process"
  /\ Accepted(t, in, ProcessStatus(Cipher(t), n))
  /\ Cipher(t).cipher_algorithm \in Asymmetric
  /\ \E written \in 0 .. KEY_SIZE, ok \in BOOLEAN :
       Did(t, Outcome(Cipher(t), ok, IF ok THEN written ELSE 0, ~ok),
           IF ok THEN "OK" ELSE "VERIFICATION_FAILED", KEY_SIZE)
  /\ UNCHANGED store

process_last(t, in, n) ==
  /\ call[t].name = "process_last"
  /\ Accepted(t, in, LastStatus(Cipher(t), n))
  /\ \E o \in UpdateAndFinal(Cipher(t), n) :
       /\ store' = [store EXCEPT ![Context(t)] =
                      [o.cipher EXCEPT !.last = o.ok \/ Cipher(t).last]]
       /\ Did(t, o, IF o.ok THEN "OK" ELSE "INTERNAL_ERROR", LastRequiredLength(Cipher(t), n))

\* symmetric_context_set_iv
HasIv(c) == c.cipher_algorithm \in {"AES_CBC", "AES_CBC_PKCS7", "AES_CTR"}
IvSet(c) == [c EXCEPT !.buffered = 0, !.held = FALSE, !.last = FALSE]

update_iv(t) ==
  /\ pc[t] = "work"
  /\ call[t].name = "update_iv"
  /\ IF HasIv(Cipher(t))
     THEN store' = [store EXCEPT ![Context(t)] = IvSet(@)] /\ UNCHANGED done
     ELSE Status(t, "INVALID_PARAMETER") /\ UNCHANGED store
  /\ Goto(t, "release")
  /\ UNCHANGED <<refs, owner, depth, client_refs, given, call>>

-----------------------------------------------------------------------------
\* What verify_sample asks of a cipher for the output buffer
Verifiable(c, out) ==
  /\ c.cipher_mode = "DECRYPT"
  /\ out \in {"CLEAR", "SVP"}
  /\ c.cipher_algorithm \in {"AES_CTR", "AES_CBC"}
  /\ out = "CLEAR" => c.key \in ClearKeys

\* ... and of the buffers
Compatible(out, in) == out = "CLEAR" => in = out

\* The key of a cipher, if its rights allow decryption now
AllowedKey(c) == IF c.key \in allows THEN c.key ELSE NULL

\* Mutant: the cipher is not verified.
verify_sample_Unchecked(t, in) ==
  /\ pc[t] = "work"
  /\ call[t].name = "cenc"
  /\ Released(t)
  /\ done' = [done EXCEPT ![t].allowed = AllowedKey(Cipher(t))]
  /\ Goto(t, "cenc_acquire")
  /\ UNCHANGED <<store, client_refs, given, call>>

\* Mutant: rights_allowed_decrypt is not asked.
verify_sample_AnyTime(t, in) ==
  /\ pc[t] = "work"
  /\ call[t].name = "cenc"
  /\ Verifiable(Cipher(t), call[t].out)
  /\ Compatible(call[t].out, in)
  /\ Released(t)
  /\ done' = [done EXCEPT ![t].allowed = AllowedKey(Cipher(t))]
  /\ Goto(t, "cenc_acquire")
  /\ UNCHANGED <<store, client_refs, given, call>>

\* verify_sample, which gives the cipher back.  The rights are not asked again
\* when the sample is decrypted.
verify_sample(t, in) ==
  /\ pc[t] = "work"
  /\ call[t].name = "cenc"
  /\ Verifiable(Cipher(t), call[t].out)
  /\ Compatible(call[t].out, in)
  /\ Cipher(t).key \in allows
  /\ Released(t)
  /\ done' = [done EXCEPT ![t].allowed = AllowedKey(Cipher(t))]
  /\ Goto(t, "cenc_acquire")
  /\ UNCHANGED <<store, client_refs, given, call>>

\* ... or refuses it, or the buffers
VerifyFails(t) ==
  /\ pc[t] = "work"
  /\ call[t].name = "cenc"
  /\ \E s \in {"INVALID_PARAMETER", "OPERATION_NOT_ALLOWED"} : Status(t, s)
  /\ Goto(t, "release")
  /\ UNCHANGED <<store, refs, owner, depth, client_refs, given, call>>

\* cenc_process_sample (Cenc) on a cipher that it can decrypt with
Decrypts(c) == HasIv(c) /\ c.cipher_mode = "DECRYPT"

cenc_process_sample(t) ==
  /\ pc[t] = "cenc_work"
  /\ Decrypts(Cipher(t))
  /\ \E o \in Update(IvSet(Cipher(t)), BLOCK) :
       store' = [store EXCEPT ![Context(t)] = o.cipher]
  /\ Goto(t, "release")
  /\ UNCHANGED <<refs, owner, depth, client_refs, given, call, done>>

\* ... and when it fails
SampleFails(t) ==
  /\ pc[t] = "cenc_work"
  /\ Status(t, "INVALID_PARAMETER")
  /\ Goto(t, "release")
  /\ UNCHANGED <<store, refs, owner, depth, client_refs, given, call>>

-----------------------------------------------------------------------------
Lock(t) ==
  \/ cipher_lock(t, "oaep_lock", "oaep_set")
  \/ cipher_lock(t, "lock", "work")
  \/ cipher_lock(t, "cenc_lock", "cenc_work")

CallStep(t) ==
  \/ InitRefused(t) \/ AddFails(t)
  \/ \E c \in Contexts, a \in Algorithms, m \in Modes, k \in Keys : Add(t, c, a, m, k)
  \/ Refer(t, "oaep_acquire", "oaep_lock") \/ ReferFails(t, "oaep_acquire")
  \/ cipher_set_oaep_parameters(t) \/ OaepFails(t)
  \/ Refer(t, "acquire", "lock") \/ ReferFails(t, "acquire")
  \/ AnswerLength(t) \/ InvalidType(t)
  \/ \E in \in {"CLEAR", "SVP"}, n \in Lengths :
       \/ Refused(t, in, n)
       \/ process_symmetric(t, in, n) \/ process_asymmetric(t, in, n)
       \/ process_last(t, in, n)
  \/ update_iv(t)
  \/ \E in \in {"CLEAR", "SVP"} : verify_sample(t, in)
  \/ VerifyFails(t)
  \/ Refer(t, "cenc_acquire", "cenc_lock") \/ ReferFails(t, "cenc_acquire")
  \/ cenc_process_sample(t) \/ SampleFails(t)
  \/ Remove(t) \/ ReferFails(t, "remove")
  \/ cipher_store_release_exclusive(t)
  \/ client_store_release(t)

\* Time passes and displays are plugged in and out: what the rights allow
\* changes at any time.
RightsChange == allows' \in SUBSET Keys /\ UNCHANGED ciphers

\* The steps of a thread
Step(t) ==
  \/ ta_sa_crypto_cipher_init(t)
  \/ \E name \in Names \ {"init"}, c \in Contexts, out \in BufferTypes : Call(t, name, c, out)
  \/ Lock(t)
  \/ CallStep(t)

Runs(step) == step /\ UNCHANGED allows

Next == RightsChange \/ \E t \in Threads : Runs(Step(t))

\* A thread inside a call goes on with it, and a mutex that is free again and
\* again is obtained in the end.
Fairness == \A t \in Threads : WF_vars(Runs(CallStep(t))) /\ SF_vars(Runs(Lock(t)))

Spec == Init /\ [][Next]_vars

FairSpec == Spec /\ Fairness

-----------------------------------------------------------------------------
Working(t) == pc[t] \in {"oaep_set", "work", "cenc_work", "release"}

\* "All other attempts to acquire the same cipher will block until the cipher
\* is released" (cipher_store.h): no two threads drive one EVP_CIPHER_CTX.
ExclusiveUse ==
  \A t, u \in Threads : Working(t) /\ Working(u) /\ t # u => Context(t) # Context(u)

\* "Cipher with reference count greater then 0 is guaranteed not to be deleted"
\* (cipher_store.h): a thread that works on a cipher has it in the store,
\* locked, whatever releases the application makes at the same time.
UsedIsStored ==
  \A t \in Threads : Working(t) => Cipher(t) # NULL /\ owner[Context(t)] = t

\* References, locks and uses of the client are those of the calls in
\* progress: a call that has returned has left nothing behind.
NothingHeld ==
  /\ client_refs = Cardinality({t \in Threads : pc[t] # "idle"})
  /\ \A c \in Contexts :
       /\ owner[c] # NULL => Working(owner[c]) /\ Context(owner[c]) = c
       /\ refs[c] = Cardinality({t \in Threads :
            Context(t) = c /\ (Working(t) \/ pc[t] \in {"oaep_lock", "lock", "cenc_lock"})})

\* OpenSSL writes no more than convert_buffer has checked the output buffer
\* for, whatever chunks were processed before.
OutputFits == \A t \in Threads : done[t].written <= done[t].required

\* "Context has already processed last data chunk" (sa_crypto.h) is an error.
LastIsLast ==
  \A t \in Threads :
    call[t].name = "process_last" /\ done[t].late => done[t].status # "OK"

\* "Invalid padding value has been encountered", "Tag verification has failed"
\* (sa_crypto.h) have their own status.
BadDataReported ==
  \A t \in Threads : done[t].bad => done[t].status = "VERIFICATION_FAILED"

\* A sample is decrypted with a cipher that verify_sample accepts for the
\* output buffer, and for which it has asked in this call whether the rights of
\* its key allow decryption, although it gives the cipher back in between.
\* (They may have stopped to allow it since: nothing asks again.)
UseIsVerified ==
  \A t \in Threads :
    pc[t] = "cenc_work" /\ Decrypts(Cipher(t)) =>
      Verifiable(Cipher(t), call[t].out) /\ done[t].allowed = Cipher(t).key

\* "The cipher store will manage the key and it does not need to be freed"
\* (cipher_store.h): the key of a cipher in the store is live.
StoredKeyLive ==
  \A c \in Contexts : store[c] # NULL => store[c].stored_key = "live"

\* A cipher with all its parameters
Complete(c) == c # NULL /\ (c.cipher_algorithm = "RSA_OAEP" => c.oaep)

\* No handler works on a context that ta_sa_crypto_cipher_init has put into the
\* store and not yet given its parameters for RSA-OAEP.
UsedIsComplete == \A t \in Threads : pc[t] = "work" => Complete(Cipher(t))

-----------------------------------------------------------------------------
(***************************************************************************)
(* Why they hold: the parts of an inductive invariant (CipherStoreProofs). *)
(* A call that returned with its lock has left a reference behind as well: *)
(* references are those of the locks and of the threads that wait.         *)
(***************************************************************************)
Waiting(c) ==
  {t \in Threads : Context(t) = c /\ pc[t] \in {"oaep_lock", "lock", "cenc_lock"}}

InCalls == {t \in Threads : pc[t] # "idle"}

ControlOK ==
  \A t \in Threads :
    /\ pc[t] \in {"idle", "init"} => Context(t) = NULL
    /\ pc[t] = "init" => call[t].name = "init"
    /\ pc[t] \notin {"idle", "init", "return"} => Context(t) \in Contexts

LocksOwned ==
  /\ \A c \in Contexts : (owner[c] = NULL) <=> (depth[c] = 0)
  /\ \A t \in Threads : Working(t) => owner[Context(t)] = t

RefsCounted ==
  /\ \A c \in Contexts : refs[c] = depth[c] + Cardinality(Waiting(c))
  /\ client_refs >= Cardinality(InCalls)

ReferredIsStored == \A c \in Contexts : refs[c] > 0 => store[c] # NULL

GivenIsStored == \A c \in given : store[c] # NULL

\* What the application has is complete.
GivenComplete ==
  \A c \in given : store[c].cipher_algorithm = "RSA_OAEP" => store[c].oaep

IInv ==
  /\ TypeOK /\ ControlOK
  /\ LocksOwned /\ RefsCounted /\ ReferredIsStored
  /\ GivenIsStored /\ GivenComplete

\* With valid buffer types every lock is that of a call.
HeldByCalls ==
  /\ client_refs = Cardinality(InCalls)
  /\ \A c \in Contexts, t \in Threads :
       owner[c] = t => Working(t) /\ Context(t) = c /\ depth[c] = 1

\* What a careful application releases is there and in no other use.
ReleasedAlone ==
  \A t \in Threads : pc[t] = "remove" =>
    /\ Cipher(t) # NULL
    /\ Context(t) \notin given
    /\ \A u \in Threads \ {t} : ~Uses(u, Context(t))

\* What has been verified stays as it is until it is used.
VerifiedIsKept ==
  \A t \in Threads : pc[t] \in {"cenc_acquire", "cenc_lock", "cenc_work"} =>
    /\ Cipher(t) # NULL
    /\ Verifiable(Cipher(t), call[t].out)
    /\ done[t].allowed = Cipher(t).key

\* A context that a handler waits for is not replaced by another, which may be
\* incomplete.
WantedIsComplete ==
  \A t \in Threads : pc[t] \in {"acquire", "lock", "work"} => Complete(Cipher(t))

\* Of two calls for the last chunk one has returned, and only a last chunk
\* leaves an incomplete block.
LastAlone ==
  \A t \in Threads : pc[t] # "idle" /\ call[t].name = "process_last" =>
    /\ pc[t] \in {"acquire", "lock", "work"} => Cipher(t) # NULL /\ ~Cipher(t).last
    /\ \A u \in Threads \ {t} : Uses(u, Context(t)) => call[u].name # "process_last"

BufferedIsLast ==
  \A c \in Contexts : store[c] # NULL /\ ~store[c].last => store[c].buffered = 0

CarefulInv ==
  ReleasedAlone /\ VerifiedIsKept /\ WantedIsComplete /\ LastAlone /\ BufferedIsLast /\ OutputFits

-----------------------------------------------------------------------------
\* Every call returns.
CallsReturn == \A t \in Threads : (pc[t] # "idle") ~> (pc[t] = "idle")
=============================================================================
