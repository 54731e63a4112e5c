------------------------------ MODULE MacStore ------------------------------
(***************************************************************************)
(* MAC contexts: mac_store.c, hmac_context.c, cmac_context.c and the       *)
(* handlers ta_sa_crypto_mac_*.c.  A call refers to the context in the     *)
(* object store, locks it, works on it, unlocks it and drops the           *)
(* reference; other threads run in between.  The object store is taken as  *)
(* ObjectStore shows it: a removal waits until there are no references.    *)
(*                                                                         *)
(* What a context has absorbed is its message, a sequence of chunks; what  *)
(* EVP_MAC_final makes of it is represented by the message.                *)
(***************************************************************************)
EXTENDS Integers, Sequences, FiniteSets

CONSTANTS
  Threads,
  Contexts,    \* slots of the MAC store
  Evps,        \* addresses of hmac_context_t and cmac_context_t
  MaxChunks,   \* bound of the length of a message
  NULL

Algorithms == {"HMAC", "CMAC"}

\* The bytes given to sa_crypto_mac_process, and those of a key.  A call of
\* sa_crypto_mac_process without bytes has NULL.
Chunks == {"data", "key"}

\* Output buffers: none, one of AES_BLOCK_SIZE, one for the longest digest
Outs == {"none", "block", "digest"}
Fits(algorithm, out) == out = "digest" \/ (out = "block" /\ algorithm = "CMAC")

Names == {"init", "process", "process_key", "compute", "release"}
Errors == {"INVALID_PARAMETER", "OPERATION_NOT_ALLOWED", "INVALID_KEY_TYPE",
           "INTERNAL_ERROR", "NO_AVAILABLE_RESOURCE_SLOT"}

\* A MAC in the store, and what its pointer points to: hmac_context_s or
\* cmac_context_s with the message that OpenSSL has absorbed.
mac_s == [mac_algorithm : Algorithms, evp : Evps]
evp_s == [message : Seq(Chunks), done : BOOLEAN]
Calls == [name : Names, context : Contexts \cup {NULL},
          chunk : Chunks \cup {NULL}, out : Outs]
Answered == [status : Errors \cup {"OK"}, mac : Seq(Chunks) \cup {NULL}]

\* A call as MacContract sees it
Asked == [name : Names, context : Contexts \cup {NULL}, chunk : Chunks \cup {NULL},
          answer : Answered \cup {NULL}]

ASSUME MacAssumption ==
  /\ MaxChunks \in Nat
  /\ IsFiniteSet(Threads)
  /\ NULL \notin mac_s \cup evp_s \cup Answered \cup Calls \cup Asked
  /\ NULL \notin Threads \cup Contexts \cup Evps \cup Chunks \cup Seq(Chunks)

VARIABLES
  careful,   \* whether the application releases a context only when it has no
             \* other use of it
  store,     \* the MACs
  heap,      \* hmac_context_t and cmac_context_t, NULL where free
  users,     \* the threads with a reference to a MAC
  owner,     \* who has locked a MAC
  clients,   \* the threads with a reference to the client
  given,     \* contexts that the application has
  pc,
  call,      \* the call of a thread
  answer,    \* what it will return, NULL until it is decided
  made,      \* the context that ta_sa_crypto_mac_init has made and not stored
  copy       \* whether the thread has a copy of a key

vars == <<careful, store, heap, users, owner, clients, given, pc, call, answer, made, copy>>

Points == {"idle", "init", "add", "acquire", "lock", "work", "unlock", "drop",
           "remove", "return"}

TypeOK ==
  /\ careful \in BOOLEAN
  /\ store \in [Contexts -> mac_s \cup {NULL}]
  /\ heap \in [Evps -> evp_s \cup {NULL}]
  /\ users \in [Contexts -> SUBSET Threads]
  /\ owner \in [Contexts -> Threads \cup {NULL}]
  /\ clients \subseteq Threads
  /\ given \subseteq Contexts
  /\ pc \in [Threads -> Points]
  /\ call \in [Threads -> Calls \cup {NULL}]
  /\ answer \in [Threads -> Answered \cup {NULL}]
  /\ made \in [Threads -> Evps \cup {NULL}]
  /\ copy \in [Threads -> BOOLEAN]

Init ==
  /\ careful \in BOOLEAN
  /\ store = [c \in Contexts |-> NULL]
  /\ heap = [e \in Evps |-> NULL]
  /\ users = [c \in Contexts |-> {}]
  /\ owner = [c \in Contexts |-> NULL]
  /\ clients = {}
  /\ given = {}
  /\ pc = [t \in Threads |-> "idle"]
  /\ call = [t \in Threads |-> NULL]
  /\ answer = [t \in Threads |-> NULL]
  /\ made = [t \in Threads |-> NULL]
  /\ copy = [t \in Threads |-> FALSE]

Goto(t, p) == pc' = [pc EXCEPT ![t] = p]
Answers(t, status, mac) ==
  answer' = [answer EXCEPT ![t] = [status |-> status, mac |-> mac]]
Fails(t, errors) == \E e \in errors : Answers(t, e, NULL)

Context(t) == call[t].context
Mac(t) == store[Context(t)]
Evp(t) == heap[Mac(t).evp]
Is(t, name) == call[t].name = name
Using(c) == {t \in Threads : pc[t] # "idle" /\ call[t].context = c}

-----------------------------------------------------------------------------
\* Chunks that are on their way to a context: the application stops at
\* MaxChunks.
MayProcess(c) ==
  /\ store[c] # NULL
  /\ Len(heap[store[c].evp].message) + Cardinality(Using(c)) < MaxChunks

\* The application calls a handler, which acquires the client.
MayCall(t, name, c, chunk, out) ==
  /\ pc[t] = "idle"
  /\ name = "init" <=> c = NULL
  /\ name # "init" => c \in given
  /\ name = "process" => chunk \in {"data", NULL}
  /\ name = "process_key" <=> chunk = "key"
  /\ name \notin {"process", "process_key"} => chunk = NULL
  /\ name \in {"process", "process_key"} => MayProcess(c)
  /\ name # "compute" => out = "none"
  /\ careful /\ name = "release" => Using(c) = {}

First(name) ==
  CASE name = "init"    -> "init"
    [] name = "release" -> "remove"
    [] OTHER            -> "acquire"

Call(t, name, c, chunk, out) ==
  /\ MayCall(t, name, c, chunk, out)
  /\ call' = [call EXCEPT ![t] =
                [name |-> name, context |-> c, chunk |-> chunk, out |-> out]]
  /\ clients' = clients \cup {t}
  /\ given' = IF careful /\ name = "release" THEN given \ {c} ELSE given
  /\ Goto(t, First(name))
  /\ UNCHANGED <<careful, store, heap, users, owner, answer, made, copy>>

-----------------------------------------------------------------------------
\* ta_sa_crypto_mac_init_hmac and ta_sa_crypto_mac_init_cmac: no such key, a
\* key that may not sign, is of the wrong kind, a digest that does not exist,
\* or a failure of OpenSSL
InitRefused(t) ==
  /\ pc[t] = "init"
  /\ Fails(t, Errors \ {"NO_AVAILABLE_RESOURCE_SLOT"})
  /\ \E b \in BOOLEAN : copy' = [copy EXCEPT ![t] = b]
  /\ Goto(t, "return")
  /\ UNCHANGED <<careful, store, heap, users, owner, clients, given, call, made>>

NewEvp == [message |-> <<>>, done |-> FALSE]

\* key_store_unwrap, then hmac_context_create or cmac_context_create
Create(t, e) ==
  /\ pc[t] = "init"
  /\ heap[e] = NULL
  /\ heap' = [heap EXCEPT ![e] = NewEvp]
  /\ made' = [made EXCEPT ![t] = e]
  /\ copy' = [copy EXCEPT ![t] = TRUE]
  /\ Goto(t, "add")
  /\ UNCHANGED <<careful, store, users, owner, clients, given, call, answer>>

\* mac_store_add_hmac_context and mac_store_add_cmac_context: the store owns
\* the context from here on.
Add(t, c, algorithm) ==
  /\ pc[t] = "add"
  /\ store[c] = NULL
  /\ store' = [store EXCEPT ![c] = [mac_algorithm |-> algorithm, evp |-> made[t]]]
  /\ made' = [made EXCEPT ![t] = NULL]
  /\ call' = [call EXCEPT ![t] = [name |-> "init", context |-> c,
                                  chunk |-> NULL, out |-> "none"]]
  /\ Answers(t, "OK", NULL)
  /\ Goto(t, "return")
  /\ UNCHANGED <<careful, heap, users, owner, clients, given, copy>>

\* Mutant: mac_free frees the context that its caller frees too.
AddFails_Frees(t) ==
  /\ pc[t] = "add"
  /\ \A c \in Contexts : store[c] # NULL
  /\ heap' = [heap EXCEPT ![made[t]] = NULL]
  /\ Fails(t, {"NO_AVAILABLE_RESOURCE_SLOT", "INTERNAL_ERROR"})
  /\ Goto(t, "return")
  /\ UNCHANGED <<careful, store, users, owner, clients, given, call, made, copy>>

\* Mutant: a full store is asked again instead of reported.
AddFails_Again(t) ==
  /\ pc[t] = "add"
  /\ \A c \in Contexts : store[c] # NULL
  /\ UNCHANGED vars

\* The store is full, or there is no memory for the mac_t.
AddFails(t) ==
  /\ pc[t] = "add"
  /\ Fails(t, {"NO_AVAILABLE_RESOURCE_SLOT", "INTERNAL_ERROR"})
  /\ Goto(t, "return")
  /\ UNCHANGED <<careful, store, heap, users, owner, clients, given, call, made, copy>>

-----------------------------------------------------------------------------
\* mac_store_acquire_exclusive: the reference, then the lock
Refer(t) ==
  /\ pc[t] = "acquire"
  /\ Mac(t) # NULL
  /\ users' = [users EXCEPT ![Context(t)] = @ \cup {t}]
  /\ Goto(t, "lock")
  /\ UNCHANGED <<careful, store, heap, owner, clients, given, call, answer, made, copy>>

\* No object has the handle.
NoMac(t) ==
  /\ pc[t] \in {"acquire", "remove"}
  /\ Mac(t) = NULL
  /\ Fails(t, {"INVALID_PARAMETER"})
  /\ Goto(t, "return")
  /\ UNCHANGED <<careful, store, heap, users, owner, clients, given, call, made, copy>>

mac_lock(t) ==
  /\ pc[t] = "lock"
  /\ owner[Context(t)] = NULL
  /\ owner' = [owner EXCEPT ![Context(t)] = t]
  /\ Goto(t, "work")
  /\ UNCHANGED <<careful, store, heap, users, clients, given, call, answer, made, copy>>

\* mac_store_release_exclusive: unlock ...
mac_unlock(t) ==
  /\ pc[t] = "unlock"
  /\ owner' = [owner EXCEPT ![Context(t)] = NULL]
  /\ Goto(t, "drop")
  /\ UNCHANGED <<careful, store, heap, users, clients, given, call, answer, made, copy>>

\* Mutant: the reference stays.
Drop_Keeps(t) ==
  /\ pc[t] = "drop"
  /\ Goto(t, "return")
  /\ UNCHANGED <<careful, store, heap, users, owner, clients, given, call, answer, made, copy>>

\* ... and drop the reference
Drop(t) ==
  /\ pc[t] = "drop"
  /\ users' = [users EXCEPT ![Context(t)] = @ \ {t}]
  /\ Goto(t, "return")
  /\ UNCHANGED <<careful, store, heap, owner, clients, given, call, answer, made, copy>>

-----------------------------------------------------------------------------
(***************************************************************************)
(* The handlers, with the MAC locked                                       *)
(***************************************************************************)
Work(t) ==
  /\ pc[t] = "work"
  /\ Goto(t, "unlock")
  /\ UNCHANGED <<careful, store, users, owner, clients, given, call, made>>

Absorbed(m, chunk) ==
  [message |-> IF chunk = NULL THEN m.message ELSE Append(m.message, chunk),
   done |-> m.done]

Finished(m) == [message |-> m.message, done |-> TRUE]

SetEvp(t, m) == heap' = [heap EXCEPT ![Mac(t).evp] = m]

\* The copy that ta_sa_crypto_mac_process_key makes of its key
Unwraps(t) == copy' = [copy EXCEPT ![t] = Is(t, "process_key")]

\* Mutant: the context is not asked whether it is done.
Process_Done(t) ==
  /\ Work(t)
  /\ Is(t, "process") \/ Is(t, "process_key")
  /\ SetEvp(t, Absorbed(Evp(t), call[t].chunk))
  /\ Unwraps(t)
  /\ Answers(t, "OK", NULL)

\* ta_sa_crypto_mac_process and ta_sa_crypto_mac_process_key
Process(t) ==
  /\ Work(t)
  /\ Is(t, "process") \/ Is(t, "process_key")
  /\ ~Evp(t).done
  /\ SetEvp(t, Absorbed(Evp(t), call[t].chunk))
  /\ Unwraps(t)
  /\ Answers(t, "OK", NULL)

\* OpenSSL fails, and may have taken the chunk.
ProcessFails(t) ==
  /\ Work(t)
  /\ Is(t, "process") \/ Is(t, "process_key")
  /\ ~Evp(t).done
  /\ call[t].chunk # NULL
  /\ SetEvp(t, Evp(t)) \/ SetEvp(t, Absorbed(Evp(t), call[t].chunk))
  /\ Unwraps(t)
  /\ Fails(t, {"INTERNAL_ERROR"})

\* The MAC has been computed.
ProcessLate(t) ==
  /\ Work(t)
  /\ Is(t, "process") \/ Is(t, "process_key")
  /\ Evp(t).done
  /\ Unwraps(t)
  /\ Fails(t, {"INVALID_PARAMETER"})
  /\ UNCHANGED heap

\* No such key, or not a symmetric one
KeyRefused(t) ==
  /\ Work(t)
  /\ Is(t, "process_key")
  /\ \E b \in BOOLEAN : copy' = [copy EXCEPT ![t] = b]
  /\ Fails(t, {"INVALID_PARAMETER", "OPERATION_NOT_ALLOWED"})
  /\ UNCHANGED heap

\* ta_sa_crypto_mac_compute without an output buffer, also when the MAC has
\* been computed
AnswerLength(t) ==
  /\ Work(t)
  /\ Is(t, "compute")
  /\ call[t].out = "none"
  /\ Answers(t, "OK", NULL)
  /\ UNCHANGED <<heap, copy>>

\* Computed before, or the buffer is too short
ComputeRefused(t) ==
  /\ Work(t)
  /\ Is(t, "compute")
  /\ call[t].out # "none"
  /\ Evp(t).done \/ ~Fits(Mac(t).mac_algorithm, call[t].out)
  /\ Fails(t, {"INVALID_PARAMETER"})
  /\ UNCHANGED <<heap, copy>>

\* hmac_context_compute and cmac_context_compute, which set done first
Compute(t) ==
  /\ Work(t)
  /\ Is(t, "compute")
  /\ call[t].out # "none"
  /\ ~Evp(t).done
  /\ Fits(Mac(t).mac_algorithm, call[t].out)
  /\ SetEvp(t, Finished(Evp(t)))
  /\ \/ Answers(t, "OK", Evp(t).message)
     \/ Fails(t, {"INTERNAL_ERROR"})
  /\ UNCHANGED copy

\* Mutant: a MAC is removed while it is referred to.
Remove_InUse(t) ==
  /\ pc[t] = "remove"
  /\ Mac(t) # NULL
  /\ store' = [store EXCEPT ![Context(t)] = NULL]
  /\ heap' = [heap EXCEPT ![Mac(t).evp] = NULL]
  /\ given' = given \ {Context(t)}
  /\ Answers(t, "OK", NULL)
  /\ Goto(t, "return")
  /\ UNCHANGED <<careful, users, owner, clients, call, made, copy>>

\* ta_sa_crypto_mac_release: mac_store_remove and mac_free
Remove(t) ==
  /\ pc[t] = "remove"
  /\ Mac(t) # NULL
  /\ users[Context(t)] = {}
  /\ store' = [store EXCEPT ![Context(t)] = NULL]
  /\ heap' = [heap EXCEPT ![Mac(t).evp] = NULL]
  /\ given' = given \ {Context(t)}
  /\ Answers(t, "OK", NULL)
  /\ Goto(t, "return")
  /\ UNCHANGED <<careful, users, owner, clients, call, made, copy>>

\* The end of the handlers: what was made and not stored and the copy of a key
\* are freed, the client is released.
Return(t) ==
  /\ pc[t] = "return"
  /\ heap' = [e \in Evps |-> IF e = made[t] THEN NULL ELSE heap[e]]
  /\ made' = [made EXCEPT ![t] = NULL]
  /\ copy' = [copy EXCEPT ![t] = FALSE]
  /\ clients' = clients \ {t}
  /\ given' = IF Is(t, "init") /\ answer[t].status = "OK"
              THEN given \cup {Context(t)} ELSE given
  /\ call' = [call EXCEPT ![t] = NULL]
  /\ answer' = [answer EXCEPT ![t] = NULL]
  /\ Goto(t, "idle")
  /\ UNCHANGED <<careful, store, users, owner>>

-----------------------------------------------------------------------------
CallStep(t) ==
  \/ InitRefused(t) \/ AddFails(t)
  \/ \E e \in Evps : Create(t, e)
  \/ \E c \in Contexts, a \in Algorithms : Add(t, c, a)
  \/ Refer(t) \/ NoMac(t)
  \/ Process(t) \/ ProcessFails(t) \/ ProcessLate(t) \/ KeyRefused(t)
  \/ AnswerLength(t) \/ ComputeRefused(t) \/ Compute(t)
  \/ mac_unlock(t) \/ Drop(t)
  \/ Remove(t)
  \/ Return(t)

Next ==
  \E t \in Threads :
    \/ \E name \in Names, c \in Contexts \cup {NULL},
          chunk \in Chunks \cup {NULL}, out \in Outs : Call(t, name, c, chunk, out)
    \/ mac_lock(t)
    \/ CallStep(t)

\* A thread inside a call goes on with it, and a mutex that is free again and
\* again is obtained in the end.
Fairness == \A t \in Threads : WF_vars(CallStep(t)) /\ SF_vars(mac_lock(t))

Spec == Init /\ [][Next]_vars

FairSpec == Spec /\ Fairness

-----------------------------------------------------------------------------
Referring(t) == pc[t] \in {"lock", "work", "unlock", "drop"}
Locking(t) == pc[t] \in {"work", "unlock"}

\* What a handler works on exists and is its own: "Mac with reference count
\* greater then 0 is guaranteed not to be deleted" and "All other attempts to
\* acquire the same mac will block until the mac is released" (mac_store.h).
UsedIsStored ==
  /\ \A t \in Threads : Referring(t) => Mac(t) # NULL /\ t \in users[Context(t)]
  /\ \A t \in Threads : Locking(t) => owner[Context(t)] = t

\* Every hmac_context_t and cmac_context_t that is live belongs to one MAC of
\* the store or to one thread that has made it and will free it; what is free
\* belongs to nobody.  A failure after its creation neither leaks it nor frees
\* it twice.
EvpOwnedOnce ==
  /\ \A e \in Evps :
       heap[e] # NULL <=> \/ \E c \in Contexts : store[c] # NULL /\ store[c].evp = e
                          \/ \E t \in Threads : made[t] = e
  /\ \A c, d \in Contexts :
       store[c] # NULL /\ store[d] # NULL /\ store[c].evp = store[d].evp => c = d
  /\ \A t, u \in Threads : made[t] # NULL /\ made[t] = made[u] => t = u
  /\ \A c \in Contexts, t \in Threads : store[c] # NULL => made[t] # store[c].evp

\* A call that has returned has left nothing behind: no reference to a MAC or
\* to the client, no lock, no copy of a key.
NothingHeld ==
  /\ clients = {t \in Threads : pc[t] # "idle"}
  /\ \A c \in Contexts : users[c] = {t \in Threads : Referring(t) /\ Context(t) = c}
  /\ \A c \in Contexts :
       owner[c] # NULL => Locking(owner[c]) /\ Context(owner[c]) = c
  /\ \A t \in Threads : pc[t] = "idle" => ~copy[t] /\ made[t] = NULL

\* Where a call is says what it is and whether its answer is decided.
ControlOK ==
  \A t \in Threads :
    /\ pc[t] = "idle" <=> call[t] = NULL
    /\ answer[t] # NULL <=> pc[t] \in {"unlock", "drop", "return"}
    /\ made[t] # NULL => pc[t] \in {"add", "return"}
    /\ pc[t] = "add" => made[t] # NULL
    /\ pc[t] \in {"init", "add"} =>
         call[t] = [name |-> "init", context |-> NULL, chunk |-> NULL, out |-> "none"]
    /\ pc[t] \in {"acquire", "lock", "work", "unlock", "drop"} =>
         call[t].name \in {"process", "process_key", "compute"}
    /\ pc[t] = "remove" => Is(t, "release")
    /\ pc[t] \in {"acquire", "lock", "work", "unlock", "drop", "remove"} =>
         Context(t) # NULL
    /\ pc[t] = "return" /\ answer[t].status = "OK" => Context(t) # NULL

\* A context that is not in the store yet has absorbed nothing.
MadeIsNew == \A t \in Threads : made[t] # NULL => heap[made[t]] = NewEvp

\* The inductive invariant of MacStoreProofs
IInv ==
  /\ TypeOK /\ ControlOK /\ UsedIsStored /\ EvpOwnedOnce /\ NothingHeld
  /\ MadeIsNew

\* MacContract, for the calls of all threads: they take effect one at a time,
\* so a MAC is that of all data that was accepted before, in its order, and is
\* given out once.
NameOf(t) == IF Is(t, "process_key") THEN "process" ELSE call[t].name

RequestOf(t) ==
  IF pc[t] = "idle" THEN NULL
  ELSE [name |-> NameOf(t), context |-> Context(t), chunk |-> call[t].chunk,
        answer |-> answer[t]]

MacOf(c) == IF store[c] = NULL THEN NULL ELSE heap[store[c].evp]

Requests == [t \in Threads |-> RequestOf(t)]
Macs == [c \in Contexts |-> MacOf(c)]

Contract == INSTANCE MacContract WITH macs <- Macs, request <- Requests

ContractKept == Contract!Spec

\* Every call of a careful application returns.
CallsReturn == \A t \in Threads : careful /\ pc[t] # "idle" ~> pc[t] = "idle"
=============================================================================
