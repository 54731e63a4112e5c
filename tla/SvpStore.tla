----------------------------- MODULE SvpStore -----------------------------
(***************************************************************************)
(* The SVP buffers of a session: svp_store.c over an object store, the     *)
(* buffer operations of porting/svp.c, and the handlers ta_sa_svp_*.c that *)
(* threads of the session run concurrently.                                *)
(*                                                                         *)
(* A handler takes a reference to a buffer and then the buffer's recursive *)
(* mutex (svp_store_acquire_exclusive), works, unlocks and drops the       *)
(* reference.  The object store is represented by what module ObjectStore  *)
(* shows of it: a reference keeps the entry in place, and a removal waits  *)
(* until there is none.  All calls come from the session's one UUID.       *)
(*                                                                         *)
(* Contents and offsets are abstracted: a range check or a comparison may   *)
(* fail or not.                                                            *)
(***************************************************************************)
EXTENDS Naturals, FiniteSets

CONSTANTS
  Threads,
  Handles,        \* slots of the SVP store
  Regions,        \* SVP memory regions of the application
  ValidRegions,   \* those that memory_is_valid_svp accepts
  NULL,
  CarefulPairs,   \* the <<out, in>> that a careful application copies
  MaxLent,        \* bound: how often the application gives a region that it
                  \* has not got back
  MaxRefs         \* bound: a call on a handle with so many references is not
                  \* made (a release that fails leaves one behind)

ASSUME ValidAssumption == ValidRegions \subseteq Regions
ASSUME CarefulPairsAssumption == CarefulPairs \subseteq Handles \X Handles
ASSUME MaxLentAssumption == MaxLent \in Nat \ {0}
ASSUME MaxRefsAssumption == MaxRefs \in Nat \ {0}
ASSUME ThreadsAssumption == IsFiniteSet(Threads)
ASSUME HandlesAssumption == IsFiniteSet(Handles)
ASSUME NullAssumption == NULL \notin Threads \cup Handles \cup Regions

VARIABLES
  careful,  \* whether the application copies buffers in an order, and keeps
            \* the release of a handle apart from other calls on that handle
  stored,   \* the handles with an svp_t
  buffer,   \* svp->buffer, by the region it points to
  refs,     \* reference counts of the object store
  owner,    \* owner of svp->mutex
  depth,    \* how often it has locked it
  lent,     \* how often the application has given a region to a buffer and
            \* not got it back from a release
  pc, op, out, in,   \* the call of a thread
  answer,   \* what its last call returned
  returned  \* the memory that a release handed back

entries == <<stored, buffer, refs, owner, depth>>
vars == <<careful, stored, buffer, refs, owner, depth, lent, pc, op, out, in, answer,
          returned>>

Ops == {"write", "copy", "check", "key_check", "release"}
Points == {"idle", "ref_out", "lock_out", "ref_in", "lock_in", "work",
           "drop_in", "drop_out", "remove", "crashed"}

TypeOK ==
  /\ careful \in BOOLEAN
  /\ stored \subseteq Handles
  /\ buffer \in [Handles -> Regions \cup {NULL}]
  /\ refs \in [Handles -> Nat]
  /\ owner \in [Handles -> Threads \cup {NULL}]
  /\ depth \in [Handles -> Nat]
  /\ \A h \in Handles : (owner[h] = NULL) <=> (depth[h] = 0)
  /\ lent \in [Regions -> Nat]
  /\ pc \in [Threads -> Points]
  /\ op \in [Threads -> Ops \cup {NULL}]
  /\ out \in [Threads -> Handles \cup {NULL}]
  /\ in \in [Threads -> Handles \cup {NULL}]
  /\ answer \in [Threads -> {"OK", "ERROR"}]
  /\ returned \in [Threads -> Regions \cup {NULL}]

Init ==
  /\ careful \in BOOLEAN
  /\ stored = {}
  /\ buffer = [h \in Handles |-> NULL]
  /\ refs = [h \in Handles |-> 0]
  /\ owner = [h \in Handles |-> NULL]
  /\ depth = [h \in Handles |-> 0]
  /\ lent = [r \in Regions |-> 0]
  /\ pc = [t \in Threads |-> "idle"]
  /\ op = [t \in Threads |-> NULL]
  /\ out = [t \in Threads |-> NULL]
  /\ in = [t \in Threads |-> NULL]
  /\ answer = [t \in Threads |-> "OK"]
  /\ returned = [t \in Threads |-> NULL]

Goto(t, point) == pc' = [pc EXCEPT ![t] = point]

-----------------------------------------------------------------------------
\* svp_create_buffer returns bool: for memory that memory_is_valid_svp does
\* not accept it returns SA_STATUS_INVALID_PARAMETER, which is true, and
\* leaves the buffer NULL.
CreatedBuffer(r) == IF r \in ValidRegions THEN r ELSE NULL

\* ta_sa_svp_buffer_create: svp_create, object_store_add.  Nothing asks whether
\* the memory is in another buffer.
Create(t, h, r) ==
  /\ pc[t] = "idle"
  /\ h \notin stored
  /\ lent[r] < MaxLent
  /\ stored' = stored \cup {h}
  /\ buffer' = [buffer EXCEPT ![h] = CreatedBuffer(r)]
  /\ lent' = [lent EXCEPT ![r] = @ + 1]
  /\ answer' = [answer EXCEPT ![t] = "OK"]
  /\ UNCHANGED <<refs, owner, depth, pc, op, out, in, returned>>

\* ... when the store is full: the svp_t is freed again.
CreateFails(t) ==
  /\ pc[t] = "idle"
  /\ stored = Handles
  /\ answer' = [answer EXCEPT ![t] = "ERROR"]
  /\ UNCHANGED <<entries, lent, pc, op, out, in, returned>>

-----------------------------------------------------------------------------
\* The calls of other threads on a handle.
UsedByOther(t, h) ==
  \E u \in Threads \ {t} : pc[u] # "idle" /\ h \in {out[u], in[u]}

ReleasedByOther(t, h) ==
  \E u \in Threads \ {t} : pc[u] # "idle" /\ op[u] = "release" /\ out[u] = h

\* An application calls with handles it has.
MayCall(t, o, handles) ==
  /\ pc[t] = "idle"
  /\ handles \subseteq stored
  /\ careful =>
       \A h \in handles :
         IF o = "release" THEN ~UsedByOther(t, h) ELSE ~ReleasedByOther(t, h)

Begin(t, o, h1, h2) ==
  /\ MayCall(t, o, {h1, h2})
  /\ refs[h1] < MaxRefs /\ refs[h2] < MaxRefs
  /\ op' = [op EXCEPT ![t] = o]
  /\ out' = [out EXCEPT ![t] = h1]
  /\ in' = [in EXCEPT ![t] = h2]
  /\ returned' = [returned EXCEPT ![t] = NULL]
  /\ Goto(t, "ref_out")
  /\ UNCHANGED <<entries, lent, answer>>

\* The handlers, up to svp_store_acquire_exclusive.
ta_sa_svp_buffer_write(t, h) == Begin(t, "write", h, h)

ta_sa_svp_buffer_copy(t, h1, h2) ==
  (careful => <<h1, h2>> \in CarefulPairs) /\ Begin(t, "copy", h1, h2)

ta_sa_svp_buffer_check(t, h) == Begin(t, "check", h, h)

ta_sa_svp_key_check(t, h) == Begin(t, "key_check", h, h)

ta_sa_svp_buffer_release(t, h) == Begin(t, "release", h, h)

\* A call refused before it looks at the buffer: its parameters, the rights of
\* the key of a key check, a check that does not come from a TA.
Refused(t) ==
  /\ pc[t] = "idle"
  /\ answer' = [answer EXCEPT ![t] = "ERROR"]
  /\ UNCHANGED <<entries, lent, pc, op, out, in, returned>>

Finish(t) ==
  /\ op' = [op EXCEPT ![t] = NULL]
  /\ out' = [out EXCEPT ![t] = NULL]
  /\ in' = [in EXCEPT ![t] = NULL]
  /\ Goto(t, "idle")

\* svp_store_acquire_exclusive, object_store_acquire: the entry may have been
\* removed since the application called.
RefOut(t) ==
  /\ pc[t] = "ref_out"
  /\ out[t] \in stored
  /\ refs' = [refs EXCEPT ![out[t]] = @ + 1]
  /\ Goto(t, "lock_out")
  /\ UNCHANGED <<stored, buffer, owner, depth, lent, op, out, in, answer,
                 returned>>

RefOutFails(t) ==
  /\ pc[t] = "ref_out"
  /\ out[t] \notin stored
  /\ answer' = [answer EXCEPT ![t] = "ERROR"]
  /\ Finish(t)
  /\ UNCHANGED <<entries, lent, returned>>

\* Mutant: the mutex is taken whoever has it.
Lock_Unchecked(t, h) ==
  /\ owner' = [owner EXCEPT ![h] = t]
  /\ depth' = [depth EXCEPT ![h] = @ + 1]

\* svp_lock of a recursive mutex
Lock(t, h) ==
  /\ owner[h] \in {NULL, t}
  /\ owner' = [owner EXCEPT ![h] = t]
  /\ depth' = [depth EXCEPT ![h] = @ + 1]

LockOut(t) ==
  /\ pc[t] = "lock_out"
  /\ Lock(t, out[t])
  /\ Goto(t, IF op[t] = "copy" THEN "ref_in" ELSE "work")
  /\ UNCHANGED <<stored, buffer, refs, lent, op, out, in, answer, returned>>

\* ta_sa_svp_buffer_copy takes the second buffer with the first one locked.
RefIn(t) ==
  /\ pc[t] = "ref_in"
  /\ in[t] \in stored
  /\ refs' = [refs EXCEPT ![in[t]] = @ + 1]
  /\ Goto(t, "lock_in")
  /\ UNCHANGED <<stored, buffer, owner, depth, lent, op, out, in, answer,
                 returned>>

RefInFails(t) ==
  /\ pc[t] = "ref_in"
  /\ in[t] \notin stored
  /\ answer' = [answer EXCEPT ![t] = "ERROR"]
  /\ Goto(t, "drop_out")
  /\ UNCHANGED <<entries, lent, op, out, in, returned>>

LockIn(t) ==
  /\ pc[t] = "lock_in"
  /\ Lock(t, in[t])
  /\ Goto(t, "work")
  /\ UNCHANGED <<stored, buffer, refs, lent, op, out, in, answer, returned>>

-----------------------------------------------------------------------------
\* The end of the work of a call that is not a release.
Worked(t, ok) ==
  /\ answer' = [answer EXCEPT ![t] = IF ok THEN "OK" ELSE "ERROR"]
  /\ Goto(t, IF op[t] = "copy" THEN "drop_in" ELSE "drop_out")
  /\ UNCHANGED <<entries, lent, op, out, in, returned>>

\* svp_write: there is a buffer, and the ranges are inside it.
svp_write(t, inside) ==
  /\ pc[t] = "work"
  /\ op[t] = "write"
  /\ Worked(t, inside /\ buffer[out[t]] # NULL)

\* svp_copy: the same for both buffers.
svp_copy(t, inside) ==
  /\ pc[t] = "work"
  /\ op[t] = "copy"
  /\ Worked(t, inside /\ buffer[out[t]] # NULL /\ buffer[in[t]] # NULL)

\* convert_buffer finds the memory or not; svp_key_check compares.
svp_key_check(t, equal) ==
  /\ pc[t] = "work"
  /\ op[t] = "key_check"
  /\ Worked(t, equal /\ buffer[out[t]] # NULL)

\* svp_digest: offset and length overflow, or they fit and the digests are
\* equal or not.
svp_digest(t, equal, overflow) ==
  /\ pc[t] = "work"
  /\ op[t] = "check"
  /\ overflow \/ buffer[out[t]] # NULL
  /\ Worked(t, equal /\ ~overflow)

\* It reads svp_buffer->size before svp_validate_buffer looks at the pointer.
DigestCrashes(t) ==
  /\ pc[t] = "work"
  /\ op[t] = "check"
  /\ buffer[out[t]] = NULL
  /\ Goto(t, "crashed")
  /\ UNCHANGED <<entries, lent, op, out, in, answer, returned>>

\* Mutant: svp->buffer is not reset.
ReleaseBuffer_KeepsPointer(t) ==
  /\ pc[t] = "work"
  /\ op[t] = "release"
  /\ buffer[out[t]] # NULL
  /\ returned' = [returned EXCEPT ![t] = buffer[out[t]]]
  /\ lent' = [lent EXCEPT ![buffer[out[t]]] = @ - 1]
  /\ Goto(t, "drop_out")
  /\ UNCHANGED <<entries, op, out, in, answer>>

\* Mutant: the buffer is gone and its memory was not handed back.
ReleaseBuffer_KeepsMemory(t) ==
  /\ pc[t] = "work"
  /\ op[t] = "release"
  /\ buffer[out[t]] # NULL
  /\ buffer' = [buffer EXCEPT ![out[t]] = NULL]
  /\ Goto(t, "drop_out")
  /\ UNCHANGED <<stored, refs, owner, depth, lent, returned, op, out, in, answer>>

\* svp_store_release: svp_release_buffer hands the memory back.
ReleaseBuffer(t) ==
  /\ pc[t] = "work"
  /\ op[t] = "release"
  /\ buffer[out[t]] # NULL
  /\ returned' = [returned EXCEPT ![t] = buffer[out[t]]]
  /\ lent' = [lent EXCEPT ![buffer[out[t]]] = @ - 1]
  /\ buffer' = [buffer EXCEPT ![out[t]] = NULL]
  /\ Goto(t, "drop_out")
  /\ UNCHANGED <<stored, refs, owner, depth, op, out, in, answer>>

\* svp_store_release when svp_release_buffer finds no buffer: it returns the
\* status of the acquire, OK, and keeps the reference and the lock.
ReleaseBufferFails(t) ==
  /\ pc[t] = "work"
  /\ op[t] = "release"
  /\ buffer[out[t]] = NULL
  /\ answer' = [answer EXCEPT ![t] = "OK"]
  /\ Finish(t)
  /\ UNCHANGED <<entries, lent, returned>>

-----------------------------------------------------------------------------
\* svp_store_release_exclusive: svp_unlock, object_store_release.  Between
\* the two a thread has only a count, which none but a removal reads.
Drop(h) ==
  /\ depth' = [depth EXCEPT ![h] = @ - 1]
  /\ owner' = [owner EXCEPT ![h] = IF depth[h] = 1 THEN NULL ELSE @]
  /\ refs' = [refs EXCEPT ![h] = @ - 1]

DropIn(t) ==
  /\ pc[t] = "drop_in"
  /\ Drop(in[t])
  /\ Goto(t, "drop_out")
  /\ UNCHANGED <<stored, buffer, lent, op, out, in, answer, returned>>

\* Mutant: the reference is dropped and the mutex is not.
DropOut_KeepsLock(t) ==
  /\ pc[t] = "drop_out"
  /\ refs' = [refs EXCEPT ![out[t]] = @ - 1]
  /\ IF op[t] = "release"
     THEN Goto(t, "remove") /\ UNCHANGED <<op, out, in>>
     ELSE Finish(t)
  /\ UNCHANGED <<stored, buffer, owner, depth, lent, answer, returned>>

\* Mutant: the mutex is unlocked and the reference is not dropped.
DropOut_KeepsReference(t) ==
  /\ pc[t] = "drop_out"
  /\ depth' = [depth EXCEPT ![out[t]] = @ - 1]
  /\ owner' = [owner EXCEPT ![out[t]] = IF depth[out[t]] = 1 THEN NULL ELSE @]
  /\ IF op[t] = "release"
     THEN Goto(t, "remove") /\ UNCHANGED <<op, out, in>>
     ELSE Finish(t)
  /\ UNCHANGED <<stored, buffer, refs, lent, answer, returned>>

DropOut(t) ==
  /\ pc[t] = "drop_out"
  /\ Drop(out[t])
  /\ IF op[t] = "release"
     THEN Goto(t, "remove") /\ UNCHANGED <<op, out, in>>
     ELSE Finish(t)
  /\ UNCHANGED <<stored, buffer, lent, answer, returned>>

\* object_store_remove, svp_free: it waits while there are references.
Remove(t) ==
  /\ pc[t] = "remove"
  /\ out[t] \in stored
  /\ refs[out[t]] = 0
  /\ stored' = stored \ {out[t]}
  /\ buffer' = [buffer EXCEPT ![out[t]] = NULL]
  /\ answer' = [answer EXCEPT ![t] = "OK"]
  /\ Finish(t)
  /\ UNCHANGED <<refs, owner, depth, lent, returned>>

RemoveFails(t) ==
  /\ pc[t] = "remove"
  /\ out[t] \notin stored
  /\ answer' = [answer EXCEPT ![t] = "ERROR"]
  /\ Finish(t)
  /\ UNCHANGED <<entries, lent, returned>>

-----------------------------------------------------------------------------
\* The steps of a call after it was made.
CallStep(t) ==
  \/ RefOut(t) \/ RefOutFails(t) \/ LockOut(t)
  \/ RefIn(t) \/ RefInFails(t) \/ LockIn(t)
  \/ \E inside \in BOOLEAN : svp_write(t, inside) \/ svp_copy(t, inside)
  \/ \E equal \in BOOLEAN : svp_key_check(t, equal)
  \/ \E equal, overflow \in BOOLEAN : svp_digest(t, equal, overflow)
  \/ DigestCrashes(t)
  \/ ReleaseBuffer(t) \/ ReleaseBufferFails(t)
  \/ DropIn(t) \/ DropOut(t)
  \/ Remove(t) \/ RemoveFails(t)

\* A crash of one thread is a crash of the TA.
Running == \A t \in Threads : pc[t] # "crashed"

Next ==
  /\ Running
  /\ UNCHANGED careful
  /\ \E t \in Threads :
       \/ \E h \in Handles, r \in Regions : Create(t, h, r)
       \/ CreateFails(t)
       \/ \E h1, h2 \in Handles : ta_sa_svp_buffer_copy(t, h1, h2)
       \/ \E h \in Handles :
            \/ ta_sa_svp_buffer_write(t, h)
            \/ ta_sa_svp_buffer_check(t, h)
            \/ ta_sa_svp_key_check(t, h)
            \/ ta_sa_svp_buffer_release(t, h)
       \/ Refused(t)
       \/ CallStep(t)

\* A thread inside a call goes on with it, and a mutex that is free again and
\* again is obtained in the end.
Runs(step) == Running /\ step /\ UNCHANGED careful

Fairness ==
  \A t \in Threads :
    /\ WF_vars(Runs(CallStep(t)))
    /\ SF_vars(Runs(LockOut(t)))
    /\ SF_vars(Runs(LockIn(t)))

Spec == Init /\ [][Next]_vars

FairSpec == Spec /\ Fairness

-----------------------------------------------------------------------------
(***************************************************************************)
(* The inductive invariants of SvpStoreProofs                              *)
(***************************************************************************)
\* A thread has its buffers locked once, and a copy onto itself twice.
HasOut(t) == pc[t] \in {"ref_in", "lock_in", "work", "drop_in", "drop_out"}
HasIn(t) == op[t] = "copy" /\ pc[t] \in {"work", "drop_in"}

Locks(t, h) == (IF HasOut(t) /\ out[t] = h THEN 1 ELSE 0)
               + (IF HasIn(t) /\ in[t] = h THEN 1 ELSE 0)

LocksHeld ==
  \A t \in Threads, h \in Handles :
    Locks(t, h) > 0 => owner[h] = t /\ depth[h] >= Locks(t, h)

\* The threads that have a reference to h and wait for its mutex.
Waiting(h) ==
  {t \in Threads : \/ pc[t] = "lock_out" /\ out[t] = h
                   \/ pc[t] = "lock_in" /\ in[t] = h}

\* Every reference is that of a lock or of a thread that waits for one, the
\* references and locks that a failed release leaves behind included.
RefsCounted == \A h \in Handles : refs[h] = depth[h] + Cardinality(Waiting(h))

ReferredIsStored == \A h \in Handles : refs[h] > 0 => h \in stored

ControlOK ==
  \A t \in Threads :
    /\ pc[t] # "idle" => op[t] \in Ops /\ out[t] \in Handles /\ in[t] \in Handles
    /\ pc[t] # "idle" /\ op[t] # "copy" => in[t] = out[t]
    /\ pc[t] \in {"ref_in", "lock_in", "drop_in"} => op[t] = "copy"
    /\ pc[t] = "remove" => op[t] = "release"

\* A locked buffer is in the store with a reference on it, so it is not freed
\* under the thread that has it locked.
LockedIsStored ==
  \A h \in Handles : owner[h] # NULL => h \in stored /\ refs[h] > 0

\* The buffers through which a region is reached.
Reaching(r) == {h \in Handles : buffer[h] = r}

\* Memory that was handed back as often as it was given is reached by svp_write
\* and svp_copy through no buffer.  (An application may give a region to two
\* buffers, and get it back from one while the other still reaches it.)
NoWriteAfterReturn == \A r \in Regions : Cardinality(Reaching(r)) <= lent[r]

\* Memory is in one buffer at a time, so that what a release hands back is
\* reached no more. Neither svp_create_buffer nor svp_store_create looks whether
\* it is in another one.
MemoryInOneBuffer == \A r \in Regions : Cardinality(Reaching(r)) <= 1

IInv ==
  /\ TypeOK /\ ControlOK /\ LocksHeld /\ RefsCounted /\ ReferredIsStored
  /\ NoWriteAfterReturn

\* Two threads do not work on the same buffer at the same time.
ExclusiveWork ==
  \A t, u \in Threads :
    pc[t] = "work" /\ pc[u] = "work" /\ t # u =>
      {out[t], in[t]} \cap {out[u], in[u]} = {}

\* What a careful application has given and not got back is in the buffers of
\* stored handles, as often as it was given: no sequence of creations and
\* releases loses memory.
MemoryKept ==
  careful => \A r \in Regions : lent[r] <= Cardinality(Reaching(r) \cap stored)

\* What MemoryKept needs: the handles that a careful application uses stay
\* stored, those that it releases are in no other use, and their memory has
\* been handed back when they are removed.
InUseIsStored ==
  \A t \in Threads : pc[t] # "idle" => {out[t], in[t]} \subseteq stored

ReleasedApart ==
  \A t, u \in Threads :
    pc[t] # "idle" /\ op[t] = "release" /\ pc[u] # "idle" /\ t # u
      => out[t] \notin {out[u], in[u]}

RemovedIsEmpty ==
  \A t \in Threads :
    op[t] = "release" /\ pc[t] \in {"drop_out", "remove"} => buffer[out[t]] = NULL

KeptInv == MemoryKept /\ (careful => InUseIsStored /\ ReleasedApart /\ RemovedIsEmpty)

\* Every call of a careful application returns: no deadlock among buffers, no
\* lost wakeup, no removal that waits for a reference nobody will drop.
CallsReturn == \A t \in Threads : (careful /\ pc[t] # "idle") ~> (pc[t] = "idle")

\* Every copy returns, whatever the order of its buffers: "thread-safe"
\* (README.md).
CopiesReturn ==
  \A t \in Threads : (op[t] = "copy") ~> (op[t] # "copy" \/ ~Running)

\* "The SVP memory region and its length are returned to the caller"
\* (sa_svp.h): a release that answers OK has handed the memory back.
OkReleaseReturnsMemory ==
  [][ \A t \in Threads :
        op[t] = "release" /\ op'[t] = NULL /\ answer'[t] = "OK"
          => returned'[t] # NULL ]_vars

\* "SA_STATUS_INVALID_SVP_BUFFER - SVP buffer is not fully contained withing
\* SVP memory region" (sa_svp.h): a handle that was created has its memory
\* until it is released.
StoredHasMemory ==
  \A h \in stored :
    buffer[h] # NULL \/ \E t \in Threads : op[t] = "release" /\ out[t] = h
=============================================================================
