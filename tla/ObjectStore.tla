---------------------------- MODULE ObjectStore ----------------------------
(***************************************************************************)
(* The object store of the trusted application, taimpl/src/internal/       *)
(* object_store.c, on which the client, key, cipher, MAC and SVP stores    *)
(* are built.  Threads add, acquire, release and remove objects while one  *)
(* more thread may shut the store down.                                    *)
(*                                                                         *)
(* A critical section of the store's mutex is one atomic action; a call    *)
(* that takes the mutex several times is several actions, and other        *)
(* threads run in between.  A loop that sleeps and tries again is an       *)
(* action that is disabled until the try succeeds.  mtx_lock and the       *)
(* allocations of object_store_init are taken to succeed.                  *)
(*                                                                         *)
(* Objects are addresses: once freed, one may be allocated again.          *)
(***************************************************************************)
EXTENDS Slots

CONSTANTS
  Threads,   \* threads that run TA handlers
  Uuids,     \* UUIDs of calling applications
  Objects,   \* addresses an object of the store may have
  NULL

ASSUME ThreadsAssumption == IsFiniteSet(Threads)
\* What a thread keeps of an acquired object, and the arguments of a removal.
References == [slot : SlotIds, object : Objects, uuid : Uuids]
Calls == [slot : SlotIds, uuid : Uuids]

ASSUME NullAssumption ==
  /\ NULL \notin Objects
  /\ NULL \notin Uuids
  /\ NULL \notin References
  /\ NULL \notin Calls

VARIABLES
  bitfield,          \* slots->bitfield
  objects,           \* the table of store_object_t
  is_shutting_down,
  release_count,
  heap,              \* whether the memory of an object is live or free
  held,              \* the reference a thread has acquired and must release
  pc,                \* where a thread is in object_store_remove
  call,              \* the arguments of that call
  victim,            \* object_to_free of that call
  status,            \* what the last call of a thread returned
  shutdown,          \* where object_store_shutdown is
  shutdown_slot,     \* its loop variable i
  shutdown_victim    \* object_to_free of its call of store_remove

table == <<bitfield, objects, is_shutting_down, release_count>>
threads == <<held, pc, call, victim, status>>
exit == <<shutdown, shutdown_slot, shutdown_victim>>
vars == <<bitfield, objects, is_shutting_down, release_count, heap,
          held, pc, call, victim, status,
          shutdown, shutdown_slot, shutdown_victim>>

store_object_t ==
  [object : Objects \cup {NULL},
   reference_count : Nat,
   owner_uuid : Uuids \cup {NULL}]

Statuses ==
  {"OK", "INVALID_PARAMETER", "OPERATION_NOT_ALLOWED", "INTERNAL_ERROR",
   "NO_AVAILABLE_RESOURCE_SLOT"}

\* Slot numbers a caller may pass: a handle comes from outside and may be out
\* of range.
CallerSlots == SlotIds \cup {SlotCount}

TypeOK ==
  /\ bitfield \in Bitfields
  /\ objects \in [SlotIds -> store_object_t]
  /\ is_shutting_down \in BOOLEAN
  /\ release_count \in Nat
  /\ heap \in [Objects -> {"free", "live"}]
  /\ held \in [Threads -> References \cup {NULL}]
  /\ pc \in [Threads -> {"idle", "scan", "uncount", "free", "wild"}]
  /\ call \in [Threads -> Calls \cup {NULL}]
  /\ victim \in [Threads -> Objects \cup {NULL}]
  /\ status \in [Threads -> Statuses]
  /\ shutdown \in {"none", "wait", "scan", "free", "done"}
  /\ shutdown_slot \in 0 .. SlotCount
  /\ shutdown_victim \in Objects \cup {NULL}

-----------------------------------------------------------------------------
\* object_store_init
EmptyEntry == [object |-> NULL, reference_count |-> 0, owner_uuid |-> NULL]

Init ==
  /\ bitfield = slots_init
  /\ objects = [s \in SlotIds |-> EmptyEntry]
  /\ is_shutting_down = FALSE
  /\ release_count = 0
  /\ heap = [o \in Objects |-> "free"]
  /\ held = [t \in Threads |-> NULL]
  /\ pc = [t \in Threads |-> "idle"]
  /\ call = [t \in Threads |-> NULL]
  /\ victim = [t \in Threads |-> NULL]
  /\ status = [t \in Threads |-> "OK"]
  /\ shutdown = "none"
  /\ shutdown_slot = 0
  /\ shutdown_victim = NULL

\* A thread between two calls.  Callers do not call a store that has been
\* freed: this is an obligation of the module that owns the store.
MayCall(t) == pc[t] = "idle" /\ shutdown # "done"

Return(t, s) == status' = [status EXCEPT ![t] = s]

\* Mutant: the UUID is not compared.
OwnedBy_Anyone(s, u) == TRUE

\* memory_memcmp_constant of the owner and the caller
OwnedBy(s, u) == objects[s].owner_uuid = u

\* Mutant: the reference count is not looked at.
Removable_InUse(s) == objects[s].object # NULL

\* store_remove deletes an entry with no references.
Removable(s) == objects[s].object # NULL /\ objects[s].reference_count = 0

\* Mutants: the slot is not given back; the entry keeps its pointer.
TakeObject_KeepsSlot(s) ==
  /\ objects' = [objects EXCEPT ![s].object = NULL]
  /\ UNCHANGED bitfield
TakeObject_KeepsPointer(s) ==
  /\ bitfield' = slots_free(bitfield, s)
  /\ UNCHANGED objects

\* What store_remove does to the table when it takes the object out.
TakeObject(s) ==
  /\ objects' = [objects EXCEPT ![s].object = NULL]
  /\ bitfield' = slots_free(bitfield, s)

-----------------------------------------------------------------------------
\* object_store_add of an object that the caller has just allocated; when the
\* add fails the caller frees it again.
AddFails(t, o) ==
  /\ MayCall(t)
  /\ heap[o] = "free"
  /\ \/ is_shutting_down /\ Return(t, "INTERNAL_ERROR")
     \/ /\ ~is_shutting_down
        /\ slots_allocate(bitfield).slot = SLOT_INVALID
        /\ Return(t, "NO_AVAILABLE_RESOURCE_SLOT")
  /\ UNCHANGED <<table, heap, held, pc, call, victim, exit>>

\* Mutant: the add does not look at is_shutting_down.
Add_DuringShutdown(t, o, u) ==
  LET r == slots_allocate(bitfield) IN
  /\ MayCall(t)
  /\ heap[o] = "free"
  /\ r.slot # SLOT_INVALID
  /\ bitfield' = r.bitfield
  /\ objects' = [objects EXCEPT ![r.slot] =
                   [object |-> o,
                    reference_count |-> objects[r.slot].reference_count,
                    owner_uuid |-> u]]
  /\ heap' = [heap EXCEPT ![o] = "live"]
  /\ Return(t, "OK")
  /\ UNCHANGED <<is_shutting_down, release_count, held, pc, call, victim, exit>>

\* The reference count of the entry is not reset.
Add(t, o, u) ==
  LET r == slots_allocate(bitfield) IN
  /\ MayCall(t)
  /\ heap[o] = "free"
  /\ ~is_shutting_down
  /\ r.slot # SLOT_INVALID
  /\ bitfield' = r.bitfield
  /\ objects' = [objects EXCEPT ![r.slot] =
                   [object |-> o,
                    reference_count |-> objects[r.slot].reference_count,
                    owner_uuid |-> u]]
  /\ heap' = [heap EXCEPT ![o] = "live"]
  /\ Return(t, "OK")
  /\ UNCHANGED <<is_shutting_down, release_count, held, pc, call, victim, exit>>

-----------------------------------------------------------------------------
\* Mutant: the acquire does not look at is_shutting_down.
AcquireStatus_DuringShutdown(s, u) ==
  CASE s \notin SlotIds -> "INVALID_PARAMETER"
    [] s \in SlotIds /\ objects[s].object = NULL -> "INVALID_PARAMETER"
    [] s \in SlotIds /\ objects[s].object # NULL /\ ~OwnedBy(s, u) ->
         "OPERATION_NOT_ALLOWED"
    [] OTHER -> "OK"

\* What object_store_acquire answers.
AcquireStatus(s, u) ==
  CASE s \notin SlotIds -> "INVALID_PARAMETER"
    [] s \in SlotIds /\ is_shutting_down -> "INTERNAL_ERROR"
    [] s \in SlotIds /\ ~is_shutting_down /\ objects[s].object = NULL ->
         "INVALID_PARAMETER"
    [] s \in SlotIds /\ ~is_shutting_down /\ objects[s].object # NULL
         /\ ~OwnedBy(s, u) -> "OPERATION_NOT_ALLOWED"
    [] OTHER -> "OK"

AcquireFails(t, s, u) ==
  /\ MayCall(t)
  /\ AcquireStatus(s, u) # "OK"
  /\ Return(t, AcquireStatus(s, u))
  /\ UNCHANGED <<table, heap, held, pc, call, victim, exit>>

\* A thread that needs references to two objects is two members of Threads.
Acquire(t, s, u) ==
  /\ MayCall(t)
  /\ held[t] = NULL
  /\ AcquireStatus(s, u) = "OK"
  /\ objects' = [objects EXCEPT ![s].reference_count = @ + 1]
  /\ held' = [held EXCEPT ![t] =
                [slot |-> s, object |-> objects[s].object, uuid |-> u]]
  /\ Return(t, "OK")
  /\ UNCHANGED <<bitfield, is_shutting_down, release_count, heap, pc, call,
                 victim, exit>>

-----------------------------------------------------------------------------
\* What object_store_release answers for a reference.
ReleaseStatus(ref) ==
  CASE ~OwnedBy(ref.slot, ref.uuid) -> "OPERATION_NOT_ALLOWED"
    [] OwnedBy(ref.slot, ref.uuid)
         /\ \/ objects[ref.slot].object # ref.object
            \/ objects[ref.slot].reference_count = 0 -> "INTERNAL_ERROR"
    [] OTHER -> "OK"

\* object_store_release.  The caller drops its pointer whatever the answer.
Release(t) ==
  /\ pc[t] = "idle"
  /\ held[t] # NULL
  /\ IF ReleaseStatus(held[t]) = "OK"
     THEN objects' = [objects EXCEPT ![held[t].slot].reference_count = @ - 1]
     ELSE UNCHANGED objects
  /\ held' = [held EXCEPT ![t] = NULL]
  /\ Return(t, ReleaseStatus(held[t]))
  /\ UNCHANGED <<bitfield, is_shutting_down, release_count, heap, pc, call,
                 victim, exit>>

-----------------------------------------------------------------------------
\* object_store_remove up to increment_release_count: a slot out of range is
\* an error, and a call during shutdown is ignored and answered OK.
RemoveRefused(t, s) ==
  /\ MayCall(t)
  /\ \/ s \notin SlotIds /\ Return(t, "INVALID_PARAMETER")
     \/ s \in SlotIds /\ is_shutting_down /\ Return(t, "OK")
  /\ UNCHANGED <<table, heap, held, pc, call, victim, exit>>

\* No handler removes from a store in which it holds a reference.
RemoveBegin(t, s, u) ==
  /\ MayCall(t)
  /\ held[t] = NULL
  /\ s \in SlotIds
  /\ ~is_shutting_down
  /\ release_count' = release_count + 1
  /\ pc' = [pc EXCEPT ![t] = "scan"]
  /\ call' = [call EXCEPT ![t] = [slot |-> s, uuid |-> u]]
  /\ UNCHANGED <<bitfield, objects, is_shutting_down, heap, held, victim,
                 status, exit>>

\* An iteration of the loop of store_remove that finds nothing to remove.
RemoveScanFails(t) ==
  LET s == call[t].slot IN
  /\ pc[t] = "scan"
  /\ \/ objects[s].object = NULL /\ Return(t, "INVALID_PARAMETER")
     \/ /\ objects[s].object # NULL
        /\ ~OwnedBy(s, call[t].uuid)
        /\ Return(t, "OPERATION_NOT_ALLOWED")
  /\ pc' = [pc EXCEPT ![t] = "uncount"]
  /\ UNCHANGED <<table, heap, held, call, victim, exit>>

\* An iteration that finds the reference count at 0.  While it is not, the
\* loop sleeps and reads the entry again.
RemoveScan(t) ==
  LET s == call[t].slot IN
  /\ pc[t] = "scan"
  /\ OwnedBy(s, call[t].uuid)
  /\ Removable(s)
  /\ TakeObject(s)
  /\ victim' = [victim EXCEPT ![t] = objects[s].object]
  /\ pc' = [pc EXCEPT ![t] = "uncount"]
  /\ Return(t, "OK")
  /\ UNCHANGED <<is_shutting_down, release_count, heap, held, call, exit>>

\* decrement_release_count
RemoveUncount(t) ==
  /\ pc[t] = "uncount"
  /\ release_count' = release_count - 1
  /\ pc' = [pc EXCEPT ![t] = IF victim[t] = NULL THEN "idle" ELSE "free"]
  /\ call' = [call EXCEPT ![t] = NULL]
  /\ UNCHANGED <<bitfield, objects, is_shutting_down, heap, held, victim,
                 status, exit>>

\* store->object_free(object_to_free)
RemoveFree(t) ==
  /\ pc[t] = "free"
  /\ heap' = [heap EXCEPT ![victim[t]] = "free"]
  /\ victim' = [victim EXCEPT ![t] = NULL]
  /\ pc' = [pc EXCEPT ![t] = "idle"]
  /\ UNCHANGED <<table, held, call, status, exit>>

\* The function pointer is read from a store that shutdown has freed
\* meanwhile: either the memory still holds it (RemoveFree), or the call goes
\* astray.
RemoveFreeWild(t) ==
  /\ pc[t] = "free"
  /\ shutdown = "done"
  /\ pc' = [pc EXCEPT ![t] = "wild"]
  /\ UNCHANGED <<table, heap, held, call, victim, status, exit>>

-----------------------------------------------------------------------------
\* object_store_shutdown: the flag.
ShutdownBegin ==
  /\ shutdown = "none"
  /\ is_shutting_down' = TRUE
  /\ shutdown' = "wait"
  /\ UNCHANGED <<bitfield, objects, release_count, heap, threads,
                 shutdown_slot, shutdown_victim>>

\* The wait for the release calls that are still processing.
ShutdownWait ==
  /\ shutdown = "wait"
  /\ release_count = 0
  /\ shutdown' = "scan"
  /\ UNCHANGED <<table, heap, threads, shutdown_slot, shutdown_victim>>

\* store_remove(store, i, NULL) of an empty entry
ShutdownSkip ==
  /\ shutdown = "scan"
  /\ shutdown_slot < SlotCount
  /\ objects[shutdown_slot].object = NULL
  /\ shutdown_slot' = shutdown_slot + 1
  /\ UNCHANGED <<table, heap, threads, shutdown, shutdown_victim>>

\* ... of an entry that is not empty, once its reference count is 0
ShutdownScan ==
  /\ shutdown = "scan"
  /\ shutdown_slot < SlotCount
  /\ Removable(shutdown_slot)
  /\ TakeObject(shutdown_slot)
  /\ shutdown_victim' = objects[shutdown_slot].object
  /\ shutdown' = "free"
  /\ UNCHANGED <<is_shutting_down, release_count, heap, threads, shutdown_slot>>

ShutdownFree ==
  /\ shutdown = "free"
  /\ heap' = [heap EXCEPT ![shutdown_victim] = "free"]
  /\ shutdown_victim' = NULL
  /\ shutdown_slot' = shutdown_slot + 1
  /\ shutdown' = "scan"
  /\ UNCHANGED <<table, threads>>

\* The slots, the table, the mutex and the store itself are freed.
ShutdownDestroy ==
  /\ shutdown = "scan"
  /\ shutdown_slot = SlotCount
  /\ shutdown' = "done"
  /\ UNCHANGED <<table, heap, threads, shutdown_slot, shutdown_victim>>

\* The store is gone and no call is under way.
Terminated ==
  /\ shutdown = "done"
  /\ \A t \in Threads : pc[t] \in {"idle", "wild"}
  /\ UNCHANGED vars

-----------------------------------------------------------------------------
RemoveStep(t) ==
  \/ RemoveScanFails(t)
  \/ RemoveScan(t)
  \/ RemoveUncount(t)
  \/ RemoveFree(t)
  \/ RemoveFreeWild(t)

ShutdownStep ==
  \/ ShutdownWait
  \/ ShutdownSkip
  \/ ShutdownScan
  \/ ShutdownFree
  \/ ShutdownDestroy

ThreadStep(t) ==
  \/ \E o \in Objects : AddFails(t, o)
  \/ \E o \in Objects, u \in Uuids : Add(t, o, u)
  \/ \E s \in CallerSlots, u \in Uuids : AcquireFails(t, s, u)
  \/ \E s \in CallerSlots, u \in Uuids : Acquire(t, s, u)
  \/ Release(t)
  \/ \E s \in CallerSlots : RemoveRefused(t, s)
  \/ \E s \in SlotIds, u \in Uuids : RemoveBegin(t, s, u)
  \/ RemoveStep(t)

Next ==
  \/ \E t \in Threads : ThreadStep(t)
  \/ ShutdownBegin
  \/ ShutdownStep
  \/ Terminated

\* A handler that holds a reference runs on to its release, and a call that
\* was begun runs on; nothing makes a caller begin one.
Fairness ==
  /\ \A t \in Threads : WF_vars(Release(t)) /\ WF_vars(RemoveStep(t))
  /\ WF_vars(ShutdownStep)

Spec == Init /\ [][Next]_vars

FairSpec == Spec /\ Fairness

-----------------------------------------------------------------------------
Holders(s) == {t \in Threads : held[t] # NULL /\ held[t].slot = s}

\* An object that a handler holds a reference to has not been freed, whatever
\* removals and shutdown run beside it: the promise of object_store.h that
\* "the contained objects are not deleted while in use".
NoUseAfterFree ==
  \A t \in Threads : held[t] # NULL => heap[held[t].object] = "live"

\* The reference count of an entry, which Add does not reset when a slot is
\* used again, is the number of threads that hold a reference to it.
RefCountExact ==
  \A s \in SlotIds : objects[s].reference_count = Cardinality(Holders(s))

\* The entry a reference was taken from still holds that object, under the
\* UUID it was acquired with: object_store_release finds it and succeeds.
HeldEntryStays ==
  \A t \in Threads : held[t] # NULL =>
    /\ objects[held[t].slot].object = held[t].object
    /\ objects[held[t].slot].owner_uuid = held[t].uuid

\* The bit field and the table agree, and an object is stored once.
TableConsistent ==
  /\ Allocated(bitfield) = {s \in SlotIds : objects[s].object # NULL}
  /\ \A s1, s2 \in SlotIds :
       objects[s1].object # NULL /\ objects[s1].object = objects[s2].object
         => s1 = s2

\* An object about to be freed is live, is in no slot, and is about to be
\* freed by one thread only: whichever removals race for it, object_free is
\* called once.
FreedOnce ==
  /\ \A s \in SlotIds :
       objects[s].object # NULL => heap[objects[s].object] = "live"
  /\ \A t \in Threads : victim[t] # NULL =>
       /\ heap[victim[t]] = "live"
       /\ \A s \in SlotIds : objects[s].object # victim[t]
       /\ \A t2 \in Threads \ {t} : victim[t2] # victim[t]
       /\ shutdown_victim # victim[t]
  /\ shutdown_victim # NULL =>
       /\ heap[shutdown_victim] = "live"
       /\ \A s \in SlotIds : objects[s].object # shutdown_victim

Stored(o) == \E s \in SlotIds : objects[s].object = o

\* No object is lost: a live one is in a slot or is about to be freed.
NothingLeaks ==
  \A o \in Objects : heap[o] = "live" =>
    Stored(o) \/ (\E t \in Threads : victim[t] = o) \/ shutdown_victim = o

\* release_count is the number of calls inside store_remove, so shutdown goes
\* past its wait only when no such call can take an object any more.
ReleaseCountExact ==
  /\ release_count = Cardinality({t \in Threads : pc[t] \in {"scan", "uncount"}})
  /\ shutdown \in {"scan", "free", "done"} => release_count = 0

\* The store is freed only when it is empty, so that nobody holds a reference
\* into it: no object slips into a slot that shutdown has gone past.
DestroyedEmpty ==
  shutdown = "done" =>
    /\ \A t \in Threads : held[t] = NULL
    /\ \A s \in SlotIds : objects[s].object = NULL

\* How the control state of the calls hangs together: what a thread inside
\* store_remove has at each point, and that the exiting thread is past the
\* flag exactly when the flag is set.
ControlOK ==
  /\ \A t \in Threads :
       /\ pc[t] = "scan" => call[t] # NULL /\ victim[t] = NULL
       /\ pc[t] = "idle" => victim[t] = NULL
       /\ pc[t] = "free" => victim[t] # NULL
       /\ pc[t] # "idle" => held[t] = NULL
  /\ (shutdown = "none") = ~is_shutting_down
  /\ (shutdown = "free") = (shutdown_victim # NULL)
  /\ shutdown = "free" => shutdown_slot < SlotCount

\* Shutdown leaves empty slots behind.
ScannedEmpty ==
  /\ shutdown \in {"none", "wait"} => shutdown_slot = 0
  /\ \A s \in SlotIds : s < shutdown_slot => objects[s].object = NULL
  /\ shutdown = "free" => objects[shutdown_slot].object = NULL
  /\ shutdown = "done" => shutdown_slot = SlotCount

\* The inductive invariant.
IInv ==
  /\ TypeOK
  /\ ControlOK
  /\ HeldEntryStays
  /\ RefCountExact
  /\ TableConsistent
  /\ FreedOnce
  /\ NothingLeaks
  /\ ReleaseCountExact
  /\ ScannedEmpty

\* An object leaves its slot only by shutdown or by a removal whose caller is
\* the owner of that very object, also when the slot was emptied and filled
\* again while the removal waited.
RemovedByOwner ==
  [][ \A s \in SlotIds :
        objects[s].object # NULL /\ objects'[s].object # objects[s].object =>
          \/ shutdown = "scan" /\ shutdown_slot = s
          \/ \E t \in Threads :
               /\ pc[t] = "scan"
               /\ call[t].slot = s
               /\ call[t].uuid = objects[s].owner_uuid
               /\ victim'[t] = objects[s].object ]_vars

\* Shutdown comes to its end: the calls of store_remove it waits for end, and
\* the references it waits for are released and no new ones are given out.
ShutdownCompletes == (shutdown = "wait") ~> (shutdown = "done")

\* "release count is the number of non-shutdown release calls that are still
\* processing" (object_store.c:270): no such call is under way on a store
\* that has been freed.
StoreOutlivesReleases ==
  shutdown = "done" => \A t \in Threads : pc[t] = "idle"

-----------------------------------------------------------------------------
\* The store implements ObjectLifecycle.
lifeBar ==
  [o \in Objects |->
     IF Stored(o) THEN "stored"
     ELSE IF heap[o] = "live" THEN "withdrawn" ELSE "absent"]

ownerBar ==
  [o \in Objects |->
     IF Stored(o)
     THEN objects[CHOOSE s \in SlotIds : objects[s].object = o].owner_uuid
     ELSE NULL]

usersBar ==
  [o \in Objects |-> {t \in Threads : held[t] # NULL /\ held[t].object = o}]

Lifecycle ==
  INSTANCE ObjectLifecycle
    WITH life <- lifeBar, owner <- ownerBar, users <- usersBar,
         closed <- is_shutting_down

\* The store is an ObjectLifecycle: an object is usable only by its owner and
\* only while stored, and is withdrawn only when it has no user.
LifecycleSpec == Lifecycle!Spec

-----------------------------------------------------------------------------
SlotTable ==
  INSTANCE SlotsClient WITH granted <- {s \in SlotIds : objects[s].object # NULL}

\* The store is a client of the slot allocator as SlotsClient has it: it takes
\* a slot with every object that it stores and gives that slot back, once, with
\* the object, so that what ObjectStoreProofs shows of the bit field holds.
SlotsUsed == SlotTable!Spec
=============================================================================
