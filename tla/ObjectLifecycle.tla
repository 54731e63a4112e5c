-------------------------- MODULE ObjectLifecycle --------------------------
(***************************************************************************)
(* What an object store promises, without slots, counters or locks:        *)
(* object_store.h, "Object store ensures that only the owner of a specific *)
(* object can access it.  Additionally, it provides a mechanism for        *)
(* ensuring that the contained objects are not deleted while in use."      *)
(*                                                                         *)
(* An object is absent, stored, or withdrawn (out of the store and about   *)
(* to be freed).  It has one owner while stored, and a set of users.       *)
(***************************************************************************)
CONSTANTS Threads, Uuids, Objects, NULL

VARIABLES life, owner, users, closed

vars == <<life, owner, users, closed>>

Init ==
  /\ life = [o \in Objects |-> "absent"]
  /\ owner = [o \in Objects |-> NULL]
  /\ users = [o \in Objects |-> {}]
  /\ closed = FALSE

Store(o, u) ==
  /\ ~closed
  /\ life[o] = "absent"
  /\ life' = [life EXCEPT ![o] = "stored"]
  /\ owner' = [owner EXCEPT ![o] = u]
  /\ UNCHANGED <<users, closed>>

Use(t, o, u) ==
  /\ ~closed
  /\ life[o] = "stored"
  /\ owner[o] = u
  /\ users' = [users EXCEPT ![o] = @ \cup {t}]
  /\ UNCHANGED <<life, owner, closed>>

EndUse(t, o) ==
  /\ t \in users[o]
  /\ users' = [users EXCEPT ![o] = @ \ {t}]
  /\ UNCHANGED <<life, owner, closed>>

Withdraw(o) ==
  /\ life[o] = "stored"
  /\ users[o] = {}
  /\ life' = [life EXCEPT ![o] = "withdrawn"]
  /\ owner' = [owner EXCEPT ![o] = NULL]
  /\ UNCHANGED <<users, closed>>

Delete(o) ==
  /\ life[o] = "withdrawn"
  /\ life' = [life EXCEPT ![o] = "absent"]
  /\ UNCHANGED <<owner, users, closed>>

Close ==
  /\ ~closed
  /\ closed' = TRUE
  /\ UNCHANGED <<life, owner, users>>

Next ==
  \/ \E o \in Objects, u \in Uuids : Store(o, u)
  \/ \E t \in Threads, o \in Objects, u \in Uuids : Use(t, o, u)
  \/ \E t \in Threads, o \in Objects : EndUse(t, o)
  \/ \E o \in Objects : Withdraw(o) \/ Delete(o)
  \/ Close

Spec == Init /\ [][Next]_vars
=============================================================================
