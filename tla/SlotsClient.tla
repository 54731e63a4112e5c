---------------------------- MODULE SlotsClient ----------------------------
(***************************************************************************)
(* The slot allocator under arbitrary sequences of calls by its one client *)
(* (the object store, under its mutex).  granted is the client's view: the *)
(* slots it was given and has not returned.                                *)
(***************************************************************************)
EXTENDS Slots

VARIABLES bitfield, granted

vars == <<bitfield, granted>>

TypeOK ==
  /\ bitfield \in Bitfields
  /\ granted \subseteq SlotIds

Init ==
  /\ bitfield = slots_init
  /\ granted = {}

Allocate ==
  LET r == slots_allocate(bitfield) IN
  /\ r.slot # SLOT_INVALID
  /\ bitfield' = r.bitfield
  /\ granted' = granted \cup {r.slot}

AllocateFails ==
  LET r == slots_allocate(bitfield) IN
  /\ r.slot = SLOT_INVALID
  /\ bitfield' = r.bitfield
  /\ UNCHANGED granted

\* A free of any slot number: allocated, not allocated, or out of range.
Free(slot) ==
  /\ bitfield' = slots_free(bitfield, slot)
  /\ granted' = granted \ {slot}

Next ==
  \/ Allocate
  \/ AllocateFails
  \/ \E slot \in SlotIds \cup {SLOT_INVALID, SlotCount} : Free(slot)

Spec == Init /\ [][Next]_vars

-----------------------------------------------------------------------------
\* The bits set are those of the slots the client has: slots_allocate, which
\* counts bits from the right, and slots_free, which counts them from the
\* left (BLOCK_BITMASK), mean the same bit by a slot number.
BitsAreGrants == Allocated(bitfield) = granted

\* slots_allocate gives out a slot that nobody has, whatever was freed in
\* between and in whatever order, and gives up only when every slot of every
\* block is in use.
GrantIsFresh ==
  LET slot == slots_allocate(bitfield).slot
  IN IF granted = SlotIds
     THEN slot = SLOT_INVALID
     ELSE slot \in SlotIds \ granted
=============================================================================
