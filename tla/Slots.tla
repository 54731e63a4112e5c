------------------------------- MODULE Slots -------------------------------
(***************************************************************************)
(* The slot allocator of the trusted application, taimpl/src/internal/     *)
(* slots.c: a bit field of BlockCount int blocks, BlockBits bits each, in  *)
(* which a set bit is an allocated slot.  A block is the set of its bit    *)
(* positions that are 1, position 0 being the least significant bit.       *)
(*                                                                         *)
(* slots_allocate counts bits from the least significant one (ffs) and     *)
(* slots_free from the most significant one (BLOCK_BITMASK): the two must  *)
(* agree on the bit a slot number stands for.                              *)
(*                                                                         *)
(* The module holds operators only; the code has no lock of its own here,  *)
(* its callers call it under the mutex of the object store.                *)
(***************************************************************************)
EXTENDS Integers, FiniteSets

CONSTANTS
  BlockBits,      \* sizeof(int) * 8
  BlockCount,     \* count / BlockBits
  SLOT_INVALID    \* ULONG_MAX

ASSUME BlockBitsAssumption == BlockBits \in Nat \ {0}
ASSUME BlockCountAssumption == BlockCount \in Nat \ {0}

Bits == 0 .. (BlockBits - 1)
Blocks == 0 .. (BlockCount - 1)

\* slot_count, a multiple of BlockBits: slots_init refuses any other number.
SlotCount == BlockCount * BlockBits
SlotIds == 0 .. (SlotCount - 1)

ASSUME SlotInvalidAssumption == SLOT_INVALID \notin SlotIds

Bitfields == [Blocks -> SUBSET Bits]

-----------------------------------------------------------------------------
BLOCK_IDX(slot) == slot \div BlockBits
BLOCK_BIT(slot) == slot % BlockBits

\* Mutant: the mask built without the subtraction from sizeof(int) * 8.
BLOCK_BITMASK_FromRight(slot) == BLOCK_BIT(slot)

\* The bit position that BLOCK_BITMASK(slot) sets.
BLOCK_BITMASK(slot) == BlockBits - BLOCK_BIT(slot) - 1

\* ffs: one more than the position of the least significant 1, 0 if there is
\* none.
ffs(bits) ==
  IF bits = {} THEN 0 ELSE 1 + (CHOOSE p \in bits : \A q \in bits : p <= q)

\* The zeroed bit field of slots_init.
slots_init == [i \in Blocks |-> {}]

\* Mutant: the slot number computed as if ffs counted from 0.
slots_allocate_OffByOne(bf) ==
  LET available == {i \in Blocks : ffs(Bits \ bf[i]) # 0}
      block == CHOOSE i \in available : \A j \in available : i <= j
      lsa == ffs(Bits \ bf[block])
  IN IF available = {}
     THEN [slot |-> SLOT_INVALID, bitfield |-> bf]
     ELSE [slot |-> (block + 1) * BlockBits - lsa + 1,
           bitfield |-> [bf EXCEPT ![block] = @ \cup {lsa - 1}]]

\* Mutant: block is not compared with block_count when all slots are taken.
slots_allocate_WhenFull(bf) ==
  LET available == {i \in Blocks : ffs(Bits \ bf[i]) # 0}
      block == CHOOSE i \in available : \A j \in available : i <= j
      lsa == ffs(Bits \ bf[block])
  IN IF available = {}
     THEN [slot |-> BlockCount * BlockBits - 1, bitfield |-> bf]
     ELSE [slot |-> (block + 1) * BlockBits - lsa,
           bitfield |-> [bf EXCEPT ![block] = @ \cup {lsa - 1}]]

\* slots_allocate returns the slot and leaves the bit field.  The loop stops
\* at the first block that has a 0 bit.
slots_allocate(bf) ==
  LET available == {i \in Blocks : ffs(Bits \ bf[i]) # 0}
      block == CHOOSE i \in available : \A j \in available : i <= j
      lsa == ffs(Bits \ bf[block])
  IN IF available = {}
     THEN [slot |-> SLOT_INVALID, bitfield |-> bf]
     ELSE [slot |-> (block + 1) * BlockBits - lsa,
           bitfield |-> [bf EXCEPT ![block] = @ \cup {lsa - 1}]]

\* slots_free: no effect for SLOT_INVALID, a slot out of range, or one that
\* is not allocated (the bit is 0 already).
slots_free(bf, slot) ==
  IF slot \notin SlotIds
  THEN bf
  ELSE [bf EXCEPT ![BLOCK_IDX(slot)] = @ \ {BLOCK_BITMASK(slot)}]

\* The slots whose bit is set: what slots_shutdown reports as still allocated.
Allocated(bf) == {s \in SlotIds : BLOCK_BITMASK(s) \in bf[BLOCK_IDX(s)]}
=============================================================================
