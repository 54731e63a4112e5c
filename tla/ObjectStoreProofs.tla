------------------------- MODULE ObjectStoreProofs -------------------------
(***************************************************************************)
(* Proofs about Slots, SlotsClient and ObjectStore, for every block width, *)
(* every number of blocks and every finite set of threads: what            *)
(* slots_allocate and slots_free do to the set of allocated slots, the     *)
(* invariants of their client, and that IInv is an inductive invariant of  *)
(* the store and implies the safety properties and the refinements.        *)
(***************************************************************************)
EXTENDS ObjectStore, FiniteSetTheorems, WellFoundedInduction, TLAPS

\* The steps that name no prover: SMT first, then Zenon, with time to spare.
USE SMTT(60), ZenonT(60)

-----------------------------------------------------------------------------
(* Slots *)

(* A nonempty set of natural numbers has a least element. *)
LEMMA LeastNatural ==
  ASSUME NEW T \in SUBSET Nat, T # {}
  PROVE  \E x \in T : \A y \in T : x <= y
<1> DEFINE R == OpToRel(<, Nat)
<1>1. IsWellFoundedOn(R, Nat)
  BY NatLessThanWellFounded
<1>2. \A y, z : <<y, z>> \in R <=> <<y, z>> \in Nat \X Nat /\ <<y, z>>[1] < <<y, z>>[2]
  BY Zenon DEF OpToRel
<1> HIDE DEF R
<1>3. \A y, z \in Nat : <<y, z>> \in R <=> y < z
  BY <1>2
<1>4. PICK x \in T : \A y \in T : ~ (<<y, x>> \in R)
  BY <1>1, WFMin, Zenon
<1>5. \A y \in T : y \in Nat /\ x \in Nat /\ ~ (y < x)
  BY <1>3, <1>4
<1>6. QED
  BY <1>5

(* Quotient and remainder by the block width. *)
LEMMA DivMod ==
  ASSUME NEW B \in Nat \ {0}, NEW i \in Nat, NEW r \in 0 .. (B - 1)
  PROVE  /\ (i * B + r) \div B = i
         /\ (i * B + r) % B = r
BY Z3

LEMMA ModDiv ==
  ASSUME NEW B \in Nat \ {0}, NEW s \in Nat
  PROVE  /\ s \div B \in Nat
         /\ s % B \in 0 .. (B - 1)
         /\ s = ((s \div B) * B) + (s % B)
BY Z3

(* ffs of a nonempty set of bits names one of them. *)
LEMMA FfsIsABit ==
  ASSUME NEW bits \in SUBSET Bits
  PROVE  /\ bits # {} => ffs(bits) - 1 \in bits
         /\ bits # {} => ffs(bits) # 0
         /\ bits = {} => ffs(bits) = 0
<1>1. bits \in SUBSET Nat
  BY BlockBitsAssumption DEF Bits
<1>2. ASSUME bits # {}
      PROVE  /\ ffs(bits) - 1 \in bits
             /\ ffs(bits) # 0
  <2> DEFINE p == CHOOSE x \in bits : \A q \in bits : x <= q
  <2>1. p \in bits
    BY <1>1, <1>2, LeastNatural
  <2>2. p \in Nat /\ ffs(bits) = 1 + p
    BY <1>1, <1>2, <2>1 DEF ffs
  <2> HIDE DEF p
  <2>3. QED
    BY <2>1, <2>2
<1>3. QED
  BY <1>2 DEF ffs

-----------------------------------------------------------------------------
(* The slot that the bit at position p of block i stands for. *)
SlotOfBit(i, p) == (i + 1) * BlockBits - (p + 1)

(* Allocation's numbering is inverted by BLOCK_IDX and BLOCK_BITMASK. *)
LEMMA BitOfSlotOfBit ==
  ASSUME NEW i \in Blocks, NEW p \in Bits
  PROVE  /\ SlotOfBit(i, p) \in SlotIds
         /\ BLOCK_IDX(SlotOfBit(i, p)) = i
         /\ BLOCK_BITMASK(SlotOfBit(i, p)) = p
<1> DEFINE r == BlockBits - p - 1
<1>1. /\ BlockBits \in Nat \ {0} /\ BlockCount \in Nat \ {0}
      /\ i \in Nat /\ p \in Nat /\ r \in 0 .. (BlockBits - 1)
      /\ i + 1 <= BlockCount
  BY BlockBitsAssumption, BlockCountAssumption DEF Blocks, Bits
<1>2. SlotOfBit(i, p) = i * BlockBits + r
  BY <1>1 DEF SlotOfBit
<1>3. (i + 1) * BlockBits <= BlockCount * BlockBits
  BY <1>1
<1>4. SlotOfBit(i, p) \in SlotIds
  <2>1. \A a, c, d \in Int :
          0 <= a /\ c <= d /\ c = a + BlockBits => a + r \in 0 .. (d - 1)
    BY <1>1
  <2>2. /\ i * BlockBits \in Int /\ 0 <= i * BlockBits
        /\ (i + 1) * BlockBits \in Int /\ BlockCount * BlockBits \in Int
    BY <1>1
  <2>3. (i + 1) * BlockBits = i * BlockBits + BlockBits
    BY <1>1
  <2>4. i * BlockBits + r \in 0 .. (BlockCount * BlockBits - 1)
    BY <1>3, <2>1, <2>2, <2>3
  <2>5. QED
    BY <1>2, <2>4 DEF SlotIds, SlotCount
<1>5. /\ BLOCK_IDX(SlotOfBit(i, p)) = i
      /\ BLOCK_BIT(SlotOfBit(i, p)) = r
  <2>1. (i * BlockBits + r) \div BlockBits = i /\ (i * BlockBits + r) % BlockBits = r
    BY <1>1, DivMod
  <2>2. QED
    BY <1>2, <2>1 DEF BLOCK_IDX, BLOCK_BIT
<1>6. QED
  BY <1>1, <1>4, <1>5 DEF BLOCK_BITMASK

(* Every slot number is the number of a bit. *)
LEMMA SlotOfBitOfSlot ==
  ASSUME NEW s \in SlotIds
  PROVE  /\ BLOCK_IDX(s) \in Blocks
         /\ BLOCK_BITMASK(s) \in Bits
         /\ s = SlotOfBit(BLOCK_IDX(s), BLOCK_BITMASK(s))
<1>1. /\ BlockBits \in Nat \ {0} /\ BlockCount \in Nat \ {0}
      /\ BlockCount * BlockBits \in Nat
      /\ s \in Nat /\ s < BlockCount * BlockBits
  BY BlockBitsAssumption, BlockCountAssumption DEF SlotIds, SlotCount
<1>2. /\ BLOCK_IDX(s) \in Nat
      /\ BLOCK_BIT(s) \in 0 .. (BlockBits - 1)
      /\ s = BLOCK_IDX(s) * BlockBits + BLOCK_BIT(s)
  BY <1>1, ModDiv DEF BLOCK_IDX, BLOCK_BIT
<1>3. BLOCK_IDX(s) < BlockCount
  <2> DEFINE i == BLOCK_IDX(s)
  <2> SUFFICES ASSUME BlockCount <= i PROVE FALSE
    BY <1>1, <1>2
  <2>1. i \in Nat /\ i * BlockBits <= s
    BY <1>1, <1>2
  <2> HIDE DEF i
  <2>2. BlockCount * BlockBits <= i * BlockBits
    BY <1>1, <2>1
  <2>3. QED
    BY <1>1, <2>1, <2>2
<1>4. QED
  BY <1>1, <1>2, <1>3 DEF Blocks, Bits, BLOCK_BITMASK, SlotOfBit

-----------------------------------------------------------------------------
(***************************************************************************)
(* slots_allocate gives out a slot that is not allocated and allocates     *)
(* exactly that one; it answers SLOT_INVALID, changing nothing, exactly    *)
(* when every slot is allocated.                                           *)
(***************************************************************************)
THEOREM AllocateCorrect ==
  ASSUME NEW bf \in Bitfields
  PROVE  LET r == slots_allocate(bf) IN
         /\ r.bitfield \in Bitfields
         /\ Allocated(bf) = SlotIds =>
              r.slot = SLOT_INVALID /\ r.bitfield = bf
         /\ Allocated(bf) # SlotIds =>
              /\ r.slot \in SlotIds \ Allocated(bf)
              /\ Allocated(r.bitfield) = Allocated(bf) \cup {r.slot}
<1> DEFINE available == {i \in Blocks : ffs(Bits \ bf[i]) # 0}
           block == CHOOSE i \in available : \A j \in available : i <= j
           lsa == ffs(Bits \ bf[block])
           r == slots_allocate(bf)
<1>1. \A i \in Blocks : bf[i] \in SUBSET Bits
  BY DEF Bitfields
<1>2. CASE available = {}
  <2>1. r = [slot |-> SLOT_INVALID, bitfield |-> bf]
    BY <1>2 DEF slots_allocate
  <2>2. \A i \in Blocks : Bits \ bf[i] = {}
    BY <1>1, <1>2, FfsIsABit
  <2>3. Allocated(bf) = SlotIds
    BY <2>2, SlotOfBitOfSlot DEF Allocated
  <2>4. QED
    BY <2>1, <2>3
<1>3. CASE available # {}
  <2>1. block \in available
    <3>1. available \in SUBSET Nat
      BY BlockCountAssumption DEF Blocks
    <3> HIDE DEF available
    <3>2. QED
      BY <3>1, <1>3, LeastNatural
  <2>2. block \in Blocks /\ lsa - 1 \in Bits \ bf[block] /\ lsa - 1 \in Nat /\ lsa \in Int
    <3>1. block \in Blocks /\ ffs(Bits \ bf[block]) # 0
      BY <2>1
    <3> HIDE DEF available, block
    <3>2. Bits \ bf[block] # {}
      BY <3>1, FfsIsABit, <1>1
    <3>3. ffs(Bits \ bf[block]) - 1 \in Bits \ bf[block]
      BY <3>1, <3>2, FfsIsABit
    <3>4. ffs(Bits \ bf[block]) \in Int
      <4>1. \A q \in Bits \ bf[block] : q \in Int
        BY BlockBitsAssumption DEF Bits
      <4>2. (CHOOSE p \in Bits \ bf[block] : \A q \in Bits \ bf[block] : p <= q) \in Bits \ bf[block]
        <5>1. Bits \ bf[block] \in SUBSET Nat
          BY BlockBitsAssumption DEF Bits
        <5>2. QED
          BY <3>2, <5>1, LeastNatural
      <4>3. QED
        BY <3>2, <4>1, <4>2 DEF ffs
    <3>5. QED
      BY <3>1, <3>3, <3>4, BlockBitsAssumption DEF Bits
  <2>3. r = [slot |-> (block + 1) * BlockBits - lsa,
             bitfield |-> [bf EXCEPT ![block] = @ \cup {lsa - 1}]]
    BY <1>3 DEF slots_allocate
  <2> HIDE DEF r, available, block, lsa
  <2> DEFINE p == lsa - 1
  <2>4. r.slot = SlotOfBit(block, p)
    BY <2>2, <2>3 DEF SlotOfBit
  <2>5. r.bitfield = [bf EXCEPT ![block] = @ \cup {p}]
    BY <2>3
  <2>6. block \in Blocks /\ p \in Bits /\ p \notin bf[block]
    BY <2>2
  <2> HIDE DEF p
  <2>7. r.bitfield \in Bitfields
    BY <2>5, <2>6 DEF Bitfields
  <2>8. r.slot \in SlotIds /\ BLOCK_IDX(r.slot) = block /\ BLOCK_BITMASK(r.slot) = p
    BY <2>4, <2>6, BitOfSlotOfBit
  <2>9. r.slot \notin Allocated(bf)
    BY <2>6, <2>8 DEF Allocated
  <2>10. ASSUME NEW s \in SlotIds
         PROVE  s \in Allocated(r.bitfield) <=> s \in Allocated(bf) \cup {r.slot}
    <3>1. r.bitfield[BLOCK_IDX(s)] =
            IF BLOCK_IDX(s) = block THEN bf[block] \cup {p} ELSE bf[BLOCK_IDX(s)]
      BY <2>5, <2>6, SlotOfBitOfSlot DEF Bitfields
    <3>2. BLOCK_IDX(s) = block /\ BLOCK_BITMASK(s) = p => s = r.slot
      BY <2>4, SlotOfBitOfSlot
    <3>3. QED
      BY <2>8, <3>1, <3>2 DEF Allocated
  <2>11. Allocated(r.bitfield) = Allocated(bf) \cup {r.slot}
    <3>1. Allocated(r.bitfield) \subseteq SlotIds /\ Allocated(bf) \subseteq SlotIds
      BY DEF Allocated
    <3>2. QED
      BY <3>1, <2>8, <2>10
  <2>12. QED
    BY <2>7, <2>8, <2>9, <2>11 DEF r
<1>4. QED
  BY <1>2, <1>3

(***************************************************************************)
(* slots_free takes exactly the given slot out of the allocated ones, and  *)
(* has no effect for a number that is not a slot's.                        *)
(***************************************************************************)
THEOREM FreeCorrect ==
  ASSUME NEW bf \in Bitfields, NEW slot
  PROVE  /\ slots_free(bf, slot) \in Bitfields
         /\ Allocated(slots_free(bf, slot)) = Allocated(bf) \ {slot}
<1>1. CASE slot \notin SlotIds
  BY <1>1 DEF slots_free, Allocated
<1>2. CASE slot \in SlotIds
  <2> DEFINE b == slots_free(bf, slot)
  <2>1. b = [bf EXCEPT ![BLOCK_IDX(slot)] = @ \ {BLOCK_BITMASK(slot)}]
    BY <1>2 DEF slots_free
  <2> HIDE DEF b
  <2>2. BLOCK_IDX(slot) \in Blocks /\ BLOCK_BITMASK(slot) \in Bits
    BY <1>2, SlotOfBitOfSlot
  <2>3. b \in Bitfields
    BY <2>1, <2>2 DEF Bitfields
  <2>4. ASSUME NEW s \in SlotIds
        PROVE  s \in Allocated(b) <=> s \in Allocated(bf) \ {slot}
    <3>1. b[BLOCK_IDX(s)] =
            IF BLOCK_IDX(s) = BLOCK_IDX(slot)
            THEN bf[BLOCK_IDX(s)] \ {BLOCK_BITMASK(slot)} ELSE bf[BLOCK_IDX(s)]
      BY <2>1, <2>2, SlotOfBitOfSlot DEF Bitfields
    <3>2. BLOCK_IDX(s) = BLOCK_IDX(slot) /\ BLOCK_BITMASK(s) = BLOCK_BITMASK(slot) => s = slot
      BY <1>2, SlotOfBitOfSlot
    <3>3. QED
      BY <3>1, <3>2 DEF Allocated
  <2>5. Allocated(b) \subseteq SlotIds /\ Allocated(bf) \subseteq SlotIds
    BY DEF Allocated
  <2>6. Allocated(b) = Allocated(bf) \ {slot}
    BY <2>4, <2>5
  <2>7. QED
    BY <2>3, <2>6 DEF b
<1>3. QED
  BY <1>1, <1>2

(* slots_init allocates nothing. *)
LEMMA InitCorrect ==
  /\ slots_init \in Bitfields
  /\ Allocated(slots_init) = {}
<1>1. slots_init \in Bitfields
  BY DEF slots_init, Bitfields
<1>2. \A s \in SlotIds : slots_init[BLOCK_IDX(s)] = {}
  BY SlotOfBitOfSlot DEF slots_init
<1>3. QED
  BY <1>1, <1>2 DEF Allocated

-----------------------------------------------------------------------------
(* A client of the allocator: a bit field, and the slots that the client     *)
(* was given and has not returned.                                           *)
VARIABLES client_bitfield, client_slots

Client == INSTANCE SlotsClient WITH bitfield <- client_bitfield, granted <- client_slots

(* The instance means the same by the operators of Slots. *)
LEMMA ClientBlocks ==
  /\ Client!Blocks = Blocks
  /\ Client!Bits = Bits
  /\ Client!SlotCount = SlotCount
  /\ Client!SlotIds = SlotIds
BY DEF Client!Blocks, Blocks, Client!Bits, Bits, Client!SlotCount, SlotCount,
       Client!SlotIds, SlotIds

LEMMA ClientSlots ==
  ASSUME NEW bf
  PROVE  /\ Client!slots_init = slots_init
         /\ Client!slots_allocate(bf) = slots_allocate(bf)
         /\ \A slot : Client!slots_free(bf, slot) = slots_free(bf, slot)
         /\ Client!Allocated(bf) = Allocated(bf)
         /\ Client!Bitfields = Bitfields
<1>1. \A bits : Client!ffs(bits) = ffs(bits)
  BY DEF Client!ffs, ffs
<1>2. \A slot : /\ Client!BLOCK_IDX(slot) = BLOCK_IDX(slot)
                /\ Client!BLOCK_BITMASK(slot) = BLOCK_BITMASK(slot)
  BY DEF Client!BLOCK_IDX, BLOCK_IDX, Client!BLOCK_BITMASK, BLOCK_BITMASK,
         Client!BLOCK_BIT, BLOCK_BIT
<1>3. Client!slots_init = slots_init
  BY ClientBlocks DEF Client!slots_init, slots_init
<1>4. Client!slots_allocate(bf) = slots_allocate(bf)
  BY ClientBlocks, <1>1 DEF Client!slots_allocate, slots_allocate
<1>5. \A slot : Client!slots_free(bf, slot) = slots_free(bf, slot)
  BY ClientBlocks, <1>2 DEF Client!slots_free, slots_free
<1>6. Client!Allocated(bf) = Allocated(bf) /\ Client!Bitfields = Bitfields
  BY ClientBlocks, <1>2 DEF Client!Allocated, Allocated, Client!Bitfields, Bitfields
<1>7. QED
  BY <1>3, <1>4, <1>5, <1>6

(***************************************************************************)
(* The bit field stays the image of the slots granted: TypeOK together     *)
(* with BitsAreGrants is inductive.                                        *)
(***************************************************************************)
THEOREM BitsAreGrantsAlways == Client!Spec => [](Client!TypeOK /\ Client!BitsAreGrants)
<1> DEFINE Inv == Client!TypeOK /\ Client!BitsAreGrants
<1>1. Inv <=> /\ client_bitfield \in Bitfields
              /\ client_slots \subseteq SlotIds
              /\ Allocated(client_bitfield) = client_slots
  BY ClientBlocks, ClientSlots DEF Client!TypeOK, Client!BitsAreGrants
<1>2. Inv' <=> /\ client_bitfield' \in Bitfields
               /\ client_slots' \subseteq SlotIds
               /\ Allocated(client_bitfield') = client_slots'
  BY ClientBlocks, ClientSlots DEF Client!TypeOK, Client!BitsAreGrants
<1> HIDE DEF Inv
<1>3. Client!Init => Inv
  BY <1>1, InitCorrect, ClientSlots DEF Client!Init
<1>4. Inv /\ [Client!Next]_(Client!vars) => Inv'
  <2> SUFFICES ASSUME Inv, [Client!Next]_(Client!vars) PROVE Inv'
    OBVIOUS
  <2> DEFINE r == slots_allocate(client_bitfield)
  <2>1. r = Client!slots_allocate(client_bitfield)
    BY ClientSlots
  <2>2. CASE Client!Allocate
    <3>1. /\ r.slot # SLOT_INVALID
          /\ client_bitfield' = r.bitfield
          /\ client_slots' = client_slots \cup {r.slot}
      BY <2>1, <2>2 DEF Client!Allocate
    <3>2. QED
      BY <1>1, <1>2, <3>1, AllocateCorrect, SlotInvalidAssumption
  <2>3. CASE Client!AllocateFails
    <3>1. /\ r.slot = SLOT_INVALID
          /\ client_bitfield' = r.bitfield
          /\ client_slots' = client_slots
      BY <2>1, <2>3 DEF Client!AllocateFails
    <3>2. QED
      BY <1>1, <1>2, <3>1, AllocateCorrect, SlotInvalidAssumption
  <2>4. ASSUME NEW slot, slot \in SlotIds \cup {SLOT_INVALID, SlotCount},
               Client!Free(slot)
        PROVE  Inv'
    <3>1. /\ client_bitfield' = slots_free(client_bitfield, slot)
          /\ client_slots' = client_slots \ {slot}
      BY <2>4, ClientSlots DEF Client!Free
    <3>2. QED
      BY <1>1, <1>2, <2>4, <3>1, FreeCorrect
  <2>5. CASE UNCHANGED Client!vars
    BY <1>1, <1>2, <2>5 DEF Client!vars
  <2>6. QED
    BY <2>2, <2>3, <2>4, <2>5, ClientBlocks DEF Client!Next
<1>5. QED
  BY <1>3, <1>4, PTL DEF Inv, Client!Spec

(***************************************************************************)
(* No slot is given out while somebody has it, and an allocation fails     *)
(* only when all of them are out.                                          *)
(***************************************************************************)
THEOREM GrantIsFreshAlways == Client!Spec => []Client!GrantIsFresh
<1>1. Client!TypeOK /\ Client!BitsAreGrants => Client!GrantIsFresh
  BY AllocateCorrect, ClientBlocks, ClientSlots
     DEF Client!TypeOK, Client!BitsAreGrants, Client!GrantIsFresh
<1>2. QED
  BY <1>1, BitsAreGrantsAlways, PTL

-----------------------------------------------------------------------------
(* The object store *)


(* A set of threads that grows or shrinks by one. *)
LEMMA CountThreads ==
  ASSUME NEW S \in SUBSET Threads, NEW t \in Threads
  PROVE  /\ IsFiniteSet(S)
         /\ Cardinality(S) \in Nat
         /\ t \notin S => Cardinality(S \cup {t}) = Cardinality(S) + 1
         /\ t \in S => Cardinality(S \ {t}) = Cardinality(S) - 1
         /\ Cardinality(S) = 0 <=> S = {}
<1>1. IsFiniteSet(S)
  BY ThreadsAssumption, FS_Subset
<1>2. QED
  BY <1>1, FS_CardinalityType, FS_AddElement, FS_RemoveElement, FS_EmptySet

LEMMA SlotCountNat == SlotCount \in Nat /\ SlotCount > 0
BY BlockBitsAssumption, BlockCountAssumption DEF SlotCount

LEMMA InitIInv == Init => IInv
<1> SUFFICES ASSUME Init PROVE IInv
  OBVIOUS
<1>1. TypeOK
  <2>1. bitfield \in Bitfields
    BY InitCorrect DEF Init
  <2>2. objects \in [SlotIds -> store_object_t]
    BY DEF Init, store_object_t, EmptyEntry
  <2>3. shutdown_slot \in 0 .. SlotCount
    BY SlotCountNat DEF Init
  <2>4. QED
    BY <2>1, <2>2, <2>3 DEF Init, TypeOK, Statuses
<1>2. ControlOK
  BY DEF Init, ControlOK
<1>3. HeldEntryStays /\ FreedOnce /\ ScannedEmpty
  BY DEF Init, HeldEntryStays, FreedOnce, ScannedEmpty, EmptyEntry
<1>4. RefCountExact
  <2>1. \A s \in SlotIds : Holders(s) = {}
    BY DEF Init, Holders
  <2>2. QED
    BY <2>1, FS_EmptySet DEF Init, RefCountExact, EmptyEntry
<1>5. TableConsistent
  BY InitCorrect DEF Init, TableConsistent, EmptyEntry
<1>6. NothingLeaks
  BY DEF Init, NothingLeaks
<1>7. ReleaseCountExact
  <2>1. {t \in Threads : pc[t] \in {"scan", "uncount"}} = {}
    BY DEF Init
  <2>2. QED
    BY <2>1, FS_EmptySet DEF Init, ReleaseCountExact
<1>8. QED
  BY <1>1, <1>2, <1>3, <1>4, <1>5, <1>6, <1>7 DEF IInv

(* A step that changes only what calls returned preserves IInv. *)
LEMMA ReturnIInv ==
  ASSUME IInv,
         NEW t \in Threads, NEW s \in Statuses,
         Return(t, s),
         UNCHANGED <<table, heap, held, pc, call, victim, exit>>
  PROVE  IInv'
<1> USE DEF table, exit
<1>1. TypeOK'
  BY DEF IInv, TypeOK, Return
<1>2. ControlOK'
  BY DEF IInv, ControlOK
<1>3. HeldEntryStays' /\ FreedOnce' /\ ScannedEmpty' /\ TableConsistent'
  BY DEF IInv, HeldEntryStays, FreedOnce, ScannedEmpty, TableConsistent
<1>4. RefCountExact'
  BY DEF IInv, RefCountExact, Holders
<1>5. NothingLeaks' /\ ReleaseCountExact'
  BY DEF IInv, NothingLeaks, Stored, ReleaseCountExact
<1>6. QED
  BY <1>1, <1>2, <1>3, <1>4, <1>5 DEF IInv

LEMMA AddIInv ==
  ASSUME IInv, NEW t \in Threads, NEW o \in Objects, NEW u \in Uuids,
         Add(t, o, u)
  PROVE  IInv'
<1> DEFINE slot == slots_allocate(bitfield).slot
<1>0. TypeOK
  BY DEF IInv
<1>1. /\ slot \in SlotIds
      /\ slot \notin Allocated(bitfield)
      /\ Allocated(bitfield') = Allocated(bitfield) \cup {slot}
      /\ bitfield' \in Bitfields
  BY <1>0, AllocateCorrect, SlotInvalidAssumption DEF Add, TypeOK
<1>2. objects[slot].object = NULL
  BY <1>1 DEF IInv, TableConsistent
<1>3. /\ objects' = [objects EXCEPT ![slot] =
                     [object |-> o,
                      reference_count |-> objects[slot].reference_count,
                      owner_uuid |-> u]]
      /\ heap' = [heap EXCEPT ![o] = "live"]
      /\ heap[o] = "free"
      /\ pc[t] = "idle"
      /\ shutdown # "done"
      /\ ~is_shutting_down
      /\ Return(t, "OK")
      /\ UNCHANGED <<is_shutting_down, release_count, held, pc, call, victim,
                     shutdown, shutdown_slot, shutdown_victim>>
  BY DEF Add, exit, MayCall
<1> HIDE DEF slot
<1>4. /\ objects'[slot] = [object |-> o, reference_count |-> objects[slot].reference_count, owner_uuid |-> u]
      /\ \A s \in SlotIds : s # slot => objects'[s] = objects[s]
      /\ objects' \in [SlotIds -> store_object_t]
      /\ \A s \in SlotIds : objects'[s].reference_count = objects[s].reference_count
  BY <1>0, <1>1, <1>3 DEF TypeOK, store_object_t
<1>5. TypeOK'
  BY <1>0, <1>1, <1>3, <1>4 DEF TypeOK, Return, Statuses
<1>6. ControlOK'
  BY <1>3 DEF IInv, ControlOK
<1>7. HeldEntryStays'
  <2> SUFFICES ASSUME NEW x \in Threads, held[x] # NULL
               PROVE  /\ objects'[held[x].slot].object = held[x].object
                      /\ objects'[held[x].slot].owner_uuid = held[x].uuid
    BY <1>3 DEF HeldEntryStays
  <2>1. held[x] \in References
    BY <1>0 DEF TypeOK
  <2>2. held[x].slot # slot
    BY <1>2, <2>1, NullAssumption DEF IInv, HeldEntryStays, References
  <2>3. QED
    BY <1>4, <2>1, <2>2 DEF IInv, HeldEntryStays, References
<1>8. RefCountExact'
  BY <1>3, <1>4 DEF IInv, RefCountExact, Holders
<1>9. ~Stored(o)
  BY <1>3, NullAssumption DEF IInv, FreedOnce, Stored
<1>10. TableConsistent'
  <2>1. Allocated(bitfield') = {s \in SlotIds : objects'[s].object # NULL}
    BY <1>1, <1>4, NullAssumption DEF IInv, TableConsistent
  <2>2. QED
    BY <1>4, <1>9, <2>1 DEF IInv, TableConsistent, Stored
<1>11. FreedOnce'
  BY <1>0, <1>3, <1>4, NullAssumption DEF IInv, FreedOnce, TypeOK
<1>12. NothingLeaks'
  BY <1>0, <1>1, <1>2, <1>3, <1>4, NullAssumption
     DEF IInv, NothingLeaks, Stored, TypeOK
<1>13. ReleaseCountExact'
  BY <1>3 DEF IInv, ReleaseCountExact
<1>14. ScannedEmpty'
  BY <1>3, <1>4, <1>0 DEF IInv, ControlOK, ScannedEmpty, SlotIds, TypeOK
<1>15. QED
  BY <1>5, <1>6, <1>7, <1>8, <1>10, <1>11, <1>12, <1>13, <1>14 DEF IInv

LEMMA AcquireIInv ==
  ASSUME IInv, NEW t \in Threads, NEW s \in CallerSlots, NEW u \in Uuids,
         Acquire(t, s, u)
  PROVE  IInv'
<1> DEFINE ref == [slot |-> s, object |-> objects[s].object, uuid |-> u]
<1>0. TypeOK
  BY DEF IInv
<1>1. /\ s \in SlotIds
      /\ objects[s].object # NULL
      /\ objects[s].owner_uuid = u
      /\ ~is_shutting_down
  BY DEF Acquire, AcquireStatus, OwnedBy
<1>2. /\ held[t] = NULL
      /\ pc[t] = "idle"
      /\ objects' = [objects EXCEPT ![s].reference_count = @ + 1]
      /\ held' = [held EXCEPT ![t] = ref]
      /\ Return(t, "OK")
      /\ UNCHANGED <<bitfield, is_shutting_down, release_count, heap, pc, call,
                     victim, shutdown, shutdown_slot, shutdown_victim>>
  BY DEF Acquire, MayCall, exit
<1>3. ref \in References /\ ref # NULL /\ ref.slot = s
  BY <1>0, <1>1, NullAssumption DEF TypeOK, store_object_t, References
<1>4. /\ objects' \in [SlotIds -> store_object_t]
      /\ \A x \in SlotIds : /\ objects'[x].object = objects[x].object
                            /\ objects'[x].owner_uuid = objects[x].owner_uuid
      /\ objects'[s].reference_count = objects[s].reference_count + 1
      /\ \A x \in SlotIds : x # s => objects'[x] = objects[x]
  BY <1>0, <1>1, <1>2 DEF TypeOK, store_object_t
<1>5. /\ held'[t] = ref
      /\ \A x \in Threads : x # t => held'[x] = held[x]
      /\ held' \in [Threads -> References \cup {NULL}]
  BY <1>0, <1>2, <1>3 DEF TypeOK
<1>6. TypeOK'
  BY <1>0, <1>2, <1>4, <1>5 DEF TypeOK, Return, Statuses
<1>7. ControlOK'
  BY <1>2, <1>5 DEF IInv, ControlOK
<1>8. HeldEntryStays'
  <2> SUFFICES ASSUME NEW x \in Threads, held'[x] # NULL
               PROVE  /\ objects'[held'[x].slot].object = held'[x].object
                      /\ objects'[held'[x].slot].owner_uuid = held'[x].uuid
    BY DEF HeldEntryStays
  <2>1. CASE x = t
    BY <1>1, <1>4, <1>5, <2>1
  <2>2. CASE x # t
    <3>1. held'[x] = held[x] /\ held[x] \in References
      BY <1>0, <1>5, <2>2 DEF TypeOK
    <3>2. QED
      BY <1>4, <3>1 DEF IInv, HeldEntryStays, References
  <2>3. QED
    BY <2>1, <2>2
<1>9. RefCountExact'
  <2> SUFFICES ASSUME NEW x \in SlotIds
               PROVE  objects'[x].reference_count = Cardinality(Holders(x)')
    BY DEF RefCountExact
  <2>1. objects[x].reference_count = Cardinality(Holders(x))
    BY DEF IInv, RefCountExact
  <2>2. CASE x = s
    <3>1. Holders(x)' = Holders(x) \cup {t} /\ t \notin Holders(x) /\ Holders(x) \in SUBSET Threads
      BY <1>2, <1>3, <1>5, <2>2 DEF Holders
    <3> HIDE DEF ref
    <3>2. QED
      BY <1>4, <2>1, <2>2, <3>1, CountThreads
  <2>3. CASE x # s
    <3>1. Holders(x)' = Holders(x)
      BY <1>2, <1>3, <1>5, <2>3 DEF Holders
    <3>2. QED
      BY <1>4, <2>1, <2>3, <3>1
  <2>4. QED
    BY <2>2, <2>3
<1>10. TableConsistent' /\ FreedOnce' /\ NothingLeaks' /\ ScannedEmpty'
  <2>1. TableConsistent'
    BY <1>2, <1>4 DEF IInv, TableConsistent
  <2>2. FreedOnce'
    BY <1>2, <1>4 DEF IInv, FreedOnce
  <2>3. NothingLeaks'
    BY <1>2, <1>4 DEF IInv, NothingLeaks, Stored
  <2>4. ScannedEmpty'
    BY <1>0, <1>1, <1>2, <1>4 DEF IInv, ControlOK, ScannedEmpty, SlotIds, TypeOK
  <2>5. QED
    BY <2>1, <2>2, <2>3, <2>4
<1>11. ReleaseCountExact'
  BY <1>2 DEF IInv, ReleaseCountExact
<1>12. QED
  BY <1>6, <1>7, <1>8, <1>9, <1>10, <1>11 DEF IInv

(* Under IInv a release always finds its entry. *)
LEMMA ReleaseSucceeds ==
  ASSUME IInv, NEW t \in Threads, held[t] # NULL
  PROVE  ReleaseStatus(held[t]) = "OK"
<1>1. held[t] \in References
  BY DEF IInv, TypeOK
<1> DEFINE s == held[t].slot
<1>2. s \in SlotIds /\ objects[s].object = held[t].object /\ objects[s].owner_uuid = held[t].uuid
  BY <1>1 DEF IInv, HeldEntryStays, References
<1>3. t \in Holders(s) /\ Holders(s) \in SUBSET Threads
  BY DEF Holders
<1>4. objects[s].reference_count # 0
  BY <1>2, <1>3, CountThreads DEF IInv, RefCountExact
<1>5. QED
  BY <1>2, <1>4 DEF ReleaseStatus, OwnedBy

LEMMA ReleaseIInv ==
  ASSUME IInv, NEW t \in Threads, Release(t)
  PROVE  IInv'
<1> DEFINE s == held[t].slot
<1>0. TypeOK
  BY DEF IInv
<1>1. /\ held[t] # NULL
      /\ pc[t] = "idle"
      /\ held' = [held EXCEPT ![t] = NULL]
      /\ Return(t, "OK")
      /\ UNCHANGED <<bitfield, is_shutting_down, release_count, heap, pc, call,
                     victim, shutdown, shutdown_slot, shutdown_victim>>
  BY ReleaseSucceeds DEF Release, exit
<1>2. s \in SlotIds
  BY <1>0, <1>1 DEF TypeOK, References
<1>3. t \in Holders(s) /\ Holders(s) \in SUBSET Threads
  BY <1>1 DEF Holders
<1> HIDE DEF s
<1>4. objects[s].reference_count = Cardinality(Holders(s)) /\ objects[s].reference_count - 1 \in Nat
  <2>1. objects[s].reference_count = Cardinality(Holders(s))
    BY <1>2 DEF IInv, RefCountExact
  <2>2. Cardinality(Holders(s)) \in Nat /\ Cardinality(Holders(s)) # 0
    BY <1>3, CountThreads
  <2>3. QED
    BY <2>1, <2>2
<1>14. objects' = [objects EXCEPT ![s].reference_count = @ - 1]
  BY ReleaseSucceeds DEF Release, s
<1>5. /\ objects' \in [SlotIds -> store_object_t]
      /\ \A x \in SlotIds : /\ objects'[x].object = objects[x].object
                            /\ objects'[x].owner_uuid = objects[x].owner_uuid
      /\ objects'[s].reference_count = objects[s].reference_count - 1
      /\ \A x \in SlotIds : x # s => objects'[x] = objects[x]
  BY <1>0, <1>2, <1>4, <1>14 DEF TypeOK, store_object_t
<1>6. /\ held'[t] = NULL
      /\ \A x \in Threads : x # t => held'[x] = held[x]
      /\ held' \in [Threads -> References \cup {NULL}]
  BY <1>0, <1>1 DEF TypeOK
<1>7. TypeOK'
  BY <1>0, <1>1, <1>5, <1>6 DEF TypeOK, Return, Statuses
<1>8. ControlOK'
  BY <1>1, <1>6 DEF IInv, ControlOK
<1>9. HeldEntryStays'
  <2> SUFFICES ASSUME NEW x \in Threads, held'[x] # NULL
               PROVE  /\ objects'[held'[x].slot].object = held'[x].object
                      /\ objects'[held'[x].slot].owner_uuid = held'[x].uuid
    BY DEF HeldEntryStays
  <2>1. held'[x] = held[x] /\ held[x] \in References
    BY <1>0, <1>6 DEF TypeOK
  <2>2. QED
    BY <1>5, <2>1 DEF IInv, HeldEntryStays, References
<1>10. RefCountExact'
  <2> SUFFICES ASSUME NEW x \in SlotIds
               PROVE  objects'[x].reference_count = Cardinality(Holders(x)')
    BY DEF RefCountExact
  <2>1. objects[x].reference_count = Cardinality(Holders(x))
    BY DEF IInv, RefCountExact
  <2>2. CASE x = s
    <3>1. Holders(x)' = Holders(x) \ {t}
      BY <1>6, <2>2 DEF Holders
    <3>2. QED
      BY <1>3, <1>5, <2>1, <2>2, <3>1, CountThreads
  <2>3. CASE x # s
    <3>1. Holders(x)' = Holders(x)
      BY <1>6, <2>3 DEF Holders, s
    <3>2. QED
      BY <1>5, <2>1, <2>3, <3>1
  <2>4. QED
    BY <2>2, <2>3
<1>11. TableConsistent' /\ FreedOnce' /\ NothingLeaks' /\ ScannedEmpty'
  <2>1. TableConsistent'
    BY <1>1, <1>5 DEF IInv, TableConsistent
  <2>2. FreedOnce'
    BY <1>1, <1>5 DEF IInv, FreedOnce
  <2>3. NothingLeaks'
    BY <1>1, <1>5 DEF IInv, NothingLeaks, Stored
  <2>4. ScannedEmpty'
    <3>1. shutdown = "free" => shutdown_slot \in SlotIds
      BY <1>0, SlotCountNat DEF IInv, ControlOK, SlotIds, TypeOK
    <3>2. QED
      BY <1>1, <1>5, <3>1 DEF IInv, ScannedEmpty
  <2>5. QED
    BY <2>1, <2>2, <2>3, <2>4
<1>12. ReleaseCountExact'
  BY <1>1 DEF IInv, ReleaseCountExact
<1>13. QED
  BY <1>7, <1>8, <1>9, <1>10, <1>11, <1>12 DEF IInv

-----------------------------------------------------------------------------
(* A step that leaves the table and the references alone. *)
LEMMA TableKept ==
  ASSUME IInv, UNCHANGED <<bitfield, objects, held>>
  PROVE  HeldEntryStays' /\ RefCountExact' /\ TableConsistent'
BY DEF IInv, HeldEntryStays, RefCountExact, Holders, TableConsistent

(* Taking an unreferenced object out of its slot. *)
LEMMA TakeKeepsTable ==
  ASSUME IInv, NEW s \in SlotIds, Removable(s), TakeObject(s), UNCHANGED held
  PROVE  /\ bitfield' \in Bitfields
         /\ objects' \in [SlotIds -> store_object_t]
         /\ objects[s].object \in Objects
         /\ objects'[s].object = NULL
         /\ \A x \in SlotIds : x # s => objects'[x] = objects[x]
         /\ HeldEntryStays' /\ RefCountExact' /\ TableConsistent'
<1>0. TypeOK
  BY DEF IInv
<1>1. objects[s].object # NULL /\ objects[s].reference_count = 0
  BY DEF Removable
<1>2. objects' = [objects EXCEPT ![s].object = NULL] /\ bitfield' = slots_free(bitfield, s)
  BY DEF TakeObject
<1>3. /\ objects' \in [SlotIds -> store_object_t]
      /\ objects[s].object \in Objects
      /\ objects'[s].object = NULL
      /\ \A x \in SlotIds : x # s => objects'[x] = objects[x]
      /\ \A x \in SlotIds : objects'[x].reference_count = objects[x].reference_count
  BY <1>0, <1>1, <1>2 DEF TypeOK, store_object_t
<1>4. bitfield' \in Bitfields /\ Allocated(bitfield') = Allocated(bitfield) \ {s}
  BY <1>0, <1>2, FreeCorrect DEF TypeOK
<1>5. Holders(s) = {}
  <2>1. Cardinality(Holders(s)) = 0
    BY <1>1 DEF IInv, RefCountExact
  <2>2. Holders(s) \in SUBSET Threads
    BY DEF Holders
  <2>3. IsFiniteSet(Holders(s))
    BY <2>2, ThreadsAssumption, FS_Subset
  <2>4. QED
    BY <2>1, <2>3, FS_EmptySet
<1>6. HeldEntryStays'
  <2> SUFFICES ASSUME NEW x \in Threads, held[x] # NULL
               PROVE  /\ objects'[held[x].slot].object = held[x].object
                      /\ objects'[held[x].slot].owner_uuid = held[x].uuid
    BY DEF HeldEntryStays
  <2>1. held[x] \in References /\ held[x].slot # s
    BY <1>0, <1>5 DEF TypeOK, Holders
  <2>2. QED
    BY <1>3, <2>1 DEF IInv, HeldEntryStays, References
<1>7. RefCountExact'
  BY <1>3 DEF IInv, RefCountExact, Holders
<1>8. TableConsistent'
  <2>1. Allocated(bitfield') = {x \in SlotIds : objects'[x].object # NULL}
    BY <1>3, <1>4 DEF IInv, TableConsistent
  <2>2. QED
    BY <1>3, <2>1 DEF IInv, TableConsistent
<1>9. QED
  BY <1>3, <1>4, <1>6, <1>7, <1>8

(* The calls that shutdown waits for, and how they come and go. *)
Releasing == {t \in Threads : pc[t] \in {"scan", "uncount"}}

LEMMA RemoveBeginIInv ==
  ASSUME IInv, NEW t \in Threads, NEW s \in SlotIds, NEW u \in Uuids,
         RemoveBegin(t, s, u)
  PROVE  IInv'
<1>0. TypeOK
  BY DEF IInv
<1>1. /\ pc[t] = "idle" /\ held[t] = NULL /\ shutdown # "done" /\ ~is_shutting_down
      /\ release_count' = release_count + 1
      /\ pc' = [pc EXCEPT ![t] = "scan"]
      /\ call' = [call EXCEPT ![t] = [slot |-> s, uuid |-> u]]
      /\ UNCHANGED <<bitfield, objects, is_shutting_down, heap, held, victim, status,
                     shutdown, shutdown_slot, shutdown_victim>>
  BY DEF RemoveBegin, MayCall, exit
<1>2. [slot |-> s, uuid |-> u] \in Calls /\ [slot |-> s, uuid |-> u] # NULL
  BY NullAssumption DEF Calls
<1>3. TypeOK'
  BY <1>0, <1>1, <1>2 DEF TypeOK
<1>4. ControlOK'
  BY <1>0, <1>1, <1>2 DEF IInv, ControlOK, TypeOK
<1>5. HeldEntryStays' /\ RefCountExact' /\ TableConsistent'
  BY <1>1, TableKept
<1>6. FreedOnce' /\ NothingLeaks' /\ ScannedEmpty'
  BY <1>1 DEF IInv, FreedOnce, NothingLeaks, Stored, ScannedEmpty
<1>7. ReleaseCountExact'
  <2>1. Releasing' = Releasing \cup {t} /\ t \notin Releasing /\ Releasing \in SUBSET Threads
    BY <1>0, <1>1 DEF Releasing, TypeOK
  <2>2. release_count = Cardinality(Releasing)
    BY DEF IInv, ReleaseCountExact, Releasing
  <2>3. release_count' = Cardinality(Releasing')
    BY <1>1, <2>1, <2>2, CountThreads
  <2>4. shutdown' \in {"none", "wait"}
    BY <1>0, <1>1 DEF IInv, ControlOK, TypeOK
  <2>5. QED
    BY <2>3, <2>4 DEF ReleaseCountExact, Releasing
<1>8. QED
  BY <1>3, <1>4, <1>5, <1>6, <1>7 DEF IInv

LEMMA RemoveScanFailsIInv ==
  ASSUME IInv, NEW t \in Threads, RemoveScanFails(t)
  PROVE  IInv'
<1>0. TypeOK
  BY DEF IInv
<1>1. /\ pc[t] = "scan"
      /\ pc' = [pc EXCEPT ![t] = "uncount"]
      /\ UNCHANGED <<bitfield, objects, is_shutting_down, release_count, heap, held,
                     call, victim, shutdown, shutdown_slot, shutdown_victim>>
      /\ \E st \in Statuses : Return(t, st)
  BY DEF RemoveScanFails, exit, table, Statuses
<1>2. TypeOK'
  BY <1>0, <1>1 DEF TypeOK, Return
<1>3. ControlOK'
  BY <1>0, <1>1 DEF IInv, ControlOK, TypeOK
<1>4. HeldEntryStays' /\ RefCountExact' /\ TableConsistent'
  BY <1>1, TableKept
<1>5. FreedOnce' /\ NothingLeaks' /\ ScannedEmpty'
  BY <1>1 DEF IInv, FreedOnce, NothingLeaks, Stored, ScannedEmpty
<1>6. ReleaseCountExact'
  <2>1. Releasing' = Releasing
    BY <1>0, <1>1 DEF Releasing, TypeOK
  <2>2. QED
    BY <1>1, <2>1 DEF IInv, ReleaseCountExact, Releasing
<1>7. QED
  BY <1>2, <1>3, <1>4, <1>5, <1>6 DEF IInv

LEMMA RemoveScanIInv ==
  ASSUME IInv, NEW t \in Threads, RemoveScan(t)
  PROVE  IInv'
<1> DEFINE s == call[t].slot
           o == objects[s].object
<1>0. TypeOK
  BY DEF IInv
<1>1. /\ pc[t] = "scan" /\ call[t] # NULL /\ victim[t] = NULL
      /\ s \in SlotIds
  BY <1>0 DEF RemoveScan, IInv, ControlOK, TypeOK, Calls
<1>2. /\ Removable(s) /\ TakeObject(s)
      /\ victim' = [victim EXCEPT ![t] = o]
      /\ pc' = [pc EXCEPT ![t] = "uncount"]
      /\ Return(t, "OK")
      /\ UNCHANGED <<is_shutting_down, release_count, heap, held, call,
                     shutdown, shutdown_slot, shutdown_victim>>
  BY DEF RemoveScan, exit
<1> HIDE DEF s
<1>3. /\ bitfield' \in Bitfields
      /\ objects' \in [SlotIds -> store_object_t]
      /\ o \in Objects
      /\ objects'[s].object = NULL
      /\ \A x \in SlotIds : x # s => objects'[x] = objects[x]
      /\ HeldEntryStays' /\ RefCountExact' /\ TableConsistent'
  BY <1>1, <1>2, TakeKeepsTable
<1>4. \A x \in SlotIds : x # s => objects[x].object # o
  BY <1>1, <1>3, NullAssumption DEF IInv, TableConsistent
<1>5. /\ victim'[t] = o /\ \A x \in Threads : x # t => victim'[x] = victim[x]
      /\ o # NULL
      /\ \A x \in Threads : victim[x] # o
      /\ shutdown_victim # o
      /\ heap[o] = "live"
  BY <1>0, <1>1, <1>2, <1>3, NullAssumption DEF TypeOK, IInv, FreedOnce
<1>6. TypeOK'
  BY <1>0, <1>2, <1>3 DEF TypeOK, Return, Statuses
<1>7. ControlOK'
  BY <1>0, <1>1, <1>2, <1>5 DEF IInv, ControlOK, TypeOK
<1>8. FreedOnce'
  <2>1. \A x \in SlotIds : objects'[x].object # NULL => heap'[objects'[x].object] = "live"
    BY <1>2, <1>3 DEF IInv, FreedOnce
  <2>2. ASSUME NEW x \in Threads, victim'[x] # NULL
        PROVE  /\ heap'[victim'[x]] = "live"
               /\ \A y \in SlotIds : objects'[y].object # victim'[x]
               /\ \A x2 \in Threads \ {x} : victim'[x2] # victim'[x]
               /\ shutdown_victim' # victim'[x]
    <3>1. CASE x = t
      BY <1>2, <1>3, <1>4, <1>5, <3>1
    <3>2. CASE x # t
      <4>1. victim'[x] = victim[x] /\ victim[x] # NULL
        BY <1>5, <2>2, <3>2
      <4>2. \A y \in SlotIds : objects'[y].object # victim[x]
        BY <1>3, <4>1 DEF IInv, FreedOnce
      <4>3. \A x2 \in Threads \ {x} : victim'[x2] # victim[x]
        BY <1>5, <4>1 DEF IInv, FreedOnce
      <4>4. QED
        BY <1>2, <4>1, <4>2, <4>3 DEF IInv, FreedOnce
    <3>3. QED
      BY <3>1, <3>2
  <2>3. shutdown_victim' # NULL =>
          /\ heap'[shutdown_victim'] = "live"
          /\ \A x \in SlotIds : objects'[x].object # shutdown_victim'
    BY <1>2, <1>3 DEF IInv, FreedOnce
  <2>4. QED
    BY <2>1, <2>2, <2>3 DEF FreedOnce
<1>9. NothingLeaks'
  <2> SUFFICES ASSUME NEW p \in Objects, heap[p] = "live"
               PROVE  \/ \E x \in SlotIds : objects'[x].object = p
                      \/ \E x \in Threads : victim'[x] = p
                      \/ shutdown_victim = p
    BY <1>2 DEF NothingLeaks, Stored
  <2>1. CASE p = o
    BY <1>5, <2>1
  <2>2. CASE p # o
    BY <1>1, <1>3, <1>5, <2>2, NullAssumption DEF IInv, NothingLeaks, Stored
  <2>3. QED
    BY <2>1, <2>2
<1>10. ScannedEmpty'
  <2>1. shutdown = "free" => shutdown_slot \in SlotIds
    BY <1>0, SlotCountNat DEF IInv, ControlOK, SlotIds, TypeOK
  <2>2. QED
    BY <1>2, <1>3, <2>1 DEF IInv, ScannedEmpty
<1>11. ReleaseCountExact'
  <2>1. Releasing' = Releasing
    BY <1>0, <1>1, <1>2 DEF Releasing, TypeOK
  <2>2. QED
    BY <1>2, <2>1 DEF IInv, ReleaseCountExact, Releasing
<1>12. QED
  BY <1>3, <1>6, <1>7, <1>8, <1>9, <1>10, <1>11 DEF IInv

LEMMA RemoveUncountIInv ==
  ASSUME IInv, NEW t \in Threads, RemoveUncount(t)
  PROVE  IInv'
<1>0. TypeOK
  BY DEF IInv
<1>1. /\ pc[t] = "uncount"
      /\ release_count' = release_count - 1
      /\ pc' = [pc EXCEPT ![t] = IF victim[t] = NULL THEN "idle" ELSE "free"]
      /\ call' = [call EXCEPT ![t] = NULL]
      /\ UNCHANGED <<bitfield, objects, is_shutting_down, heap, held, victim, status,
                     shutdown, shutdown_slot, shutdown_victim>>
  BY DEF RemoveUncount, exit
<1>2. /\ Releasing' = Releasing \ {t} /\ t \in Releasing /\ Releasing \in SUBSET Threads
      /\ release_count = Cardinality(Releasing)
  BY <1>0, <1>1 DEF Releasing, TypeOK, IInv, ReleaseCountExact
<1>3. release_count' = Cardinality(Releasing') /\ release_count' \in Nat /\ release_count # 0
  <2>1. Cardinality(Releasing) \in Nat /\ Cardinality(Releasing) # 0
    BY <1>2, CountThreads
  <2>2. Cardinality(Releasing \ {t}) = Cardinality(Releasing) - 1
    BY <1>2, CountThreads
  <2>3. QED
    BY <1>1, <1>2, <2>1, <2>2
<1>4. TypeOK'
  BY <1>0, <1>1, <1>3 DEF TypeOK
<1>5. ControlOK'
  BY <1>0, <1>1 DEF IInv, ControlOK, TypeOK
<1>6. HeldEntryStays' /\ RefCountExact' /\ TableConsistent'
  BY <1>1, TableKept
<1>7. FreedOnce' /\ NothingLeaks' /\ ScannedEmpty'
  BY <1>1 DEF IInv, FreedOnce, NothingLeaks, Stored, ScannedEmpty
<1>8. ReleaseCountExact'
  BY <1>1, <1>3 DEF IInv, ReleaseCountExact, Releasing
<1>9. QED
  BY <1>4, <1>5, <1>6, <1>7, <1>8 DEF IInv

LEMMA RemoveFreeIInv ==
  ASSUME IInv, NEW t \in Threads, RemoveFree(t)
  PROVE  IInv'
<1> DEFINE o == victim[t]
<1>0. TypeOK
  BY DEF IInv
<1>1. /\ pc[t] = "free"
      /\ heap' = [heap EXCEPT ![o] = "free"]
      /\ victim' = [victim EXCEPT ![t] = NULL]
      /\ pc' = [pc EXCEPT ![t] = "idle"]
      /\ UNCHANGED <<bitfield, objects, is_shutting_down, release_count, held, call,
                     status, shutdown, shutdown_slot, shutdown_victim>>
  BY DEF RemoveFree, exit, table
<1>2. /\ o # NULL /\ o \in Objects
      /\ \A s \in SlotIds : objects[s].object # o
      /\ \A x \in Threads : x # t => victim[x] # o
      /\ shutdown_victim # o
  BY <1>0, <1>1 DEF IInv, ControlOK, FreedOnce, TypeOK
<1>3. /\ \A p \in Objects : p # o => heap'[p] = heap[p]
      /\ heap'[o] = "free"
      /\ heap' \in [Objects -> {"free", "live"}]
      /\ victim'[t] = NULL
      /\ \A x \in Threads : x # t => victim'[x] = victim[x]
  BY <1>0, <1>1, <1>2 DEF TypeOK
<1> HIDE DEF o
<1>4. TypeOK'
  BY <1>0, <1>1, <1>3 DEF TypeOK
<1>5. ControlOK'
  <2>1. held[t] = NULL
    BY <1>1 DEF IInv, ControlOK
  <2>2. QED
    BY <1>0, <1>1, <1>3 DEF IInv, ControlOK, TypeOK
<1>6. HeldEntryStays' /\ RefCountExact' /\ TableConsistent'
  BY <1>1, TableKept
<1>7. FreedOnce'
  <2>1. \A s \in SlotIds : objects[s].object # NULL => objects[s].object \in Objects
    BY <1>0 DEF TypeOK, store_object_t
  <2>2. \A x \in Threads : victim[x] # NULL => victim[x] \in Objects
    BY <1>0 DEF TypeOK
  <2>3. shutdown_victim # NULL => shutdown_victim \in Objects
    BY <1>0 DEF TypeOK
  <2>4. QED
    BY <1>1, <1>2, <1>3, <2>1, <2>2, <2>3 DEF IInv, FreedOnce
<1>8. NothingLeaks'
  BY <1>1, <1>2, <1>3, o \in Objects DEF IInv, NothingLeaks, Stored, o
<1>9. ScannedEmpty'
  BY <1>1 DEF IInv, ScannedEmpty
<1>10. ReleaseCountExact'
  <2>1. Releasing' = Releasing
    BY <1>0, <1>1 DEF Releasing, TypeOK
  <2>2. QED
    BY <1>1, <2>1 DEF IInv, ReleaseCountExact, Releasing
<1>11. QED
  BY <1>4, <1>5, <1>6, <1>7, <1>8, <1>9, <1>10 DEF IInv

LEMMA RemoveFreeWildIInv ==
  ASSUME IInv, NEW t \in Threads, RemoveFreeWild(t)
  PROVE  IInv'
<1>0. TypeOK
  BY DEF IInv
<1>1. /\ pc[t] = "free"
      /\ pc' = [pc EXCEPT ![t] = "wild"]
      /\ UNCHANGED <<bitfield, objects, is_shutting_down, release_count, heap, held,
                     call, victim, status, shutdown, shutdown_slot, shutdown_victim>>
  BY DEF RemoveFreeWild, exit, table
<1>2. TypeOK' /\ ControlOK'
  BY <1>0, <1>1 DEF TypeOK, IInv, ControlOK
<1>3. HeldEntryStays' /\ RefCountExact' /\ TableConsistent'
  BY <1>1, TableKept
<1>4. FreedOnce' /\ NothingLeaks' /\ ScannedEmpty'
  BY <1>1 DEF IInv, FreedOnce, NothingLeaks, Stored, ScannedEmpty
<1>5. ReleaseCountExact'
  <2>1. Releasing' = Releasing
    BY <1>0, <1>1 DEF Releasing, TypeOK
  <2>2. QED
    BY <1>1, <2>1 DEF IInv, ReleaseCountExact, Releasing
<1>6. QED
  BY <1>2, <1>3, <1>4, <1>5 DEF IInv

-----------------------------------------------------------------------------
(* The steps of shutdown that change only its own variables. *)
LEMMA ShutdownControlIInv ==
  ASSUME IInv, ShutdownBegin \/ ShutdownWait \/ ShutdownSkip \/ ShutdownDestroy
  PROVE  IInv'
<1>0. TypeOK
  BY DEF IInv
<1>1. UNCHANGED <<bitfield, objects, release_count, heap, held, pc, call, victim,
                  status, shutdown_victim>>
  BY DEF ShutdownBegin, ShutdownWait, ShutdownSkip, ShutdownDestroy, threads, table
<1>2. HeldEntryStays' /\ RefCountExact' /\ TableConsistent'
  BY <1>1, TableKept
<1>3. FreedOnce' /\ NothingLeaks'
  BY <1>1 DEF IInv, FreedOnce, NothingLeaks, Stored
<1>4. CASE ShutdownBegin
  <2>1. TypeOK' /\ ControlOK' /\ ScannedEmpty'
    BY <1>0, <1>1, <1>4 DEF TypeOK, IInv, ControlOK, ScannedEmpty, ShutdownBegin
  <2>2. ReleaseCountExact'
    BY <1>1, <1>4 DEF IInv, ReleaseCountExact, ShutdownBegin
  <2>3. QED
    BY <1>2, <1>3, <2>1, <2>2 DEF IInv
<1>5. CASE ShutdownWait
  <2>1. TypeOK' /\ ControlOK' /\ ScannedEmpty'
    BY <1>0, <1>1, <1>5 DEF TypeOK, IInv, ControlOK, ScannedEmpty, ShutdownWait, table
  <2>2. ReleaseCountExact'
    BY <1>1, <1>5 DEF IInv, ReleaseCountExact, ShutdownWait
  <2>3. QED
    BY <1>2, <1>3, <2>1, <2>2 DEF IInv
<1>6. CASE ShutdownSkip
  <2>0. /\ shutdown = "scan" /\ shutdown' = "scan"
        /\ shutdown_slot < SlotCount
        /\ objects[shutdown_slot].object = NULL
        /\ shutdown_slot' = shutdown_slot + 1
        /\ is_shutting_down' = is_shutting_down
    BY <1>6 DEF ShutdownSkip, table
  <2>1. TypeOK'
    BY <1>0, <1>1, <2>0, SlotCountNat DEF TypeOK
  <2>2. ControlOK'
    BY <1>1, <2>0 DEF IInv, ControlOK
  <2>3. ScannedEmpty'
    <3>1. \A s \in SlotIds : s < shutdown_slot + 1 => s < shutdown_slot \/ s = shutdown_slot
      BY <1>0, SlotCountNat DEF TypeOK, SlotIds
    <3>2. QED
      BY <1>1, <2>0, <3>1 DEF IInv, ScannedEmpty
  <2>4. ReleaseCountExact'
    BY <1>1, <2>0 DEF IInv, ReleaseCountExact
  <2>5. QED
    BY <1>2, <1>3, <2>1, <2>2, <2>3, <2>4 DEF IInv
<1>7. CASE ShutdownDestroy
  <2>1. TypeOK' /\ ControlOK' /\ ScannedEmpty'
    BY <1>0, <1>1, <1>7 DEF TypeOK, IInv, ControlOK, ScannedEmpty, ShutdownDestroy, table
  <2>2. ReleaseCountExact'
    BY <1>1, <1>7 DEF IInv, ReleaseCountExact, ShutdownDestroy
  <2>3. QED
    BY <1>2, <1>3, <2>1, <2>2 DEF IInv
<1>8. QED
  BY <1>4, <1>5, <1>6, <1>7

LEMMA ShutdownScanIInv ==
  ASSUME IInv, ShutdownScan
  PROVE  IInv'
<1> DEFINE s == shutdown_slot
           o == objects[s].object
<1>0. TypeOK
  BY DEF IInv
<1>1. /\ shutdown = "scan" /\ shutdown' = "free"
      /\ s < SlotCount
      /\ Removable(s) /\ TakeObject(s)
      /\ shutdown_victim' = o
      /\ UNCHANGED <<is_shutting_down, release_count, heap, held, pc, call, victim,
                     status, shutdown_slot>>
  BY DEF ShutdownScan, threads
<1>2. s \in SlotIds
  BY <1>0, <1>1, SlotCountNat DEF TypeOK, SlotIds
<1>3. /\ bitfield' \in Bitfields
      /\ objects' \in [SlotIds -> store_object_t]
      /\ o \in Objects
      /\ objects'[s].object = NULL
      /\ \A x \in SlotIds : x # s => objects'[x] = objects[x]
      /\ HeldEntryStays' /\ RefCountExact' /\ TableConsistent'
  BY <1>1, <1>2, TakeKeepsTable
<1>4. \A x \in SlotIds : x # s => objects[x].object # o
  BY <1>2, <1>3, NullAssumption DEF IInv, TableConsistent
<1>5. /\ o # NULL
      /\ \A x \in Threads : victim[x] # o
      /\ heap[o] = "live"
      /\ shutdown_victim = NULL
  BY <1>0, <1>1, <1>2, <1>3, NullAssumption DEF TypeOK, IInv, FreedOnce, ControlOK
<1>6. TypeOK'
  BY <1>0, <1>1, <1>3 DEF TypeOK
<1>7. ControlOK'
  BY <1>1, <1>5 DEF IInv, ControlOK
<1>8. FreedOnce'
  BY <1>1, <1>3, <1>4, <1>5 DEF IInv, FreedOnce
<1>9. NothingLeaks'
  <2> SUFFICES ASSUME NEW p \in Objects, heap[p] = "live"
               PROVE  \/ \E x \in SlotIds : objects'[x].object = p
                      \/ \E x \in Threads : victim[x] = p
                      \/ shutdown_victim' = p
    BY <1>1 DEF NothingLeaks, Stored
  <2>1. CASE p = o
    BY <1>1, <2>1
  <2>2. CASE p # o
    BY <1>2, <1>3, <1>5, <2>2, NullAssumption DEF IInv, NothingLeaks, Stored
  <2>3. QED
    BY <2>1, <2>2
<1>10. ScannedEmpty'
  BY <1>1, <1>2, <1>3 DEF IInv, ScannedEmpty
<1>11. ReleaseCountExact'
  BY <1>1 DEF IInv, ReleaseCountExact
<1>12. QED
  BY <1>3, <1>6, <1>7, <1>8, <1>9, <1>10, <1>11 DEF IInv

LEMMA ShutdownFreeIInv ==
  ASSUME IInv, ShutdownFree
  PROVE  IInv'
<1> DEFINE o == shutdown_victim
<1>0. TypeOK
  BY DEF IInv
<1>1. /\ shutdown = "free" /\ shutdown' = "scan"
      /\ heap' = [heap EXCEPT ![o] = "free"]
      /\ shutdown_victim' = NULL
      /\ shutdown_slot' = shutdown_slot + 1
      /\ UNCHANGED <<bitfield, objects, is_shutting_down, release_count, held, pc,
                     call, victim, status>>
  BY DEF ShutdownFree, threads, table
<1>2. /\ o # NULL /\ o \in Objects
      /\ \A s \in SlotIds : objects[s].object # o
      /\ \A x \in Threads : victim[x] # o
      /\ shutdown_slot < SlotCount /\ shutdown_slot \in Nat
      /\ objects[shutdown_slot].object = NULL
  BY <1>0, <1>1, SlotCountNat DEF IInv, ControlOK, FreedOnce, TypeOK, ScannedEmpty
<1>3. /\ \A p \in Objects : p # o => heap'[p] = heap[p]
      /\ heap'[o] = "free"
      /\ heap' \in [Objects -> {"free", "live"}]
  BY <1>0, <1>1, <1>2 DEF TypeOK
<1>4. TypeOK'
  BY <1>0, <1>1, <1>2, <1>3, SlotCountNat DEF TypeOK
<1>5. ControlOK'
  BY <1>1 DEF IInv, ControlOK
<1>6. HeldEntryStays' /\ RefCountExact' /\ TableConsistent'
  BY <1>1, TableKept
<1>7. FreedOnce'
  <2>1. \A s \in SlotIds : objects[s].object # NULL => objects[s].object \in Objects
    BY <1>0 DEF TypeOK, store_object_t
  <2>2. \A x \in Threads : victim[x] # NULL => victim[x] \in Objects
    BY <1>0 DEF TypeOK
  <2>3. QED
    BY <1>1, <1>2, <1>3, <2>1, <2>2 DEF IInv, FreedOnce
<1>8. NothingLeaks'
  BY <1>1, <1>2, <1>3 DEF IInv, NothingLeaks, Stored
<1>9. ScannedEmpty'
  <2>1. \A s \in SlotIds : s < shutdown_slot + 1 => s < shutdown_slot \/ s = shutdown_slot
    BY <1>2, SlotCountNat DEF SlotIds
  <2>2. QED
    BY <1>1, <1>2, <2>1 DEF IInv, ScannedEmpty
<1>10. ReleaseCountExact'
  BY <1>1 DEF IInv, ReleaseCountExact
<1>11. QED
  BY <1>4, <1>5, <1>6, <1>7, <1>8, <1>9, <1>10 DEF IInv

-----------------------------------------------------------------------------
(***************************************************************************)
(* IInv holds in every reachable state, for every finite set of threads    *)
(* and every number of slots.                                              *)
(***************************************************************************)
THEOREM Invariance == Spec => []IInv
<1>1. Init => IInv
  BY InitIInv
<1>2. IInv /\ [Next]_vars => IInv'
  <2> SUFFICES ASSUME IInv, [Next]_vars PROVE IInv'
    OBVIOUS
  <2>1. ASSUME NEW t \in Threads, NEW o \in Objects, AddFails(t, o)
        PROVE  IInv'
    BY <2>1, ReturnIInv DEF AddFails, Statuses
  <2>2. ASSUME NEW t \in Threads, NEW o \in Objects, NEW u \in Uuids, Add(t, o, u)
        PROVE  IInv'
    BY <2>2, AddIInv
  <2>3. ASSUME NEW t \in Threads, NEW s \in CallerSlots, NEW u \in Uuids,
               AcquireFails(t, s, u)
        PROVE  IInv'
    <3>1. AcquireStatus(s, u) \in Statuses
      BY DEF AcquireStatus, Statuses
    <3>2. QED
      BY <2>3, <3>1, ReturnIInv DEF AcquireFails
  <2>4. ASSUME NEW t \in Threads, NEW s \in CallerSlots, NEW u \in Uuids,
               Acquire(t, s, u)
        PROVE  IInv'
    BY <2>4, AcquireIInv
  <2>5. ASSUME NEW t \in Threads, Release(t)
        PROVE  IInv'
    BY <2>5, ReleaseIInv
  <2>6. ASSUME NEW t \in Threads, NEW s \in CallerSlots, RemoveRefused(t, s)
        PROVE  IInv'
    BY <2>6, ReturnIInv DEF RemoveRefused, Statuses
  <2>7. ASSUME NEW t \in Threads, NEW s \in SlotIds, NEW u \in Uuids,
               RemoveBegin(t, s, u)
        PROVE  IInv'
    BY <2>7, RemoveBeginIInv
  <2>8. ASSUME NEW t \in Threads, RemoveStep(t)
        PROVE  IInv'
    BY <2>8, RemoveScanFailsIInv, RemoveScanIInv, RemoveUncountIInv, RemoveFreeIInv,
       RemoveFreeWildIInv DEF RemoveStep
  <2>9. ASSUME ShutdownBegin \/ ShutdownStep
        PROVE  IInv'
    BY <2>9, ShutdownControlIInv, ShutdownScanIInv, ShutdownFreeIInv DEF ShutdownStep
  <2>10. CASE UNCHANGED vars
    <3>1. TypeOK' /\ ControlOK'
      BY <2>10 DEF IInv, TypeOK, ControlOK, vars
    <3>2. HeldEntryStays' /\ RefCountExact' /\ TableConsistent'
      BY <2>10, TableKept DEF vars
    <3>3. FreedOnce' /\ NothingLeaks' /\ ReleaseCountExact' /\ ScannedEmpty'
      BY <2>10 DEF IInv, FreedOnce, NothingLeaks, Stored, ReleaseCountExact,
         ScannedEmpty, vars
    <3>4. QED
      BY <3>1, <3>2, <3>3 DEF IInv
  <2>11. QED
    BY <2>1, <2>2, <2>3, <2>4, <2>5, <2>6, <2>7, <2>8, <2>9, <2>10
       DEF Next, ThreadStep, Terminated
<1>3. QED
  BY <1>1, <1>2, PTL DEF Spec

(***************************************************************************)
(* No object is freed while a handler holds a reference to it.             *)
(***************************************************************************)
THEOREM Safe == Spec => []NoUseAfterFree
<1>1. IInv => NoUseAfterFree
  <2> SUFFICES ASSUME IInv, NEW t \in Threads, held[t] # NULL
               PROVE  heap[held[t].object] = "live"
    BY DEF NoUseAfterFree
  <2>1. held[t].slot \in SlotIds /\ held[t].object # NULL
    BY NullAssumption DEF IInv, TypeOK, References
  <2>2. QED
    BY <2>1 DEF IInv, HeldEntryStays, FreedOnce
<1>2. QED
  BY <1>1, Invariance, PTL

(***************************************************************************)
(* The reference count of every entry is the number of its users.          *)
(***************************************************************************)
THEOREM Counts == Spec => []RefCountExact
<1>1. IInv => RefCountExact
  BY DEF IInv
<1>2. QED
  BY <1>1, Invariance, PTL

(***************************************************************************)
(* Whatever removals race, an object is freed by one of them, once.        *)
(***************************************************************************)
THEOREM NoDoubleFree == Spec => []FreedOnce
<1>1. IInv => FreedOnce
  BY DEF IInv
<1>2. QED
  BY <1>1, Invariance, PTL

(***************************************************************************)
(* A store is destroyed only when it is empty and nobody uses it.          *)
(***************************************************************************)
THEOREM CleanShutdown == Spec => []DestroyedEmpty
<1>1. IInv => DestroyedEmpty
  <2> SUFFICES ASSUME IInv, shutdown = "done"
               PROVE  /\ \A t \in Threads : held[t] = NULL
                      /\ \A s \in SlotIds : objects[s].object = NULL
    BY DEF DestroyedEmpty
  <2>1. \A s \in SlotIds : s < SlotCount
    BY SlotCountNat DEF SlotIds
  <2>2. \A s \in SlotIds : objects[s].object = NULL
    BY <2>1 DEF IInv, ScannedEmpty
  <2>3. ASSUME NEW t \in Threads, held[t] # NULL
        PROVE  FALSE
    <3>1. held[t].slot \in SlotIds /\ held[t].object # NULL
      BY <2>3, NullAssumption DEF IInv, TypeOK, References
    <3>2. QED
      BY <2>2, <2>3, <3>1 DEF IInv, HeldEntryStays
  <2>4. QED
    BY <2>2, <2>3
<1>2. QED
  BY <1>1, Invariance, PTL

(***************************************************************************)
(* The store uses the slot allocator as SlotsClient says: what it has been *)
(* given and has not freed are the slots of its objects.                   *)
(***************************************************************************)
LEMMA SameBlocks ==
  /\ SlotTable!Blocks = Blocks
  /\ SlotTable!Bits = Bits
  /\ SlotTable!SlotCount = SlotCount
  /\ SlotTable!SlotIds = SlotIds
BY DEF SlotTable!Blocks, Blocks, SlotTable!Bits, Bits, SlotTable!SlotCount, SlotCount,
       SlotTable!SlotIds, SlotIds

LEMMA SameInit == SlotTable!slots_init = slots_init
BY SameBlocks DEF SlotTable!slots_init, slots_init

LEMMA SameFree ==
  ASSUME NEW bf, NEW slot
  PROVE  SlotTable!slots_free(bf, slot) = slots_free(bf, slot)
BY SameBlocks
   DEF SlotTable!slots_free, slots_free, SlotTable!BLOCK_IDX, BLOCK_IDX,
       SlotTable!BLOCK_BITMASK, BLOCK_BITMASK, SlotTable!BLOCK_BIT, BLOCK_BIT

LEMMA SameFfs ==
  ASSUME NEW bits
  PROVE  SlotTable!ffs(bits) = ffs(bits)
BY DEF SlotTable!ffs, ffs

LEMMA SameAllocate ==
  ASSUME NEW bf
  PROVE  SlotTable!slots_allocate(bf) = slots_allocate(bf)
BY SameBlocks, SameFfs DEF SlotTable!slots_allocate, slots_allocate

LEMMA InitSlots == Init => SlotTable!Init
<1> SUFFICES ASSUME Init PROVE SlotTable!Init
  OBVIOUS
<1>1. {s \in SlotIds : objects[s].object # NULL} = {}
  BY DEF Init, EmptyEntry
<1>2. QED
  BY <1>1, SameInit DEF Init, SlotTable!Init

LEMMA AddUsesSlots ==
  ASSUME IInv, NEW t \in Threads, NEW o \in Objects, NEW u \in Uuids, Add(t, o, u)
  PROVE  SlotTable!Allocate
<1> DEFINE r == slots_allocate(bitfield)
<1>1. /\ bitfield \in Bitfields
      /\ objects \in [SlotIds -> store_object_t]
      /\ o # NULL
  BY NullAssumption DEF IInv, TypeOK
<1>2. r.slot # SLOT_INVALID /\ bitfield' = r.bitfield
  BY DEF Add
<1>3. r.slot \in SlotIds
  BY <1>1, <1>2, AllocateCorrect
<1>4. objects' = [objects EXCEPT ![r.slot] =
                   [object |-> o,
                    reference_count |-> objects[r.slot].reference_count,
                    owner_uuid |-> u]]
  BY DEF Add
<1> HIDE DEF r
<1>5. \A s \in SlotIds : objects'[s].object = IF s = r.slot THEN o ELSE objects[s].object
  BY <1>1, <1>3, <1>4
<1>6. {s \in SlotIds : objects'[s].object # NULL}
        = {s \in SlotIds : objects[s].object # NULL} \cup {r.slot}
  BY <1>1, <1>3, <1>5
<1>7. r = SlotTable!slots_allocate(bitfield)
  BY SameAllocate DEF r
<1>8. QED
  BY <1>2, <1>6, <1>7 DEF SlotTable!Allocate

LEMMA TakeFreesSlot ==
  ASSUME IInv, NEW s \in SlotIds, TakeObject(s)
  PROVE  SlotTable!Free(s)
<1>1. objects \in [SlotIds -> store_object_t]
  BY DEF IInv, TypeOK
<1>2. \A x \in SlotIds : objects'[x].object = IF x = s THEN NULL ELSE objects[x].object
  BY <1>1 DEF TakeObject, store_object_t
<1>3. {x \in SlotIds : objects'[x].object # NULL}
        = {x \in SlotIds : objects[x].object # NULL} \ {s}
  BY <1>2
<1>4. bitfield' = SlotTable!slots_free(bitfield, s)
  BY SameFree DEF TakeObject
<1>5. QED
  BY <1>3, <1>4 DEF SlotTable!Free

LEMMA ObjectsKept ==
  ASSUME IInv, [Next]_vars
  PROVE  \/ SlotTable!Next
         \/ UNCHANGED <<bitfield, {s \in SlotIds : objects[s].object # NULL}>>
<1> DEFINE stored == {s \in SlotIds : objects[s].object # NULL}
<1>1. objects \in [SlotIds -> store_object_t]
  BY DEF IInv, TypeOK
<1>2. ASSUME NEW s \in SlotIds, TakeObject(s)
      PROVE  SlotTable!Next
  BY <1>2, SameBlocks, TakeFreesSlot DEF SlotTable!Next
<1>3. ASSUME UNCHANGED <<bitfield, objects>>
      PROVE  UNCHANGED <<bitfield, stored>>
  BY <1>3
<1>4. ASSUME NEW t \in Threads, ThreadStep(t)
      PROVE  SlotTable!Next \/ UNCHANGED <<bitfield, stored>>
  <2>1. ASSUME NEW o \in Objects, NEW u \in Uuids, Add(t, o, u)
        PROVE  SlotTable!Next
    BY <2>1, AddUsesSlots DEF SlotTable!Next
  <2>2. ASSUME NEW s \in CallerSlots, NEW u \in Uuids, Acquire(t, s, u)
        PROVE  UNCHANGED <<bitfield, stored>>
    <3>1. objects' = [objects EXCEPT ![s].reference_count = @ + 1] /\ UNCHANGED bitfield
      BY <2>2 DEF Acquire
    <3>2. \A x \in SlotIds : objects'[x].object = objects[x].object
      BY <1>1, <3>1 DEF store_object_t
    <3>3. QED
      BY <3>1, <3>2
  <2>3. ASSUME Release(t)
        PROVE  UNCHANGED <<bitfield, stored>>
    <3>1. /\ \/ objects' = [objects EXCEPT ![held[t].slot].reference_count = @ - 1]
             \/ UNCHANGED objects
          /\ UNCHANGED bitfield
      BY <2>3 DEF Release
    <3>2. \A x \in SlotIds : objects'[x].object = objects[x].object
      BY <1>1, <3>1 DEF store_object_t
    <3>3. QED
      BY <3>1, <3>2
  <2>4. ASSUME RemoveScan(t)
        PROVE  SlotTable!Next
    <3>1. call[t].slot \in SlotIds
      BY <2>4, NullAssumption DEF RemoveScan, IInv, TypeOK, ControlOK, Calls
    <3>2. QED
      BY <1>2, <2>4, <3>1 DEF RemoveScan
  <2>5. ASSUME \/ \E o \in Objects : AddFails(t, o)
               \/ \E s \in CallerSlots, u \in Uuids : AcquireFails(t, s, u)
               \/ \E s \in CallerSlots : RemoveRefused(t, s)
               \/ \E s \in SlotIds, u \in Uuids : RemoveBegin(t, s, u)
               \/ RemoveScanFails(t) \/ RemoveUncount(t)
               \/ RemoveFree(t) \/ RemoveFreeWild(t)
        PROVE  UNCHANGED <<bitfield, objects>>
    BY <2>5 DEF AddFails, AcquireFails, RemoveRefused, RemoveBegin, RemoveScanFails,
                RemoveUncount, RemoveFree, RemoveFreeWild, table
  <2>6. QED
    BY <1>3, <1>4, <2>1, <2>2, <2>3, <2>4, <2>5 DEF ThreadStep, RemoveStep
<1>5. ASSUME ShutdownScan
      PROVE  SlotTable!Next
  <2>1. shutdown_slot \in SlotIds
    BY <1>5, SlotCountNat DEF ShutdownScan, IInv, TypeOK, SlotIds
  <2>2. QED
    BY <1>2, <1>5, <2>1 DEF ShutdownScan
<1>6. ASSUME \/ ShutdownBegin \/ ShutdownWait \/ ShutdownSkip \/ ShutdownFree
             \/ ShutdownDestroy \/ Terminated \/ UNCHANGED vars
      PROVE  UNCHANGED <<bitfield, objects>>
  BY <1>6 DEF ShutdownBegin, ShutdownWait, ShutdownSkip, ShutdownFree, ShutdownDestroy,
              Terminated, table, vars
<1>7. QED
  BY <1>3, <1>4, <1>5, <1>6 DEF Next, ShutdownStep

THEOREM UsesSlots == Spec => SlotsUsed
<1>1. IInv /\ [Next]_vars => [SlotTable!Next]_(SlotTable!vars)
  BY ObjectsKept DEF SlotTable!vars
<1>2. QED
  BY <1>1, InitSlots, Invariance, PTL DEF Spec, SlotsUsed, SlotTable!Spec

(***************************************************************************)
(* An object leaves its slot in two ways only.                             *)
(***************************************************************************)
\* While a removal waits its slot can be emptied and filled again, by any number
\* of threads: what it takes out in the end is an object of its own caller.
THEOREM OwnersRemove == Spec => RemovedByOwner
<1> DEFINE Leaves(s) ==
      objects[s].object # NULL /\ objects'[s].object # objects[s].object =>
        \/ shutdown = "scan" /\ shutdown_slot = s
        \/ \E t \in Threads :
             /\ pc[t] = "scan"
             /\ call[t].slot = s
             /\ call[t].uuid = objects[s].owner_uuid
             /\ victim'[t] = objects[s].object
<1>1. ASSUME IInv, Next PROVE \A s \in SlotIds : Leaves(s)
  <2>1. objects \in [SlotIds -> store_object_t] /\ DOMAIN victim = Threads
    BY <1>1 DEF IInv, TypeOK
  <2>2. ASSUME UNCHANGED objects PROVE \A s \in SlotIds : Leaves(s)
    BY <2>2
  <2>3. ASSUME NEW t \in Threads, ThreadStep(t) PROVE \A s \in SlotIds : Leaves(s)
    <3>1. ASSUME NEW o \in Objects, NEW u \in Uuids, Add(t, o, u)
          PROVE  \A s \in SlotIds : Leaves(s)
      <4> DEFINE slot == slots_allocate(bitfield).slot
      <4>1. slot \in SlotIds /\ slot \notin Allocated(bitfield)
        BY <1>1, <3>1, AllocateCorrect, SlotInvalidAssumption DEF Add, IInv, TypeOK
      <4>2. objects[slot].object = NULL
        BY <1>1, <4>1 DEF IInv, TableConsistent
      <4>3. objects' = [objects EXCEPT ![slot] =
                          [object |-> o, reference_count |-> objects[slot].reference_count,
                           owner_uuid |-> u]]
        BY <3>1 DEF Add
      <4> HIDE DEF slot
      <4>4. QED
        BY <2>1, <4>1, <4>2, <4>3
    <3>2. ASSUME NEW s \in CallerSlots, NEW u \in Uuids, Acquire(t, s, u)
          PROVE  \A x \in SlotIds : Leaves(x)
      <4>1. objects' = [objects EXCEPT ![s].reference_count = @ + 1]
        BY <3>2 DEF Acquire
      <4>2. \A x \in SlotIds : objects'[x].object = objects[x].object
        BY <2>1, <4>1 DEF store_object_t
      <4>3. QED
        BY <4>2
    <3>3. ASSUME Release(t) PROVE \A x \in SlotIds : Leaves(x)
      <4>1. \/ objects' = [objects EXCEPT ![held[t].slot].reference_count = @ - 1]
            \/ UNCHANGED objects
        BY <3>3 DEF Release
      <4>2. \A x \in SlotIds : objects'[x].object = objects[x].object
        BY <2>1, <4>1 DEF store_object_t
      <4>3. QED
        BY <4>2
    <3>4. ASSUME RemoveScan(t) PROVE \A x \in SlotIds : Leaves(x)
      <4>1. /\ objects' = [objects EXCEPT ![call[t].slot].object = NULL]
            /\ victim' = [victim EXCEPT ![t] = objects[call[t].slot].object]
            /\ objects[call[t].slot].owner_uuid = call[t].uuid /\ pc[t] = "scan"
        BY <3>4 DEF RemoveScan, TakeObject, OwnedBy
      <4>2. \A x \in SlotIds : x # call[t].slot => objects'[x].object = objects[x].object
        BY <2>1, <4>1
      <4>3. QED
        BY <2>1, <4>1, <4>2
    <3>5. ASSUME \/ \E o \in Objects : AddFails(t, o)
                 \/ \E s \in CallerSlots, u \in Uuids : AcquireFails(t, s, u)
                 \/ \E s \in CallerSlots : RemoveRefused(t, s)
                 \/ \E s \in SlotIds, u \in Uuids : RemoveBegin(t, s, u)
                 \/ RemoveScanFails(t) \/ RemoveUncount(t)
                 \/ RemoveFree(t) \/ RemoveFreeWild(t)
          PROVE  UNCHANGED objects
      BY <3>5 DEF AddFails, AcquireFails, RemoveRefused, RemoveBegin, RemoveScanFails,
                  RemoveUncount, RemoveFree, RemoveFreeWild, table
    <3>6. QED
      BY <2>2, <2>3, <3>1, <3>2, <3>3, <3>4, <3>5 DEF ThreadStep, RemoveStep
  <2>4. ASSUME ShutdownScan PROVE \A s \in SlotIds : Leaves(s)
    <3>1. /\ objects' = [objects EXCEPT ![shutdown_slot].object = NULL]
          /\ shutdown = "scan"
      BY <2>4 DEF ShutdownScan, TakeObject
    <3>2. \A x \in SlotIds : x # shutdown_slot => objects'[x].object = objects[x].object
      BY <2>1, <3>1
    <3>3. QED
      BY <3>1, <3>2
  <2>5. ASSUME \/ ShutdownBegin \/ ShutdownWait \/ ShutdownSkip \/ ShutdownFree
               \/ ShutdownDestroy \/ Terminated
        PROVE  UNCHANGED objects
    BY <2>5 DEF ShutdownBegin, ShutdownWait, ShutdownSkip, ShutdownFree, ShutdownDestroy,
                Terminated, table, vars
  <2>6. QED
    BY <1>1, <2>2, <2>3, <2>4, <2>5 DEF Next, ShutdownStep
<1>2. IInv /\ [Next]_vars => [\A s \in SlotIds : Leaves(s)]_vars
  BY <1>1
<1>3. QED
  BY <1>2, Invariance, PTL DEF Spec, RemovedByOwner

(***************************************************************************)
(* The store implements ObjectLifecycle.                                   *)
(***************************************************************************)
\* An object is in one slot, so its owner is that of the slot.
LEMMA OneEntry ==
  ASSUME NEW tab, NEW o \in Objects, NEW s \in SlotIds, tab[s].object = o,
         \A x, y \in SlotIds : tab[x].object # NULL /\ tab[x].object = tab[y].object => x = y
  PROVE  (CHOOSE x \in SlotIds : tab[x].object = o) = s
<1>1. tab[CHOOSE x \in SlotIds : tab[x].object = o].object = o
        /\ (CHOOSE x \in SlotIds : tab[x].object = o) \in SlotIds
  OBVIOUS
<1>2. o # NULL
  BY NullAssumption
<1>3. QED
  BY <1>1, <1>2

LEMMA OwnerIs ==
  ASSUME IInv, IInv'
  PROVE  /\ \A o \in Objects, s \in SlotIds :
              objects[s].object = o => ownerBar[o] = objects[s].owner_uuid
         /\ \A o \in Objects, s \in SlotIds :
              objects'[s].object = o => ownerBar'[o] = objects'[s].owner_uuid
<1>1. /\ \A x, y \in SlotIds :
           objects[x].object # NULL /\ objects[x].object = objects[y].object => x = y
      /\ \A x, y \in SlotIds :
           objects'[x].object # NULL /\ objects'[x].object = objects'[y].object => x = y
  BY DEF IInv, TableConsistent
<1>2. ASSUME NEW o \in Objects, NEW s \in SlotIds, objects[s].object = o
      PROVE  ownerBar[o] = objects[s].owner_uuid
  <2>1. (CHOOSE x \in SlotIds : objects[x].object = o) = s
    BY <1>1, <1>2, OneEntry
  <2>2. Stored(o)
    BY <1>2 DEF Stored
  <2>3. QED
    BY <2>1, <2>2 DEF ownerBar
<1>3. ASSUME NEW o \in Objects, NEW s \in SlotIds, objects'[s].object = o
      PROVE  ownerBar'[o] = objects'[s].owner_uuid
  <2>1. (CHOOSE x \in SlotIds : objects'[x].object = o) = s
    BY <1>1, <1>3, OneEntry
  <2>2. Stored(o)'
    BY <1>3 DEF Stored
  <2>3. QED
    BY <2>1, <2>2 DEF ownerBar
<1>4. QED
  BY <1>2, <1>3

\* The abstract state changes as the objects and owners of the entries, the
\* heap and the references do.
LEMMA SameLifecycle ==
  ASSUME IInv, IInv', UNCHANGED heap,
         \A s \in SlotIds : /\ objects'[s].object = objects[s].object
                            /\ objects'[s].owner_uuid = objects[s].owner_uuid
  PROVE  UNCHANGED <<lifeBar, ownerBar>>
<1>1. \A o \in Objects : Stored(o)' <=> Stored(o)
  BY DEF Stored
<1>2. lifeBar' = lifeBar
  BY <1>1 DEF lifeBar
<1>3. \A o \in Objects : ownerBar'[o] = ownerBar[o]
  <2>1. ASSUME NEW o \in Objects, Stored(o) PROVE ownerBar'[o] = ownerBar[o]
    BY <2>1, OwnerIs DEF Stored
  <2>2. ASSUME NEW o \in Objects, ~Stored(o) PROVE ownerBar'[o] = ownerBar[o]
    BY <1>1, <2>2 DEF ownerBar
  <2>3. QED
    BY <2>1, <2>2
<1>4. ownerBar' = ownerBar
  <2> DEFINE f == [o \in Objects |-> ownerBar'[o]]
  <2>1. ownerBar' = [o \in Objects |-> ownerBar'[o]] /\ ownerBar = [o \in Objects |-> ownerBar[o]]
    BY DEF ownerBar
  <2>2. QED
    BY <1>3, <2>1
<1>5. QED
  BY <1>2, <1>4

LEMMA AddStores ==
  ASSUME IInv, IInv', NEW t \in Threads, NEW o \in Objects, NEW u \in Uuids, Add(t, o, u)
  PROVE  Lifecycle!Store(o, u)
<1> DEFINE slot == slots_allocate(bitfield).slot
<1>0. /\ objects \in [SlotIds -> store_object_t] /\ heap \in [Objects -> {"free", "live"}]
      /\ o # NULL
  BY NullAssumption DEF IInv, TypeOK
<1>1. slot \in SlotIds /\ slot \notin Allocated(bitfield)
  BY AllocateCorrect, SlotInvalidAssumption DEF Add, IInv, TypeOK
<1>2. objects[slot].object = NULL
  BY <1>1 DEF IInv, TableConsistent
<1>3. /\ objects' = [objects EXCEPT ![slot] =
                       [object |-> o, reference_count |-> objects[slot].reference_count,
                        owner_uuid |-> u]]
      /\ heap' = [heap EXCEPT ![o] = "live"] /\ heap[o] = "free"
      /\ ~is_shutting_down /\ UNCHANGED <<is_shutting_down, held>>
  BY DEF Add
<1> HIDE DEF slot
<1>4. /\ objects'[slot].object = o /\ objects'[slot].owner_uuid = u
      /\ \A s \in SlotIds : s # slot => objects'[s] = objects[s]
  BY <1>0, <1>1, <1>3
<1>5. ~Stored(o)
  BY <1>0, <1>3 DEF Stored, IInv, FreedOnce
<1>6. Stored(o)' /\ \A x \in Objects \ {o} : Stored(x)' <=> Stored(x)
  <2>1. NULL \notin Objects
    BY NullAssumption
  <2>2. QED
    BY <1>1, <1>2, <1>4, <2>1 DEF Stored
<1>7. lifeBar[o] = "absent" /\ lifeBar' = [lifeBar EXCEPT ![o] = "stored"]
  <2>1. \A x \in Objects : lifeBar'[x] = IF x = o THEN "stored" ELSE lifeBar[x]
    BY <1>0, <1>3, <1>6 DEF lifeBar
  <2>2. lifeBar' = [x \in Objects |-> lifeBar'[x]] /\ lifeBar = [x \in Objects |-> lifeBar[x]]
    BY DEF lifeBar
  <2>3. lifeBar[o] = "absent"
    BY <1>3, <1>5 DEF lifeBar
  <2>4. QED
    BY <2>1, <2>2, <2>3
<1>8. ownerBar' = [ownerBar EXCEPT ![o] = u]
  <2>1. ownerBar'[o] = u
    BY <1>1, <1>4, OwnerIs
  <2>2. ASSUME NEW x \in Objects \ {o}, Stored(x) PROVE ownerBar'[x] = ownerBar[x]
    <3>1. PICK s \in SlotIds : objects[s].object = x
      BY <2>2 DEF Stored
    <3>2. s # slot
      BY <1>2, <3>1, NullAssumption
    <3>3. QED
      BY <1>4, <3>1, <3>2, OwnerIs
  <2>3. ASSUME NEW x \in Objects \ {o}, ~Stored(x) PROVE ownerBar'[x] = ownerBar[x]
    BY <1>6, <2>3 DEF ownerBar
  <2>4. \A x \in Objects : ownerBar'[x] = IF x = o THEN u ELSE ownerBar[x]
    BY <2>1, <2>2, <2>3
  <2>5. ownerBar' = [x \in Objects |-> ownerBar'[x]] /\ ownerBar = [x \in Objects |-> ownerBar[x]]
    BY DEF ownerBar
  <2>6. QED
    BY <2>4, <2>5
<1>9. usersBar' = usersBar
  BY <1>3 DEF usersBar
<1>10. QED
  BY <1>3, <1>7, <1>8, <1>9 DEF Lifecycle!Store

LEMMA AcquireUses ==
  ASSUME IInv, IInv', NEW t \in Threads, NEW s \in CallerSlots, NEW u \in Uuids,
         Acquire(t, s, u)
  PROVE  \E o \in Objects : Lifecycle!Use(t, o, u)
<1>0. /\ objects \in [SlotIds -> store_object_t] /\ DOMAIN held = Threads
      /\ NULL \notin References
  BY NullAssumption DEF IInv, TypeOK
<1>1. /\ s \in SlotIds /\ ~is_shutting_down /\ objects[s].object # NULL
      /\ objects[s].owner_uuid = u
  BY DEF Acquire, AcquireStatus, OwnedBy
<1> DEFINE ref == [slot |-> s, object |-> objects[s].object, uuid |-> u]
<1>2. PICK o \in Objects : o = objects[s].object
  BY <1>0, <1>1 DEF store_object_t
<1>3. /\ objects' = [objects EXCEPT ![s].reference_count = @ + 1]
      /\ held' = [held EXCEPT ![t] = ref] /\ held[t] = NULL
      /\ UNCHANGED <<heap, is_shutting_down>>
  BY DEF Acquire
<1>4. ref # NULL /\ ref.object = o
  BY <1>0, <1>1, <1>2 DEF References
<1> HIDE DEF ref
<1>5. \A x \in SlotIds : /\ objects'[x].object = objects[x].object
                         /\ objects'[x].owner_uuid = objects[x].owner_uuid
  BY <1>0, <1>3 DEF store_object_t
<1>6. lifeBar' = lifeBar /\ ownerBar' = ownerBar
  BY <1>3, <1>5, SameLifecycle
<1>7. lifeBar[o] = "stored" /\ ownerBar[o] = u
  BY <1>1, <1>2, OwnerIs DEF lifeBar, Stored
<1>8. usersBar' = [usersBar EXCEPT ![o] = @ \cup {t}]
  <2>1. \A x \in Objects : usersBar'[x] = IF x = o THEN usersBar[x] \cup {t} ELSE usersBar[x]
    BY <1>0, <1>3, <1>4 DEF usersBar
  <2>2. usersBar' = [x \in Objects |-> usersBar'[x]] /\ usersBar = [x \in Objects |-> usersBar[x]]
    BY DEF usersBar
  <2>3. QED
    BY <2>1, <2>2
<1>9. QED
  BY <1>1, <1>3, <1>6, <1>7, <1>8 DEF Lifecycle!Use

LEMMA ReleaseEndsUse ==
  ASSUME IInv, IInv', NEW t \in Threads, Release(t)
  PROVE  \E o \in Objects : Lifecycle!EndUse(t, o)
<1>0. /\ objects \in [SlotIds -> store_object_t] /\ DOMAIN held = Threads
  BY DEF IInv, TypeOK
<1>1. /\ held[t] # NULL /\ held' = [held EXCEPT ![t] = NULL]
      /\ UNCHANGED <<heap, is_shutting_down>>
      /\ \/ objects' = [objects EXCEPT ![held[t].slot].reference_count = @ - 1]
         \/ UNCHANGED objects
  BY DEF Release
<1>2. PICK o \in Objects : o = held[t].object
  BY <1>1 DEF IInv, TypeOK, References
<1>3. \A x \in SlotIds : /\ objects'[x].object = objects[x].object
                         /\ objects'[x].owner_uuid = objects[x].owner_uuid
  BY <1>0, <1>1 DEF store_object_t
<1>4. lifeBar' = lifeBar /\ ownerBar' = ownerBar
  BY <1>1, <1>3, SameLifecycle
<1>5. t \in usersBar[o]
  BY <1>1, <1>2 DEF usersBar
<1>6. usersBar' = [usersBar EXCEPT ![o] = @ \ {t}]
  <2>1. \A x \in Objects : usersBar'[x] = IF x = o THEN usersBar[x] \ {t} ELSE usersBar[x]
    BY <1>0, <1>1, <1>2 DEF usersBar
  <2>2. usersBar' = [x \in Objects |-> usersBar'[x]] /\ usersBar = [x \in Objects |-> usersBar[x]]
    BY DEF usersBar
  <2>3. QED
    BY <2>1, <2>2
<1>7. QED
  BY <1>1, <1>4, <1>5, <1>6 DEF Lifecycle!EndUse

\* An entry without references has no user: a reference is to the entry that
\* its object is in.
LEMMA TakeWithdraws ==
  ASSUME IInv, IInv', NEW s \in SlotIds, Removable(s), TakeObject(s),
         UNCHANGED <<heap, held, is_shutting_down>>
  PROVE  \E o \in Objects : Lifecycle!Withdraw(o)
<1>0. /\ objects \in [SlotIds -> store_object_t] /\ NULL \notin Objects
  BY NullAssumption DEF IInv, TypeOK
<1>1. PICK o \in Objects : o = objects[s].object
  BY <1>0 DEF Removable, store_object_t
<1>2. /\ objects'[s].object = NULL
      /\ \A x \in SlotIds : x # s => objects'[x] = objects[x]
  BY <1>0 DEF TakeObject, store_object_t
<1>3. \A x \in SlotIds : objects[x].object = o => x = s
  BY <1>0, <1>1 DEF IInv, TableConsistent
<1>4. Stored(o) /\ ~Stored(o)'
  BY <1>0, <1>1, <1>2, <1>3 DEF Stored
<1>5. \A x \in Objects \ {o} : Stored(x)' <=> Stored(x)
  BY <1>0, <1>1, <1>2 DEF Stored
<1>6. usersBar[o] = {}
  <2>1. Holders(s) = {}
    <3>1. Holders(s) \in SUBSET Threads /\ Cardinality(Holders(s)) = 0
      BY DEF Holders, Removable, IInv, RefCountExact
    <3>2. QED
      BY <3>1, CountThreads
  <2>2. ASSUME NEW t \in Threads, held[t] # NULL, held[t].object = o PROVE FALSE
    <3>1. held[t].slot \in SlotIds /\ objects[held[t].slot].object = o
      BY <2>2 DEF IInv, TypeOK, References, HeldEntryStays
    <3>2. t \in Holders(s)
      BY <1>3, <2>2, <3>1 DEF Holders
    <3>3. QED
      BY <2>1, <3>2
  <2>3. QED
    BY <2>2 DEF usersBar
<1>7. heap[o] = "live"
  BY <1>0, <1>1 DEF IInv, FreedOnce
<1>8. lifeBar[o] = "stored" /\ lifeBar' = [lifeBar EXCEPT ![o] = "withdrawn"]
  <2>1. \A x \in Objects : lifeBar'[x] = IF x = o THEN "withdrawn" ELSE lifeBar[x]
    BY <1>4, <1>5, <1>7 DEF lifeBar
  <2>2. lifeBar' = [x \in Objects |-> lifeBar'[x]] /\ lifeBar = [x \in Objects |-> lifeBar[x]]
    BY DEF lifeBar
  <2>3. lifeBar[o] = "stored"
    BY <1>4 DEF lifeBar
  <2>4. QED
    BY <2>1, <2>2, <2>3
<1>9. ownerBar' = [ownerBar EXCEPT ![o] = NULL]
  <2>1. ownerBar'[o] = NULL
    BY <1>4 DEF ownerBar
  <2>2. ASSUME NEW x \in Objects \ {o}, Stored(x) PROVE ownerBar'[x] = ownerBar[x]
    <3>1. PICK y \in SlotIds : objects[y].object = x
      BY <2>2 DEF Stored
    <3>2. y # s
      BY <1>1, <3>1
    <3>3. QED
      BY <1>2, <3>1, <3>2, OwnerIs
  <2>3. ASSUME NEW x \in Objects \ {o}, ~Stored(x) PROVE ownerBar'[x] = ownerBar[x]
    BY <1>5, <2>3 DEF ownerBar
  <2>4. \A x \in Objects : ownerBar'[x] = IF x = o THEN NULL ELSE ownerBar[x]
    BY <2>1, <2>2, <2>3
  <2>5. ownerBar' = [x \in Objects |-> ownerBar'[x]] /\ ownerBar = [x \in Objects |-> ownerBar[x]]
    BY DEF ownerBar
  <2>6. QED
    BY <2>4, <2>5
<1>10. usersBar' = usersBar
  BY DEF usersBar
<1>11. QED
  BY <1>6, <1>8, <1>9, <1>10 DEF Lifecycle!Withdraw

LEMMA FreeDeletes ==
  ASSUME IInv, IInv', NEW o \in Objects, heap[o] = "live", ~Stored(o),
         heap' = [heap EXCEPT ![o] = "free"], UNCHANGED <<objects, held, is_shutting_down>>
  PROVE  Lifecycle!Delete(o)
<1>0. heap \in [Objects -> {"free", "live"}]
  BY DEF IInv, TypeOK
<1>1. \A x \in Objects : Stored(x)' <=> Stored(x)
  BY DEF Stored
<1>2. lifeBar[o] = "withdrawn" /\ lifeBar' = [lifeBar EXCEPT ![o] = "absent"]
  <2>1. \A x \in Objects : lifeBar'[x] = IF x = o THEN "absent" ELSE lifeBar[x]
    BY <1>0, <1>1 DEF lifeBar
  <2>2. lifeBar' = [x \in Objects |-> lifeBar'[x]] /\ lifeBar = [x \in Objects |-> lifeBar[x]]
    BY DEF lifeBar
  <2>3. lifeBar[o] = "withdrawn"
    BY DEF lifeBar
  <2>4. QED
    BY <2>1, <2>2, <2>3
<1>3. ownerBar' = ownerBar /\ usersBar' = usersBar
  BY DEF ownerBar, usersBar, Stored
<1>4. QED
  BY <1>2, <1>3 DEF Lifecycle!Delete

LEMMA StepLifecycle ==
  ASSUME IInv, IInv', [Next]_vars
  PROVE  Lifecycle!Next \/ UNCHANGED <<lifeBar, ownerBar, usersBar, is_shutting_down>>
<1> DEFINE same == UNCHANGED <<lifeBar, ownerBar, usersBar, is_shutting_down>>
<1>0. NULL \notin Objects
  BY NullAssumption
<1>1. ASSUME UNCHANGED <<objects, heap, held, is_shutting_down>> PROVE same
  BY <1>1 DEF lifeBar, ownerBar, usersBar, Stored
<1>2. ASSUME NEW t \in Threads, ThreadStep(t) PROVE Lifecycle!Next \/ same
  <2>1. ASSUME NEW o \in Objects, NEW u \in Uuids, Add(t, o, u) PROVE Lifecycle!Next
    BY <2>1, AddStores DEF Lifecycle!Next
  <2>2. ASSUME NEW s \in CallerSlots, NEW u \in Uuids, Acquire(t, s, u) PROVE Lifecycle!Next
    BY <2>2, AcquireUses DEF Lifecycle!Next
  <2>3. ASSUME Release(t) PROVE Lifecycle!Next
    BY <2>3, ReleaseEndsUse DEF Lifecycle!Next
  <2>4. ASSUME RemoveScan(t) PROVE Lifecycle!Next
    <3>1. call[t].slot \in SlotIds
      BY <2>4, NullAssumption DEF RemoveScan, IInv, TypeOK, ControlOK, Calls
    <3>2. /\ Removable(call[t].slot) /\ TakeObject(call[t].slot)
          /\ UNCHANGED <<heap, held, is_shutting_down>>
      BY <2>4 DEF RemoveScan
    <3>3. PICK s \in SlotIds : s = call[t].slot
      BY <3>1
    <3>4. \E o \in Objects : Lifecycle!Withdraw(o)
      BY <3>2, <3>3, TakeWithdraws
    <3>5. QED
      BY <3>4 DEF Lifecycle!Next
  <2>5. ASSUME RemoveFree(t) PROVE Lifecycle!Next
    <3>1. victim[t] \in Objects /\ victim[t] # NULL
      BY <2>5 DEF RemoveFree, IInv, TypeOK, ControlOK
    <3>2. PICK o \in Objects : o = victim[t]
      BY <3>1
    <3>3. heap[o] = "live" /\ ~Stored(o)
      BY <3>1, <3>2 DEF IInv, FreedOnce, Stored
    <3>4. heap' = [heap EXCEPT ![o] = "free"] /\ UNCHANGED <<objects, held, is_shutting_down>>
      BY <2>5, <3>2 DEF RemoveFree, table
    <3>5. QED
      BY <3>3, <3>4, FreeDeletes DEF Lifecycle!Next
  <2>6. ASSUME \/ \E o \in Objects : AddFails(t, o)
               \/ \E s \in CallerSlots, u \in Uuids : AcquireFails(t, s, u)
               \/ \E s \in CallerSlots : RemoveRefused(t, s)
               \/ \E s \in SlotIds, u \in Uuids : RemoveBegin(t, s, u)
               \/ RemoveScanFails(t) \/ RemoveUncount(t) \/ RemoveFreeWild(t)
        PROVE  UNCHANGED <<objects, heap, held, is_shutting_down>>
    BY <2>6 DEF AddFails, AcquireFails, RemoveRefused, RemoveBegin, RemoveScanFails,
                RemoveUncount, RemoveFreeWild, table
  <2>7. QED
    BY <1>1, <1>2, <2>1, <2>2, <2>3, <2>4, <2>5, <2>6 DEF ThreadStep, RemoveStep
<1>3. ASSUME ShutdownBegin PROVE Lifecycle!Next
  <2>1. ~is_shutting_down /\ is_shutting_down' = TRUE /\ UNCHANGED <<objects, heap, held>>
    BY <1>3 DEF ShutdownBegin, IInv, ControlOK, threads
  <2>2. UNCHANGED <<lifeBar, ownerBar, usersBar>>
    BY <2>1 DEF lifeBar, ownerBar, usersBar, Stored
  <2>3. QED
    BY <2>1, <2>2 DEF Lifecycle!Next, Lifecycle!Close
<1>4. ASSUME ShutdownScan PROVE Lifecycle!Next
  <2>1. shutdown_slot \in SlotIds
    BY <1>4, SlotCountNat DEF ShutdownScan, IInv, TypeOK, SlotIds
  <2>2. /\ Removable(shutdown_slot) /\ TakeObject(shutdown_slot)
        /\ UNCHANGED <<heap, held, is_shutting_down>>
    BY <1>4 DEF ShutdownScan, threads
  <2>3. PICK s \in SlotIds : s = shutdown_slot
    BY <2>1
  <2>4. \E o \in Objects : Lifecycle!Withdraw(o)
    BY <2>2, <2>3, TakeWithdraws
  <2>5. QED
    BY <2>4 DEF Lifecycle!Next
<1>5. ASSUME ShutdownFree PROVE Lifecycle!Next
  <2>1. shutdown_victim \in Objects /\ shutdown_victim # NULL
    BY <1>5 DEF ShutdownFree, IInv, TypeOK, ControlOK
  <2>2. PICK o \in Objects : o = shutdown_victim
    BY <2>1
  <2>3. heap[o] = "live" /\ ~Stored(o)
    BY <2>1, <2>2 DEF IInv, FreedOnce, Stored
  <2>4. heap' = [heap EXCEPT ![o] = "free"] /\ UNCHANGED <<objects, held, is_shutting_down>>
    BY <1>5, <2>2 DEF ShutdownFree, table, threads
  <2>5. QED
    BY <2>3, <2>4, FreeDeletes DEF Lifecycle!Next
<1>6. ASSUME \/ ShutdownWait \/ ShutdownSkip \/ ShutdownDestroy \/ Terminated \/ UNCHANGED vars
      PROVE  UNCHANGED <<objects, heap, held, is_shutting_down>>
  BY <1>6 DEF ShutdownWait, ShutdownSkip, ShutdownDestroy, Terminated, table, threads, vars
<1>7. QED
  BY <1>1, <1>2, <1>3, <1>4, <1>5, <1>6 DEF Next, ShutdownStep

\* The promise of object_store.h: an object is used only by its owner and only
\* while it is stored, and is withdrawn and deleted only when nobody uses it, for
\* any threads, owners, objects and slots, shutdown at any time included.
THEOREM ImplementsLifecycle == Spec => LifecycleSpec
<1>1. Init => Lifecycle!Init
  <2> SUFFICES ASSUME Init PROVE Lifecycle!Init
    OBVIOUS
  <2>1. \A o \in Objects : ~Stored(o)
    BY NullAssumption DEF Init, EmptyEntry, Stored
  <2>2. QED
    BY <2>1 DEF Init, Lifecycle!Init, lifeBar, ownerBar, usersBar
<1>2. IInv /\ IInv' /\ [Next]_vars => [Lifecycle!Next]_(Lifecycle!vars)
  BY StepLifecycle DEF Lifecycle!vars
<1>3. QED
  BY <1>1, <1>2, Invariance, PTL DEF Spec, LifecycleSpec, Lifecycle!Spec
=============================================================================
