--------------------------- MODULE SvpStoreProofs ---------------------------
(***************************************************************************)
(* Proofs about SvpStore, for every finite set of threads and any buffers  *)
(* and memory: locked buffers are stored, work is exclusive, and memory    *)
(* that was handed back is not reached any more.                           *)
(***************************************************************************)
EXTENDS SvpStore, FiniteSetTheorems, TLAPS

\* The steps that name no prover: SMT first, then Zenon, with time to spare.
USE SMTT(60), ZenonT(60)

(* A set of threads that grows or shrinks by one. *)
LEMMA CountThreads ==
  ASSUME NEW S \in SUBSET Threads, NEW t \in Threads
  PROVE  /\ Cardinality(S) \in Nat
         /\ t \notin S => Cardinality(S \cup {t}) = Cardinality(S) + 1
         /\ t \in S => Cardinality(S \ {t}) = Cardinality(S) - 1
<1>1. IsFiniteSet(S)
  BY ThreadsAssumption, FS_Subset
<1>2. QED
  BY <1>1, FS_CardinalityType, FS_AddElement, FS_RemoveElement

(* A set of handles that grows by one at most, or shrinks by one at most. *)
LEMMA CountHandles ==
  ASSUME NEW S \in SUBSET Handles, NEW R \in SUBSET Handles, NEW h \in Handles
  PROVE  /\ Cardinality(S) \in Nat /\ Cardinality(R) \in Nat
         /\ S \subseteq R => Cardinality(S) <= Cardinality(R)
         /\ S \subseteq R \cup {h} => Cardinality(S) <= Cardinality(R) + 1
         /\ h \notin S => Cardinality(S \cup {h}) = Cardinality(S) + 1
         /\ h \in S => Cardinality(S \ {h}) = Cardinality(S) - 1
<1>1. IsFiniteSet(S) /\ IsFiniteSet(R) /\ IsFiniteSet(R \cup {h})
  BY HandlesAssumption, FS_Subset
<1>2. Cardinality(S) \in Nat /\ Cardinality(R) \in Nat
  BY <1>1, FS_CardinalityType
<1>3. Cardinality(R \cup {h}) <= Cardinality(R) + 1
  <2>1. CASE h \in R
    <3>1. R \cup {h} = R
      BY <2>1
    <3>2. Cardinality(R \cup {h}) = Cardinality(R)
      BY <3>1
    <3>3. QED
      BY <1>2, <3>2
  <2>2. CASE h \notin R
    BY <1>1, <1>2, <2>2, FS_AddElement
  <2>3. QED
    BY <2>1, <2>2
<1>4. S \subseteq R => Cardinality(S) <= Cardinality(R)
  BY <1>1, FS_Subset
<1>5. S \subseteq R \cup {h} => Cardinality(S) <= Cardinality(R \cup {h})
  BY <1>1, FS_Subset
<1>6. Cardinality(R \cup {h}) \in Nat
  BY <1>1, FS_CardinalityType
<1>7. S \subseteq R \cup {h} => Cardinality(S) <= Cardinality(R) + 1
  BY <1>2, <1>3, <1>5, <1>6
<1>8. /\ h \notin S => Cardinality(S \cup {h}) = Cardinality(S) + 1
      /\ h \in S => Cardinality(S \ {h}) = Cardinality(S) - 1
  BY <1>1, FS_AddElement, FS_RemoveElement
<1>9. QED
  BY <1>2, <1>4, <1>7, <1>8

\* A step of t leaves the calls of the other threads alone.
StepOf(t) ==
  \A u \in Threads \ {t} :
    pc'[u] = pc[u] /\ op'[u] = op[u] /\ out'[u] = out[u] /\ in'[u] = in[u]

(* A thread that waits for no mutex before and after its step changes no count. *)
LEMMA SameWaiting ==
  ASSUME NEW t \in Threads, StepOf(t), NEW h \in Handles,
         pc[t] \notin {"lock_out", "lock_in"}, pc'[t] \notin {"lock_out", "lock_in"}
  PROVE  Waiting(h)' = Waiting(h)
BY DEF StepOf, Waiting

(* Steps that touch neither references nor mutexes. *)
LEMMA FrameIInv ==
  ASSUME IInv, NEW t \in Threads, StepOf(t),
         UNCHANGED <<refs, owner, depth>>,
         pc[t] \notin {"lock_out", "lock_in"}, pc'[t] \notin {"lock_out", "lock_in"},
         \A h \in Handles : Locks(t, h)' = 0 \/ Locks(t, h)' = Locks(t, h)
  PROVE  LocksHeld' /\ RefsCounted'
<1>1. \A h \in Handles : Waiting(h)' = Waiting(h)
  BY SameWaiting
<1>2. \A u \in Threads \ {t}, h \in Handles : Locks(u, h)' = Locks(u, h)
  BY DEF StepOf, Locks, HasOut, HasIn
<1>3. LocksHeld'
  BY <1>2 DEF IInv, LocksHeld
<1>4. RefsCounted'
  BY <1>1 DEF IInv, RefsCounted
<1>5. QED
  BY <1>3, <1>4

LEMMA InitIInv == Init => IInv
<1> SUFFICES ASSUME Init PROVE IInv
  OBVIOUS
<1>1. TypeOK
  BY DEF Init, TypeOK, Points
<1>2. ControlOK /\ ReferredIsStored
  BY DEF Init, ControlOK, ReferredIsStored
<1>3. LocksHeld
  BY DEF Init, LocksHeld, Locks, HasOut, HasIn
<1>4. RefsCounted
  <2>1. \A h \in Handles : Waiting(h) = {}
    BY DEF Init, Waiting
  <2>2. QED
    BY <2>1, FS_EmptySet DEF Init, RefsCounted
<1>5. NoWriteAfterReturn
  <2>1. \A r \in Regions : Reaching(r) = {}
    BY NullAssumption DEF Init, Reaching
  <2>2. QED
    BY <2>1, FS_EmptySet DEF Init, NoWriteAfterReturn
<1>6. QED
  BY <1>1, <1>2, <1>3, <1>4, <1>5 DEF IInv

-----------------------------------------------------------------------------
(* Every action preserves IInv. *)

LEMMA CreateIInv ==
  ASSUME IInv, UNCHANGED careful, NEW t \in Threads, NEW h \in Handles, NEW r \in Regions,
         Create(t, h, r)
  PROVE  IInv'
<1> USE NullAssumption, ValidAssumption DEF Create, Goto, CreatedBuffer
<1>1. TypeOK'
  BY DEF IInv, TypeOK, ControlOK, Ops, Points
<1>2. ControlOK'
  BY DEF IInv, TypeOK, ControlOK, Ops
<1>3. LocksHeld' /\ RefsCounted'
  <2>1. StepOf(t)
    BY DEF IInv, TypeOK, StepOf
  <2>2. pc[t] \notin {"lock_out", "lock_in"} /\ pc'[t] \notin {"lock_out", "lock_in"}
    BY DEF IInv, TypeOK
  <2>3. \A h1 \in Handles : Locks(t, h1)' = 0 \/ Locks(t, h1)' = Locks(t, h1)
    BY DEF IInv, TypeOK, ControlOK, Locks, HasOut, HasIn
  <2>4. UNCHANGED <<refs, owner, depth>>
    BY DEF entries
  <2>5. QED
    BY <2>1, <2>2, <2>3, <2>4, FrameIInv
<1>4. ReferredIsStored'
  BY DEF IInv, TypeOK, ReferredIsStored
<1>5. NoWriteAfterReturn'
  <2> SUFFICES ASSUME NEW q \in Regions PROVE Cardinality(Reaching(q)') <= lent'[q]
    BY DEF NoWriteAfterReturn
  <2>1. Reaching(q) \in SUBSET Handles /\ Reaching(q)' \in SUBSET Handles
    BY DEF Reaching
  <2>2. Cardinality(Reaching(q)) <= lent[q] /\ lent[q] \in Nat
    BY DEF IInv, TypeOK, NoWriteAfterReturn
  <2>3. /\ Cardinality(Reaching(q)) \in Nat /\ Cardinality(Reaching(q)') \in Nat
        /\ Reaching(q)' \subseteq Reaching(q) => Cardinality(Reaching(q)') <= Cardinality(Reaching(q))
        /\ Reaching(q)' \subseteq Reaching(q) \cup {h} =>
             Cardinality(Reaching(q)') <= Cardinality(Reaching(q)) + 1
    <3> DEFINE A == Reaching(q)'
               B == Reaching(q)
    <3> HIDE DEF A, B
    <3>1. A \in SUBSET Handles /\ B \in SUBSET Handles
      BY <2>1 DEF A, B
    <3>2. /\ Cardinality(B) \in Nat /\ Cardinality(A) \in Nat
          /\ A \subseteq B => Cardinality(A) <= Cardinality(B)
          /\ A \subseteq B \cup {h} => Cardinality(A) <= Cardinality(B) + 1
      BY <3>1, CountHandles
    <3>3. QED
      BY <3>2 DEF A, B
  <2>4. CASE q = r
    <3>1. Reaching(q)' \subseteq Reaching(q) \cup {h} /\ lent'[q] = lent[q] + 1
      BY <2>4 DEF IInv, TypeOK, Reaching
    <3>2. QED
      BY <2>2, <2>3, <3>1
  <2>5. CASE q # r
    <3>1. Reaching(q)' \subseteq Reaching(q) /\ lent'[q] = lent[q]
      BY <2>5 DEF IInv, TypeOK, Reaching
    <3>2. QED
      BY <2>2, <2>3, <3>1
  <2>6. QED
    BY <2>4, <2>5
<1>6. QED
  BY <1>1, <1>2, <1>3, <1>4, <1>5 DEF IInv

LEMMA CreateFailsIInv ==
  ASSUME IInv, UNCHANGED careful, NEW t \in Threads,
         CreateFails(t)
  PROVE  IInv'
<1> USE NullAssumption, ValidAssumption DEF CreateFails, Goto, entries
<1>1. TypeOK'
  BY DEF IInv, TypeOK, ControlOK, Ops, Points
<1>2. ControlOK'
  BY DEF IInv, TypeOK, ControlOK, Ops
<1>3. LocksHeld' /\ RefsCounted'
  <2>1. StepOf(t)
    BY DEF IInv, TypeOK, StepOf
  <2>2. pc[t] \notin {"lock_out", "lock_in"} /\ pc'[t] \notin {"lock_out", "lock_in"}
    BY DEF IInv, TypeOK
  <2>3. \A h1 \in Handles : Locks(t, h1)' = 0 \/ Locks(t, h1)' = Locks(t, h1)
    BY DEF IInv, TypeOK, ControlOK, Locks, HasOut, HasIn
  <2>4. UNCHANGED <<refs, owner, depth>>
    BY DEF entries
  <2>5. QED
    BY <2>1, <2>2, <2>3, <2>4, FrameIInv
<1>4. ReferredIsStored'
  BY DEF IInv, ReferredIsStored, entries
<1>5. NoWriteAfterReturn'
  BY DEF IInv, NoWriteAfterReturn, Reaching, entries
<1>6. QED
  BY <1>1, <1>2, <1>3, <1>4, <1>5 DEF IInv

LEMMA RefusedIInv ==
  ASSUME IInv, UNCHANGED careful, NEW t \in Threads,
         Refused(t)
  PROVE  IInv'
<1> USE NullAssumption, ValidAssumption DEF Refused, Goto, entries
<1>1. TypeOK'
  BY DEF IInv, TypeOK, ControlOK, Ops, Points
<1>2. ControlOK'
  BY DEF IInv, TypeOK, ControlOK, Ops
<1>3. LocksHeld' /\ RefsCounted'
  <2>1. StepOf(t)
    BY DEF IInv, TypeOK, StepOf
  <2>2. pc[t] \notin {"lock_out", "lock_in"} /\ pc'[t] \notin {"lock_out", "lock_in"}
    BY DEF IInv, TypeOK
  <2>3. \A h1 \in Handles : Locks(t, h1)' = 0 \/ Locks(t, h1)' = Locks(t, h1)
    BY DEF IInv, TypeOK, ControlOK, Locks, HasOut, HasIn
  <2>4. UNCHANGED <<refs, owner, depth>>
    BY DEF entries
  <2>5. QED
    BY <2>1, <2>2, <2>3, <2>4, FrameIInv
<1>4. ReferredIsStored'
  BY DEF IInv, ReferredIsStored, entries
<1>5. NoWriteAfterReturn'
  BY DEF IInv, NoWriteAfterReturn, Reaching, entries
<1>6. QED
  BY <1>1, <1>2, <1>3, <1>4, <1>5 DEF IInv

LEMMA BeginIInv ==
  ASSUME IInv, UNCHANGED careful, NEW t \in Threads, NEW o \in Ops, NEW h1 \in Handles, NEW h2 \in Handles,
         o # "copy" => h2 = h1, Begin(t, o, h1, h2)
  PROVE  IInv'
<1> USE NullAssumption, ValidAssumption DEF Begin, Goto, MayCall, entries
<1>1. TypeOK'
  BY DEF IInv, TypeOK, ControlOK, Ops, Points
<1>2. ControlOK'
  BY DEF IInv, TypeOK, ControlOK, Ops
<1>3. LocksHeld' /\ RefsCounted'
  <2>1. StepOf(t)
    BY DEF IInv, TypeOK, StepOf
  <2>2. pc[t] \notin {"lock_out", "lock_in"} /\ pc'[t] \notin {"lock_out", "lock_in"}
    BY DEF IInv, TypeOK
  <2>3. \A h \in Handles : Locks(t, h)' = 0 \/ Locks(t, h)' = Locks(t, h)
    BY DEF IInv, TypeOK, ControlOK, Locks, HasOut, HasIn
  <2>4. UNCHANGED <<refs, owner, depth>>
    BY DEF entries
  <2>5. QED
    BY <2>1, <2>2, <2>3, <2>4, FrameIInv
<1>4. ReferredIsStored'
  BY DEF IInv, ReferredIsStored, entries
<1>5. NoWriteAfterReturn'
  BY DEF IInv, NoWriteAfterReturn, Reaching, entries
<1>6. QED
  BY <1>1, <1>2, <1>3, <1>4, <1>5 DEF IInv

LEMMA RefOutFailsIInv ==
  ASSUME IInv, UNCHANGED careful, NEW t \in Threads,
         RefOutFails(t)
  PROVE  IInv'
<1> USE NullAssumption, ValidAssumption DEF RefOutFails, Goto, Finish, entries
<1>1. TypeOK'
  BY DEF IInv, TypeOK, ControlOK, Ops, Points
<1>2. ControlOK'
  BY DEF IInv, TypeOK, ControlOK, Ops
<1>3. LocksHeld' /\ RefsCounted'
  <2>1. StepOf(t)
    BY DEF IInv, TypeOK, StepOf
  <2>2. pc[t] \notin {"lock_out", "lock_in"} /\ pc'[t] \notin {"lock_out", "lock_in"}
    BY DEF IInv, TypeOK
  <2>3. \A h1 \in Handles : Locks(t, h1)' = 0 \/ Locks(t, h1)' = Locks(t, h1)
    BY DEF IInv, TypeOK, ControlOK, Locks, HasOut, HasIn
  <2>4. UNCHANGED <<refs, owner, depth>>
    BY DEF entries
  <2>5. QED
    BY <2>1, <2>2, <2>3, <2>4, FrameIInv
<1>4. ReferredIsStored'
  BY DEF IInv, ReferredIsStored, entries
<1>5. NoWriteAfterReturn'
  BY DEF IInv, NoWriteAfterReturn, Reaching, entries
<1>6. QED
  BY <1>1, <1>2, <1>3, <1>4, <1>5 DEF IInv

LEMMA RefInFailsIInv ==
  ASSUME IInv, UNCHANGED careful, NEW t \in Threads,
         RefInFails(t)
  PROVE  IInv'
<1> USE NullAssumption, ValidAssumption DEF RefInFails, Goto, Finish, entries
<1>1. TypeOK'
  BY DEF IInv, TypeOK, ControlOK, Ops, Points
<1>2. ControlOK'
  BY DEF IInv, TypeOK, ControlOK, Ops
<1>3. LocksHeld' /\ RefsCounted'
  <2>1. StepOf(t)
    BY DEF IInv, TypeOK, StepOf
  <2>2. pc[t] \notin {"lock_out", "lock_in"} /\ pc'[t] \notin {"lock_out", "lock_in"}
    BY DEF IInv, TypeOK
  <2>3. \A h1 \in Handles : Locks(t, h1)' = 0 \/ Locks(t, h1)' = Locks(t, h1)
    BY DEF IInv, TypeOK, ControlOK, Locks, HasOut, HasIn
  <2>4. UNCHANGED <<refs, owner, depth>>
    BY DEF entries
  <2>5. QED
    BY <2>1, <2>2, <2>3, <2>4, FrameIInv
<1>4. ReferredIsStored'
  BY DEF IInv, ReferredIsStored, entries
<1>5. NoWriteAfterReturn'
  BY DEF IInv, NoWriteAfterReturn, Reaching, entries
<1>6. QED
  BY <1>1, <1>2, <1>3, <1>4, <1>5 DEF IInv

LEMMA ReleaseBufferFailsIInv ==
  ASSUME IInv, UNCHANGED careful, NEW t \in Threads,
         ReleaseBufferFails(t)
  PROVE  IInv'
<1> USE NullAssumption, ValidAssumption DEF ReleaseBufferFails, Goto, Finish, entries
<1>1. TypeOK'
  BY DEF IInv, TypeOK, ControlOK, Ops, Points
<1>2. ControlOK'
  BY DEF IInv, TypeOK, ControlOK, Ops
<1>3. LocksHeld' /\ RefsCounted'
  <2>1. StepOf(t)
    BY DEF IInv, TypeOK, StepOf
  <2>2. pc[t] \notin {"lock_out", "lock_in"} /\ pc'[t] \notin {"lock_out", "lock_in"}
    BY DEF IInv, TypeOK
  <2>3. \A h1 \in Handles : Locks(t, h1)' = 0 \/ Locks(t, h1)' = Locks(t, h1)
    BY DEF IInv, TypeOK, ControlOK, Locks, HasOut, HasIn
  <2>4. UNCHANGED <<refs, owner, depth>>
    BY DEF entries
  <2>5. QED
    BY <2>1, <2>2, <2>3, <2>4, FrameIInv
<1>4. ReferredIsStored'
  BY DEF IInv, ReferredIsStored, entries
<1>5. NoWriteAfterReturn'
  BY DEF IInv, NoWriteAfterReturn, Reaching, entries
<1>6. QED
  BY <1>1, <1>2, <1>3, <1>4, <1>5 DEF IInv

LEMMA RemoveFailsIInv ==
  ASSUME IInv, UNCHANGED careful, NEW t \in Threads,
         RemoveFails(t)
  PROVE  IInv'
<1> USE NullAssumption, ValidAssumption DEF RemoveFails, Goto, Finish, entries
<1>1. TypeOK'
  BY DEF IInv, TypeOK, ControlOK, Ops, Points
<1>2. ControlOK'
  BY DEF IInv, TypeOK, ControlOK, Ops
<1>3. LocksHeld' /\ RefsCounted'
  <2>1. StepOf(t)
    BY DEF IInv, TypeOK, StepOf
  <2>2. pc[t] \notin {"lock_out", "lock_in"} /\ pc'[t] \notin {"lock_out", "lock_in"}
    BY DEF IInv, TypeOK
  <2>3. \A h1 \in Handles : Locks(t, h1)' = 0 \/ Locks(t, h1)' = Locks(t, h1)
    BY DEF IInv, TypeOK, ControlOK, Locks, HasOut, HasIn
  <2>4. UNCHANGED <<refs, owner, depth>>
    BY DEF entries
  <2>5. QED
    BY <2>1, <2>2, <2>3, <2>4, FrameIInv
<1>4. ReferredIsStored'
  BY DEF IInv, ReferredIsStored, entries
<1>5. NoWriteAfterReturn'
  BY DEF IInv, NoWriteAfterReturn, Reaching, entries
<1>6. QED
  BY <1>1, <1>2, <1>3, <1>4, <1>5 DEF IInv

LEMMA DigestCrashesIInv ==
  ASSUME IInv, UNCHANGED careful, NEW t \in Threads,
         DigestCrashes(t)
  PROVE  IInv'
<1> USE NullAssumption, ValidAssumption DEF DigestCrashes, Goto, Finish, entries
<1>1. TypeOK'
  BY DEF IInv, TypeOK, ControlOK, Ops, Points
<1>2. ControlOK'
  BY DEF IInv, TypeOK, ControlOK, Ops
<1>3. LocksHeld' /\ RefsCounted'
  <2>1. StepOf(t)
    BY DEF IInv, TypeOK, StepOf
  <2>2. pc[t] \notin {"lock_out", "lock_in"} /\ pc'[t] \notin {"lock_out", "lock_in"}
    BY DEF IInv, TypeOK
  <2>3. \A h1 \in Handles : Locks(t, h1)' = 0 \/ Locks(t, h1)' = Locks(t, h1)
    BY DEF IInv, TypeOK, ControlOK, Locks, HasOut, HasIn
  <2>4. UNCHANGED <<refs, owner, depth>>
    BY DEF entries
  <2>5. QED
    BY <2>1, <2>2, <2>3, <2>4, FrameIInv
<1>4. ReferredIsStored'
  BY DEF IInv, ReferredIsStored, entries
<1>5. NoWriteAfterReturn'
  BY DEF IInv, NoWriteAfterReturn, Reaching, entries
<1>6. QED
  BY <1>1, <1>2, <1>3, <1>4, <1>5 DEF IInv

LEMMA ReleaseBufferIInv ==
  ASSUME IInv, UNCHANGED careful, NEW t \in Threads,
         ReleaseBuffer(t)
  PROVE  IInv'
<1> USE NullAssumption, ValidAssumption DEF ReleaseBuffer, Goto
<1> DEFINE h0 == out[t]
           r0 == buffer[h0]
<1>0. /\ h0 \in Handles /\ r0 \in Regions /\ lent[r0] \in Nat \ {0}
      /\ Cardinality(Reaching(r0)) \in Nat
      /\ Reaching(r0) \in SUBSET Handles /\ h0 \in Reaching(r0)
  <2>1. h0 \in Handles /\ r0 \in Regions /\ lent[r0] \in Nat
    BY DEF IInv, TypeOK, ControlOK
  <2>2. Reaching(r0) \in SUBSET Handles /\ h0 \in Reaching(r0)
    BY <2>1 DEF Reaching
  <2>3. /\ Cardinality(Reaching(r0)) \in Nat
        /\ Cardinality(Reaching(r0) \ {h0}) = Cardinality(Reaching(r0)) - 1
    BY <2>1, <2>2, CountHandles
  <2>4. Reaching(r0) \ {h0} \in SUBSET Handles
    BY <2>2
  <2>5. Cardinality(Reaching(r0) \ {h0}) \in Nat
    BY <2>1, <2>4, CountHandles
  <2>6. Cardinality(Reaching(r0)) <= lent[r0]
    BY <2>1 DEF IInv, NoWriteAfterReturn
  <2>7. QED
    BY <2>1, <2>2, <2>3, <2>5, <2>6
<1>1. TypeOK'
  BY <1>0 DEF IInv, TypeOK, ControlOK, Ops, Points
<1>2. ControlOK'
  BY DEF IInv, TypeOK, ControlOK, Ops
<1>3. LocksHeld' /\ RefsCounted'
  <2>1. StepOf(t)
    BY DEF IInv, TypeOK, StepOf
  <2>2. pc[t] \notin {"lock_out", "lock_in"} /\ pc'[t] \notin {"lock_out", "lock_in"}
    BY DEF IInv, TypeOK
  <2>3. \A h1 \in Handles : Locks(t, h1)' = 0 \/ Locks(t, h1)' = Locks(t, h1)
    BY DEF IInv, TypeOK, ControlOK, Locks, HasOut, HasIn
  <2>4. UNCHANGED <<refs, owner, depth>>
    BY DEF entries
  <2>5. QED
    BY <2>1, <2>2, <2>3, <2>4, FrameIInv
<1>4. ReferredIsStored'
  BY DEF IInv, TypeOK, ReferredIsStored
<1>5. NoWriteAfterReturn'
  <2> SUFFICES ASSUME NEW q \in Regions PROVE Cardinality(Reaching(q)') <= lent'[q]
    BY DEF NoWriteAfterReturn
  <2>1. Reaching(q) \in SUBSET Handles /\ Reaching(q)' \in SUBSET Handles
    BY DEF Reaching
  <2>2. Cardinality(Reaching(q)) <= lent[q] /\ lent[q] \in Nat
    BY DEF IInv, TypeOK, NoWriteAfterReturn
  <2>3. /\ Cardinality(Reaching(q)) \in Nat /\ Cardinality(Reaching(q)') \in Nat
        /\ Reaching(q)' \subseteq Reaching(q) => Cardinality(Reaching(q)') <= Cardinality(Reaching(q))
    <3> DEFINE A == Reaching(q)'
               B == Reaching(q)
    <3> HIDE DEF A, B
    <3>1. A \in SUBSET Handles /\ B \in SUBSET Handles
      BY <2>1 DEF A, B
    <3>2. /\ Cardinality(B) \in Nat /\ Cardinality(A) \in Nat
          /\ A \subseteq B => Cardinality(A) <= Cardinality(B)
      BY <1>0, <3>1, CountHandles
    <3>3. QED
      BY <3>2 DEF A, B
  <2>4. CASE q = r0
    <3>1. Reaching(q)' = Reaching(q) \ {h0} /\ lent'[q] = lent[q] - 1
      BY <1>0, <2>4 DEF IInv, TypeOK, Reaching
    <3>2. Cardinality(Reaching(q)') = Cardinality(Reaching(q)) - 1
      BY <1>0, <2>4, <3>1, CountHandles
    <3>3. QED
      BY <1>0, <2>2, <2>4, <3>1, <3>2
  <2>5. CASE q # r0
    <3>1. Reaching(q)' \subseteq Reaching(q) /\ lent'[q] = lent[q]
      BY <1>0, <2>5 DEF IInv, TypeOK, Reaching
    <3>2. QED
      BY <2>2, <2>3, <3>1
  <2>6. QED
    BY <2>4, <2>5
<1>6. QED
  BY <1>1, <1>2, <1>3, <1>4, <1>5 DEF IInv

LEMMA RemoveIInv ==
  ASSUME IInv, UNCHANGED careful, NEW t \in Threads,
         Remove(t)
  PROVE  IInv'
<1> USE NullAssumption, ValidAssumption DEF Remove, Goto, Finish
<1>1. TypeOK'
  BY DEF IInv, TypeOK, ControlOK, Ops, Points
<1>2. ControlOK'
  BY DEF IInv, TypeOK, ControlOK, Ops
<1>3. LocksHeld' /\ RefsCounted'
  <2>1. StepOf(t)
    BY DEF IInv, TypeOK, StepOf
  <2>2. pc[t] \notin {"lock_out", "lock_in"} /\ pc'[t] \notin {"lock_out", "lock_in"}
    BY DEF IInv, TypeOK
  <2>3. \A h1 \in Handles : Locks(t, h1)' = 0 \/ Locks(t, h1)' = Locks(t, h1)
    BY DEF IInv, TypeOK, ControlOK, Locks, HasOut, HasIn
  <2>4. UNCHANGED <<refs, owner, depth>>
    BY DEF entries
  <2>5. QED
    BY <2>1, <2>2, <2>3, <2>4, FrameIInv
<1>4. ReferredIsStored'
  BY DEF IInv, TypeOK, ReferredIsStored
<1>5. NoWriteAfterReturn'
  <2> SUFFICES ASSUME NEW q \in Regions PROVE Cardinality(Reaching(q)') <= lent'[q]
    BY DEF NoWriteAfterReturn
  <2>1. Reaching(q) \in SUBSET Handles /\ Reaching(q)' \in SUBSET Handles
    BY DEF Reaching
  <2>2. Cardinality(Reaching(q)) <= lent[q] /\ lent[q] \in Nat /\ lent'[q] = lent[q]
    BY DEF IInv, TypeOK, NoWriteAfterReturn
  <2>3. Reaching(q)' \subseteq Reaching(q) /\ out[t] \in Handles
    BY DEF IInv, TypeOK, ControlOK, Reaching
  <2>4. /\ Cardinality(Reaching(q)) \in Nat /\ Cardinality(Reaching(q)') \in Nat
        /\ Reaching(q)' \subseteq Reaching(q) => Cardinality(Reaching(q)') <= Cardinality(Reaching(q))
    <3> DEFINE A == Reaching(q)'
               B == Reaching(q)
    <3> HIDE DEF A, B
    <3>1. A \in SUBSET Handles /\ B \in SUBSET Handles
      BY <2>1 DEF A, B
    <3>2. /\ Cardinality(B) \in Nat /\ Cardinality(A) \in Nat
          /\ A \subseteq B => Cardinality(A) <= Cardinality(B)
      BY <2>3, <3>1, CountHandles
    <3>3. QED
      BY <3>2 DEF A, B
  <2>5. QED
    BY <2>2, <2>3, <2>4
<1>6. QED
  BY <1>1, <1>2, <1>3, <1>4, <1>5 DEF IInv

LEMMA WorkedIInv ==
  ASSUME IInv, UNCHANGED careful, NEW t \in Threads, NEW ok \in BOOLEAN,
         pc[t] = "work", Worked(t, ok)
  PROVE  IInv'
<1> USE NullAssumption, ValidAssumption DEF Worked, Goto, entries
<1>1. TypeOK'
  BY DEF IInv, TypeOK, ControlOK, Ops, Points
<1>2. ControlOK'
  BY DEF IInv, TypeOK, ControlOK, Ops
<1>3. LocksHeld' /\ RefsCounted'
  <2>1. StepOf(t)
    BY DEF IInv, TypeOK, StepOf
  <2>2. pc[t] \notin {"lock_out", "lock_in"} /\ pc'[t] \notin {"lock_out", "lock_in"}
    BY DEF IInv, TypeOK
  <2>3. \A h1 \in Handles : Locks(t, h1)' = 0 \/ Locks(t, h1)' = Locks(t, h1)
    BY DEF IInv, TypeOK, ControlOK, Locks, HasOut, HasIn
  <2>4. UNCHANGED <<refs, owner, depth>>
    BY DEF entries
  <2>5. QED
    BY <2>1, <2>2, <2>3, <2>4, FrameIInv
<1>4. ReferredIsStored'
  BY DEF IInv, ReferredIsStored, entries
<1>5. NoWriteAfterReturn'
  BY DEF IInv, NoWriteAfterReturn, Reaching, entries
<1>6. QED
  BY <1>1, <1>2, <1>3, <1>4, <1>5 DEF IInv

LEMMA RefOutIInv ==
  ASSUME IInv, UNCHANGED careful, NEW t \in Threads, RefOut(t)
  PROVE  IInv'
<1> DEFINE h0 == out[t]
<1> USE NullAssumption DEF RefOut, Goto
<1>1. h0 \in Handles
  BY DEF IInv, ControlOK
<1>2. TypeOK /\ StepOf(t)
  BY DEF IInv, TypeOK, StepOf
<1>3. refs' = [refs EXCEPT ![h0] = @ + 1] /\ UNCHANGED <<depth, owner>> /\ h0 \in stored
  OBVIOUS
<1>4. TypeOK'
  BY <1>1, <1>2, <1>3 DEF IInv, TypeOK, ControlOK, Ops, Points
<1>5. ControlOK'
  BY DEF IInv, TypeOK, ControlOK, Ops
<1>6. LocksHeld'
  <2>1. \A h \in Handles : Locks(t, h)' = 0
    BY <1>1, <1>2 DEF IInv, TypeOK, ControlOK, Locks, HasOut, HasIn
  <2>2. \A u \in Threads \ {t}, h \in Handles : Locks(u, h)' = Locks(u, h)
    BY <1>2 DEF StepOf, Locks, HasOut, HasIn
  <2>3. \A u \in Threads, h \in Handles : Locks(u, h) \in 0 .. 2
    BY DEF Locks
  <2>4. \A h \in Handles : Locks(t, h)' > 0 => owner'[h] = t /\ depth'[h] >= Locks(t, h)'
    BY <1>1, <1>2, <1>3, <2>1, <2>3 DEF IInv, TypeOK, LocksHeld
  <2>5. \A u \in Threads \ {t}, h \in Handles :
          Locks(u, h)' > 0 => owner'[h] = u /\ depth'[h] >= Locks(u, h)'
    BY <1>1, <1>2, <1>3, <2>2, <2>3 DEF IInv, TypeOK, LocksHeld
  <2>6. QED
    BY <2>4, <2>5 DEF LocksHeld
<1>7. RefsCounted'
  <2>1. \A h \in Handles \ {h0} : Waiting(h)' = Waiting(h)
    BY <1>2 DEF StepOf, TypeOK, Waiting
  <2>2. Waiting(h0)' = Waiting(h0) \cup {t} /\ t \notin Waiting(h0)
    BY <1>2 DEF StepOf, TypeOK, Waiting
  <2>3. Cardinality(Waiting(h0))' = Cardinality(Waiting(h0)) + 1
    BY <2>2, CountThreads DEF Waiting
  <2>4. Cardinality(Waiting(h0)) \in Nat
    BY CountThreads DEF Waiting
  <2>5. \A h \in Handles : refs'[h] = depth'[h] + Cardinality(Waiting(h)')
    BY <1>1, <1>2, <1>3, <2>1, <2>3, <2>4 DEF IInv, TypeOK, RefsCounted
  <2>6. QED
    BY <2>5 DEF RefsCounted
<1>8. ReferredIsStored'
  BY <1>1, <1>2, <1>3 DEF IInv, TypeOK, ReferredIsStored
<1>9. NoWriteAfterReturn'
  BY DEF IInv, NoWriteAfterReturn, Reaching
<1>10. QED
  BY <1>4, <1>5, <1>6, <1>7, <1>8, <1>9 DEF IInv

LEMMA RefInIInv ==
  ASSUME IInv, UNCHANGED careful, NEW t \in Threads, RefIn(t)
  PROVE  IInv'
<1> DEFINE h0 == in[t]
<1> USE NullAssumption DEF RefIn, Goto
<1>1. h0 \in Handles
  BY DEF IInv, ControlOK
<1>2. TypeOK /\ StepOf(t)
  BY DEF IInv, TypeOK, StepOf
<1>3. refs' = [refs EXCEPT ![h0] = @ + 1] /\ UNCHANGED <<depth, owner>> /\ h0 \in stored
  OBVIOUS
<1>4. TypeOK'
  BY <1>1, <1>2, <1>3 DEF IInv, TypeOK, ControlOK, Ops, Points
<1>5. ControlOK'
  BY DEF IInv, TypeOK, ControlOK, Ops
<1>6. LocksHeld'
  <2>1. \A h \in Handles : Locks(t, h)' = Locks(t, h)
    BY <1>1, <1>2 DEF IInv, TypeOK, ControlOK, Locks, HasOut, HasIn
  <2>2. \A u \in Threads \ {t}, h \in Handles : Locks(u, h)' = Locks(u, h)
    BY <1>2 DEF StepOf, Locks, HasOut, HasIn
  <2>3. \A u \in Threads, h \in Handles : Locks(u, h) \in 0 .. 2
    BY DEF Locks
  <2>4. \A h \in Handles : Locks(t, h)' > 0 => owner'[h] = t /\ depth'[h] >= Locks(t, h)'
    BY <1>1, <1>2, <1>3, <2>1, <2>3 DEF IInv, TypeOK, LocksHeld
  <2>5. \A u \in Threads \ {t}, h \in Handles :
          Locks(u, h)' > 0 => owner'[h] = u /\ depth'[h] >= Locks(u, h)'
    BY <1>1, <1>2, <1>3, <2>2, <2>3 DEF IInv, TypeOK, LocksHeld
  <2>6. QED
    BY <2>4, <2>5 DEF LocksHeld
<1>7. RefsCounted'
  <2>1. \A h \in Handles \ {h0} : Waiting(h)' = Waiting(h)
    BY <1>2 DEF StepOf, TypeOK, Waiting
  <2>2. Waiting(h0)' = Waiting(h0) \cup {t} /\ t \notin Waiting(h0)
    BY <1>2 DEF StepOf, TypeOK, Waiting
  <2>3. Cardinality(Waiting(h0))' = Cardinality(Waiting(h0)) + 1
    BY <2>2, CountThreads DEF Waiting
  <2>4. Cardinality(Waiting(h0)) \in Nat
    BY CountThreads DEF Waiting
  <2>5. \A h \in Handles : refs'[h] = depth'[h] + Cardinality(Waiting(h)')
    BY <1>1, <1>2, <1>3, <2>1, <2>3, <2>4 DEF IInv, TypeOK, RefsCounted
  <2>6. QED
    BY <2>5 DEF RefsCounted
<1>8. ReferredIsStored'
  BY <1>1, <1>2, <1>3 DEF IInv, TypeOK, ReferredIsStored
<1>9. NoWriteAfterReturn'
  BY DEF IInv, NoWriteAfterReturn, Reaching
<1>10. QED
  BY <1>4, <1>5, <1>6, <1>7, <1>8, <1>9 DEF IInv

LEMMA LockOutIInv ==
  ASSUME IInv, UNCHANGED careful, NEW t \in Threads, LockOut(t)
  PROVE  IInv'
<1> DEFINE h0 == out[t]
<1> USE NullAssumption DEF LockOut, Goto, Lock
<1>1. h0 \in Handles
  BY DEF IInv, ControlOK
<1>2. TypeOK /\ StepOf(t)
  BY DEF IInv, TypeOK, StepOf
<1>3. UNCHANGED refs /\ depth' = [depth EXCEPT ![h0] = @ + 1]
      /\ owner' = [owner EXCEPT ![h0] = t] /\ owner[h0] \in {NULL, t}
  OBVIOUS
<1>4. TypeOK'
  BY <1>1, <1>2, <1>3 DEF IInv, TypeOK, ControlOK, Ops, Points
<1>5. ControlOK'
  BY DEF IInv, TypeOK, ControlOK, Ops
<1>6. LocksHeld'
  <2>1. \A h \in Handles : Locks(t, h)' = IF h = h0 THEN 1 ELSE 0
    BY <1>1, <1>2 DEF IInv, TypeOK, ControlOK, Locks, HasOut, HasIn
  <2>2. \A u \in Threads \ {t}, h \in Handles : Locks(u, h)' = Locks(u, h)
    BY <1>2 DEF StepOf, Locks, HasOut, HasIn
  <2>3. \A u \in Threads, h \in Handles : Locks(u, h) \in 0 .. 2
    BY DEF Locks
  <2>4. \A h \in Handles : Locks(t, h)' > 0 => owner'[h] = t /\ depth'[h] >= Locks(t, h)'
    BY <1>1, <1>2, <1>3, <2>1, <2>3 DEF IInv, TypeOK, LocksHeld
  <2>5. \A u \in Threads \ {t}, h \in Handles :
          Locks(u, h)' > 0 => owner'[h] = u /\ depth'[h] >= Locks(u, h)'
    BY <1>1, <1>2, <1>3, <2>2, <2>3 DEF IInv, TypeOK, LocksHeld
  <2>6. QED
    BY <2>4, <2>5 DEF LocksHeld
<1>7. RefsCounted'
  <2>1. \A h \in Handles \ {h0} : Waiting(h)' = Waiting(h)
    BY <1>2 DEF StepOf, TypeOK, Waiting
  <2>2. Waiting(h0)' = Waiting(h0) \ {t} /\ t \in Waiting(h0)
    BY <1>2 DEF StepOf, TypeOK, Waiting
  <2>3. Cardinality(Waiting(h0))' = Cardinality(Waiting(h0)) - 1
    BY <2>2, CountThreads DEF Waiting
  <2>4. Cardinality(Waiting(h0)) \in Nat
    BY CountThreads DEF Waiting
  <2>5. \A h \in Handles : refs'[h] = depth'[h] + Cardinality(Waiting(h)')
    BY <1>1, <1>2, <1>3, <2>1, <2>3, <2>4 DEF IInv, TypeOK, RefsCounted
  <2>6. QED
    BY <2>5 DEF RefsCounted
<1>8. ReferredIsStored'
  BY <1>1, <1>2, <1>3 DEF IInv, TypeOK, ReferredIsStored
<1>9. NoWriteAfterReturn'
  BY DEF IInv, NoWriteAfterReturn, Reaching
<1>10. QED
  BY <1>4, <1>5, <1>6, <1>7, <1>8, <1>9 DEF IInv

LEMMA LockInIInv ==
  ASSUME IInv, UNCHANGED careful, NEW t \in Threads, LockIn(t)
  PROVE  IInv'
<1> DEFINE h0 == in[t]
<1> USE NullAssumption DEF LockIn, Goto, Lock
<1>1. h0 \in Handles
  BY DEF IInv, ControlOK
<1>2. TypeOK /\ StepOf(t)
  BY DEF IInv, TypeOK, StepOf
<1>3. UNCHANGED refs /\ depth' = [depth EXCEPT ![h0] = @ + 1]
      /\ owner' = [owner EXCEPT ![h0] = t] /\ owner[h0] \in {NULL, t}
  OBVIOUS
<1>4. TypeOK'
  BY <1>1, <1>2, <1>3 DEF IInv, TypeOK, ControlOK, Ops, Points
<1>5. ControlOK'
  BY DEF IInv, TypeOK, ControlOK, Ops
<1>6. LocksHeld'
  <2>1. \A h \in Handles : Locks(t, h)' = IF h = h0 THEN Locks(t, h) + 1 ELSE Locks(t, h)
    BY <1>1, <1>2 DEF IInv, TypeOK, ControlOK, Locks, HasOut, HasIn
  <2>2. \A u \in Threads \ {t}, h \in Handles : Locks(u, h)' = Locks(u, h)
    BY <1>2 DEF StepOf, Locks, HasOut, HasIn
  <2>3. \A u \in Threads, h \in Handles : Locks(u, h) \in 0 .. 2
    BY DEF Locks
  <2>4. \A h \in Handles : Locks(t, h)' > 0 => owner'[h] = t /\ depth'[h] >= Locks(t, h)'
    BY <1>1, <1>2, <1>3, <2>1, <2>3 DEF IInv, TypeOK, LocksHeld
  <2>5. \A u \in Threads \ {t}, h \in Handles :
          Locks(u, h)' > 0 => owner'[h] = u /\ depth'[h] >= Locks(u, h)'
    BY <1>1, <1>2, <1>3, <2>2, <2>3 DEF IInv, TypeOK, LocksHeld
  <2>6. QED
    BY <2>4, <2>5 DEF LocksHeld
<1>7. RefsCounted'
  <2>1. \A h \in Handles \ {h0} : Waiting(h)' = Waiting(h)
    BY <1>2 DEF StepOf, TypeOK, Waiting
  <2>2. Waiting(h0)' = Waiting(h0) \ {t} /\ t \in Waiting(h0)
    BY <1>2 DEF StepOf, TypeOK, Waiting
  <2>3. Cardinality(Waiting(h0))' = Cardinality(Waiting(h0)) - 1
    BY <2>2, CountThreads DEF Waiting
  <2>4. Cardinality(Waiting(h0)) \in Nat
    BY CountThreads DEF Waiting
  <2>5. \A h \in Handles : refs'[h] = depth'[h] + Cardinality(Waiting(h)')
    BY <1>1, <1>2, <1>3, <2>1, <2>3, <2>4 DEF IInv, TypeOK, RefsCounted
  <2>6. QED
    BY <2>5 DEF RefsCounted
<1>8. ReferredIsStored'
  BY <1>1, <1>2, <1>3 DEF IInv, TypeOK, ReferredIsStored
<1>9. NoWriteAfterReturn'
  BY DEF IInv, NoWriteAfterReturn, Reaching
<1>10. QED
  BY <1>4, <1>5, <1>6, <1>7, <1>8, <1>9 DEF IInv

LEMMA DropInIInv ==
  ASSUME IInv, UNCHANGED careful, NEW t \in Threads, DropIn(t)
  PROVE  IInv'
<1> DEFINE h0 == in[t]
<1> USE NullAssumption DEF DropIn, Goto, Drop
<1>1. h0 \in Handles
  BY DEF IInv, ControlOK
<1>2. TypeOK /\ StepOf(t)
  BY DEF IInv, TypeOK, StepOf
<1>3. /\ owner[h0] = t /\ depth[h0] >= 1 /\ depth[h0] >= Locks(t, h0) /\ refs[h0] >= 1
      /\ depth' = [depth EXCEPT ![h0] = @ - 1] /\ refs' = [refs EXCEPT ![h0] = @ - 1]
      /\ owner' = [owner EXCEPT ![h0] = IF depth[h0] = 1 THEN NULL ELSE t]
  <2>1. Locks(t, h0) \in 1 .. 2
    BY <1>1 DEF IInv, ControlOK, Locks, HasOut, HasIn
  <2>2. owner[h0] = t /\ depth[h0] >= 1 /\ depth[h0] >= Locks(t, h0)
    BY <1>1, <1>2, <2>1 DEF IInv, TypeOK, LocksHeld
  <2>3. Cardinality(Waiting(h0)) \in Nat
    BY CountThreads DEF Waiting
  <2>4. refs[h0] >= 1
    BY <1>1, <1>2, <2>2, <2>3 DEF IInv, TypeOK, RefsCounted
  <2>5. QED
    BY <2>2, <2>4
<1>4. TypeOK'
  BY <1>1, <1>2, <1>3 DEF IInv, TypeOK, ControlOK, Ops, Points
<1>5. ControlOK'
  BY DEF IInv, TypeOK, ControlOK, Ops
<1>6. LocksHeld'
  <2>1. \A h \in Handles : Locks(t, h)' = IF h = h0 THEN Locks(t, h) - 1 ELSE Locks(t, h)
    BY <1>1, <1>2 DEF IInv, TypeOK, ControlOK, Locks, HasOut, HasIn
  <2>2. \A u \in Threads \ {t}, h \in Handles : Locks(u, h)' = Locks(u, h)
    BY <1>2 DEF StepOf, Locks, HasOut, HasIn
  <2>3. \A u \in Threads, h \in Handles : Locks(u, h) \in 0 .. 2
    BY DEF Locks
  <2>4. \A h \in Handles : Locks(t, h)' > 0 => owner'[h] = t /\ depth'[h] >= Locks(t, h)'
    BY <1>1, <1>2, <1>3, <2>1, <2>3 DEF IInv, TypeOK, LocksHeld
  <2>5. \A u \in Threads \ {t}, h \in Handles :
          Locks(u, h)' > 0 => owner'[h] = u /\ depth'[h] >= Locks(u, h)'
    BY <1>1, <1>2, <1>3, <2>2, <2>3 DEF IInv, TypeOK, LocksHeld
  <2>6. QED
    BY <2>4, <2>5 DEF LocksHeld
<1>7. RefsCounted'
  <2>1. \A h \in Handles : Waiting(h)' = Waiting(h)
    BY <1>2, SameWaiting DEF TypeOK
  <2>2. \A h \in Handles : Cardinality(Waiting(h)) \in Nat
    BY CountThreads DEF Waiting
  <2>3. QED
    BY <1>1, <1>2, <1>3, <2>1, <2>2 DEF IInv, TypeOK, RefsCounted
<1>8. ReferredIsStored'
  BY <1>1, <1>2, <1>3 DEF IInv, TypeOK, ReferredIsStored
<1>9. NoWriteAfterReturn'
  BY DEF IInv, NoWriteAfterReturn, Reaching
<1>10. QED
  BY <1>4, <1>5, <1>6, <1>7, <1>8, <1>9 DEF IInv

LEMMA DropOutIInv ==
  ASSUME IInv, UNCHANGED careful, NEW t \in Threads, DropOut(t)
  PROVE  IInv'
<1> DEFINE h0 == out[t]
<1> USE NullAssumption DEF DropOut, Goto, Drop, Finish
<1>1. h0 \in Handles
  BY DEF IInv, ControlOK
<1>2. TypeOK /\ StepOf(t)
  BY DEF IInv, TypeOK, StepOf
<1>3. /\ owner[h0] = t /\ depth[h0] >= 1 /\ depth[h0] >= Locks(t, h0) /\ refs[h0] >= 1
      /\ depth' = [depth EXCEPT ![h0] = @ - 1] /\ refs' = [refs EXCEPT ![h0] = @ - 1]
      /\ owner' = [owner EXCEPT ![h0] = IF depth[h0] = 1 THEN NULL ELSE t]
  <2>1. Locks(t, h0) \in 1 .. 2
    BY <1>1 DEF IInv, ControlOK, Locks, HasOut, HasIn
  <2>2. owner[h0] = t /\ depth[h0] >= 1 /\ depth[h0] >= Locks(t, h0)
    BY <1>1, <1>2, <2>1 DEF IInv, TypeOK, LocksHeld
  <2>3. Cardinality(Waiting(h0)) \in Nat
    BY CountThreads DEF Waiting
  <2>4. refs[h0] >= 1
    BY <1>1, <1>2, <2>2, <2>3 DEF IInv, TypeOK, RefsCounted
  <2>5. QED
    BY <2>2, <2>4
<1>4. TypeOK'
  BY <1>1, <1>2, <1>3 DEF IInv, TypeOK, ControlOK, Ops, Points
<1>5. ControlOK'
  BY DEF IInv, TypeOK, ControlOK, Ops
<1>6. LocksHeld'
  <2>1. \A h \in Handles : Locks(t, h)' = 0
    BY <1>1, <1>2 DEF IInv, TypeOK, ControlOK, Locks, HasOut, HasIn
  <2>2. \A u \in Threads \ {t}, h \in Handles : Locks(u, h)' = Locks(u, h)
    BY <1>2 DEF StepOf, Locks, HasOut, HasIn
  <2>3. \A u \in Threads, h \in Handles : Locks(u, h) \in 0 .. 2
    BY DEF Locks
  <2>4. \A h \in Handles : Locks(t, h)' > 0 => owner'[h] = t /\ depth'[h] >= Locks(t, h)'
    BY <1>1, <1>2, <1>3, <2>1, <2>3 DEF IInv, TypeOK, LocksHeld
  <2>5. \A u \in Threads \ {t}, h \in Handles :
          Locks(u, h)' > 0 => owner'[h] = u /\ depth'[h] >= Locks(u, h)'
    BY <1>1, <1>2, <1>3, <2>2, <2>3 DEF IInv, TypeOK, LocksHeld
  <2>6. QED
    BY <2>4, <2>5 DEF LocksHeld
<1>7. RefsCounted'
  <2>1. \A h \in Handles : Waiting(h)' = Waiting(h)
    BY <1>2, SameWaiting DEF TypeOK
  <2>2. \A h \in Handles : Cardinality(Waiting(h)) \in Nat
    BY CountThreads DEF Waiting
  <2>3. QED
    BY <1>1, <1>2, <1>3, <2>1, <2>2 DEF IInv, TypeOK, RefsCounted
<1>8. ReferredIsStored'
  BY <1>1, <1>2, <1>3 DEF IInv, TypeOK, ReferredIsStored
<1>9. NoWriteAfterReturn'
  BY DEF IInv, NoWriteAfterReturn, Reaching
<1>10. QED
  BY <1>4, <1>5, <1>6, <1>7, <1>8, <1>9 DEF IInv

-----------------------------------------------------------------------------
LEMMA CallStepIInv ==
  ASSUME IInv, UNCHANGED careful, NEW t \in Threads, CallStep(t)
  PROVE  IInv'
<1>1. CASE RefOut(t) \/ RefOutFails(t) \/ LockOut(t) \/ RefIn(t) \/ RefInFails(t) \/ LockIn(t)
  BY <1>1, RefOutIInv, RefOutFailsIInv, LockOutIInv, RefInIInv, RefInFailsIInv, LockInIInv
<1>2. CASE \E inside \in BOOLEAN : svp_write(t, inside) \/ svp_copy(t, inside)
  BY <1>2, WorkedIInv DEF svp_write, svp_copy
<1>3. CASE \E equal \in BOOLEAN : svp_key_check(t, equal)
  BY <1>3, WorkedIInv DEF svp_key_check
<1>4. CASE \E equal, overflow \in BOOLEAN : svp_digest(t, equal, overflow)
  BY <1>4, WorkedIInv DEF svp_digest
<1>5. CASE DigestCrashes(t) \/ ReleaseBuffer(t) \/ ReleaseBufferFails(t)
  BY <1>5, DigestCrashesIInv, ReleaseBufferIInv, ReleaseBufferFailsIInv
<1>6. CASE DropIn(t) \/ DropOut(t) \/ Remove(t) \/ RemoveFails(t)
  BY <1>6, DropInIInv, DropOutIInv, RemoveIInv, RemoveFailsIInv
<1>7. QED
  BY <1>1, <1>2, <1>3, <1>4, <1>5, <1>6 DEF CallStep

LEMMA NextIInv == IInv /\ [Next]_vars => IInv'
<1> SUFFICES ASSUME IInv, [Next]_vars PROVE IInv'
  OBVIOUS
<1>1. CASE UNCHANGED vars
  BY <1>1 DEF vars, IInv, TypeOK, ControlOK, LocksHeld, Locks, HasOut, HasIn, RefsCounted, Waiting,
              ReferredIsStored, NoWriteAfterReturn, Reaching
<1>2. ASSUME Next PROVE IInv'
  <2>1. PICK t \in Threads :
          \/ \E h \in Handles, r \in Regions : Create(t, h, r)
          \/ CreateFails(t)
          \/ \E h1, h2 \in Handles : ta_sa_svp_buffer_copy(t, h1, h2)
          \/ \E h \in Handles :
               \/ ta_sa_svp_buffer_write(t, h)
               \/ ta_sa_svp_buffer_check(t, h)
               \/ ta_sa_svp_key_check(t, h)
               \/ ta_sa_svp_buffer_release(t, h)
          \/ Refused(t)
          \/ CallStep(t)
    BY <1>2 DEF Next
  <2>2. UNCHANGED careful
    BY <1>2 DEF Next
  <2>3. CASE \/ \E h \in Handles, r \in Regions : Create(t, h, r)
             \/ CreateFails(t) \/ Refused(t) \/ CallStep(t)
    BY <2>2, <2>3, CreateIInv, CreateFailsIInv, RefusedIInv, CallStepIInv
  <2>4. CASE \E o \in Ops, h1, h2 \in Handles : Begin(t, o, h1, h2) /\ (o # "copy" => h2 = h1)
    BY <2>2, <2>4, BeginIInv
  <2>5. CASE \E h1, h2 \in Handles : ta_sa_svp_buffer_copy(t, h1, h2)
    BY <2>4, <2>5 DEF ta_sa_svp_buffer_copy, Ops
  <2>6. CASE \E h \in Handles :
               \/ ta_sa_svp_buffer_write(t, h)
               \/ ta_sa_svp_buffer_check(t, h)
               \/ ta_sa_svp_key_check(t, h)
               \/ ta_sa_svp_buffer_release(t, h)
    <3>1. PICK h \in Handles : \E o \in Ops : Begin(t, o, h, h)
      BY <2>6 DEF ta_sa_svp_buffer_write, ta_sa_svp_buffer_check, ta_sa_svp_key_check,
                  ta_sa_svp_buffer_release, Ops
    <3>2. QED
      BY <2>4, <3>1
  <2>7. QED
    BY <2>1, <2>3, <2>5, <2>6
<1>3. QED
  BY <1>1, <1>2

(* IInv is an inductive invariant: references and locks are counted exactly *)
(* through every operation, also those that leave some behind.              *)
THEOREM Invariance == Spec => []IInv
<1>1. QED
  BY InitIInv, NextIInv, PTL DEF Spec

(* A locked buffer stays in the store, with a reference on it.  What is     *)
(* needed is that every lock has its reference (RefsCounted) and every      *)
(* reference keeps the entry, although svp_store_release may return with    *)
(* both left behind.                                                        *)
THEOREM Stored == Spec => []LockedIsStored
<1>1. IInv => LockedIsStored
  <2> SUFFICES ASSUME IInv, NEW h \in Handles, owner[h] # NULL
               PROVE  h \in stored /\ refs[h] > 0
    BY DEF LockedIsStored
  <2>1. refs[h] \in Nat /\ depth[h] \in Nat /\ depth[h] # 0
    BY DEF IInv, TypeOK
  <2>2. Cardinality(Waiting(h)) \in Nat
    <3>1. Waiting(h) \subseteq Threads
      BY DEF Waiting
    <3>2. QED
      BY <3>1, ThreadsAssumption, FS_Subset, FS_CardinalityType
  <2>3. refs[h] > 0
    BY <2>1, <2>2 DEF IInv, RefsCounted
  <2>4. QED
    BY <2>3 DEF IInv, ReferredIsStored
<1>2. QED
  BY Invariance, <1>1, PTL

(* Memory that was handed back as often as it was given is reached through no *)
(* buffer, also when a region was given to several, and whatever is released  *)
(* twice: a release resets the buffer that it hands back, under its mutex.    *)
THEOREM NoLateWrite == Spec => []NoWriteAfterReturn
<1>1. IInv => NoWriteAfterReturn
  BY DEF IInv
<1>2. QED
  BY Invariance, <1>1, PTL

(* Work on a buffer is exclusive: a thread that works has locked the buffers  *)
(* of its call, whatever was locked and left behind before.                   *)
THEOREM Exclusive == Spec => []ExclusiveWork
<1>1. ASSUME IInv, NEW t \in Threads, pc[t] = "work"
      PROVE  owner[out[t]] = t /\ owner[in[t]] = t /\ out[t] \in Handles /\ in[t] \in Handles
  <2>1. op[t] \in Ops /\ out[t] \in Handles /\ in[t] \in Handles
       /\ (op[t] # "copy" => in[t] = out[t])
    BY <1>1 DEF IInv, ControlOK
  <2>2. Locks(t, out[t]) > 0 /\ Locks(t, in[t]) > 0
    BY <1>1, <2>1 DEF Locks, HasOut, HasIn
  <2>3. QED
    BY <1>1, <2>1, <2>2 DEF IInv, LocksHeld
<1>2. IInv => ExclusiveWork
  BY <1>1 DEF ExclusiveWork
<1>3. QED
  BY Invariance, <1>2, PTL

-----------------------------------------------------------------------------
(* With memory that is accepted, KeptInv is inductive under IInv.            *)

LEMMA InitKept == Init => KeptInv
<1> SUFFICES ASSUME Init PROVE KeptInv
  OBVIOUS
<1>1. \A r \in Regions : Reaching(r) \cap stored = {} /\ lent[r] = 0
  BY NullAssumption DEF Init, Reaching
<1>2. QED
  BY <1>1, FS_EmptySet DEF Init, KeptInv, MemoryKept, InUseIsStored, ReleasedApart, RemovedIsEmpty

(* A step of a call that removes nothing, and neither makes nor hands back    *)
(* memory.                                                                    *)
LEMMA FrameKept ==
  ASSUME IInv, KeptInv, NEW t \in Threads, StepOf(t),
         UNCHANGED <<careful, stored, buffer, lent>>,
         pc[t] # "idle",
         \/ pc'[t] = "idle"
         \/ /\ op'[t] = op[t] /\ out'[t] = out[t] /\ in'[t] = in[t]
            /\ pc'[t] = "drop_out" => op[t] # "release"
            /\ pc'[t] = "remove" => pc[t] = "drop_out"
  PROVE  KeptInv'
<1>1. MemoryKept'
  BY DEF KeptInv, MemoryKept, Reaching
<1>2. careful => InUseIsStored'
  BY DEF KeptInv, StepOf, InUseIsStored
<1>3. careful => ReleasedApart'
  BY DEF KeptInv, StepOf, ReleasedApart
<1>4. careful => RemovedIsEmpty'
  BY DEF KeptInv, StepOf, RemovedIsEmpty
<1>5. QED
  BY <1>1, <1>2, <1>3, <1>4 DEF KeptInv

LEMMA QuietKept ==
  ASSUME IInv, KeptInv, UNCHANGED careful, NEW t \in Threads,
         \/ RefOut(t) \/ RefOutFails(t) \/ LockOut(t) \/ RefIn(t) \/ RefInFails(t)
         \/ LockIn(t) \/ DigestCrashes(t) \/ ReleaseBufferFails(t) \/ DropIn(t)
         \/ DropOut(t) \/ RemoveFails(t)
  PROVE  KeptInv'
<1> USE DEF IInv, TypeOK, ControlOK, StepOf
<1>1. CASE RefOut(t)
  BY <1>1, FrameKept DEF RefOut, Goto
<1>2. CASE RefOutFails(t)
  BY <1>2, FrameKept DEF RefOutFails, Goto, Finish, entries
<1>3. CASE LockOut(t)
  BY <1>3, FrameKept DEF LockOut, Goto, Lock
<1>4. CASE RefIn(t)
  BY <1>4, FrameKept DEF RefIn, Goto
<1>5. CASE RefInFails(t)
  BY <1>5, FrameKept DEF RefInFails, Goto, entries
<1>6. CASE LockIn(t)
  BY <1>6, FrameKept DEF LockIn, Goto, Lock
<1>7. CASE DigestCrashes(t)
  BY <1>7, FrameKept DEF DigestCrashes, Goto, entries
<1>8. CASE ReleaseBufferFails(t)
  BY <1>8, FrameKept DEF ReleaseBufferFails, Goto, Finish, entries
<1>9. CASE DropIn(t)
  BY <1>9, FrameKept DEF DropIn, Goto, Drop
<1>10. CASE DropOut(t)
  BY <1>10, FrameKept DEF DropOut, Goto, Drop, Finish
<1>11. CASE RemoveFails(t)
  BY <1>11, FrameKept DEF RemoveFails, Goto, Finish, entries
<1>12. QED
  BY <1>1, <1>2, <1>3, <1>4, <1>5, <1>6, <1>7, <1>8, <1>9, <1>10, <1>11

LEMMA WorkedKept ==
  ASSUME IInv, KeptInv, UNCHANGED careful, NEW t \in Threads, NEW ok \in BOOLEAN,
         pc[t] = "work", op[t] # "release", Worked(t, ok)
  PROVE  KeptInv'
BY FrameKept DEF IInv, TypeOK, ControlOK, StepOf, Worked, Goto, entries

LEMMA AnswerKept ==
  ASSUME KeptInv, UNCHANGED careful, NEW t \in Threads, CreateFails(t) \/ Refused(t)
  PROVE  KeptInv'
BY DEF CreateFails, Refused, entries, KeptInv, MemoryKept, Reaching, InUseIsStored, ReleasedApart, RemovedIsEmpty

LEMMA CreateKept ==
  ASSUME ValidRegions = Regions, IInv, KeptInv, UNCHANGED careful,
         NEW t \in Threads, NEW h \in Handles, NEW r \in Regions, Create(t, h, r)
  PROVE  KeptInv'
<1>1. /\ h \notin stored /\ stored' = stored \cup {h}
      /\ buffer' = [buffer EXCEPT ![h] = r] /\ lent' = [lent EXCEPT ![r] = @ + 1]
      /\ UNCHANGED <<pc, op, out, in>>
  BY DEF Create, CreatedBuffer
<1>2. MemoryKept'
  <2> SUFFICES ASSUME careful, NEW q \in Regions
               PROVE  lent'[q] <= Cardinality((Reaching(q) \cap stored)')
    BY <1>1 DEF MemoryKept
  <2>1. lent[q] <= Cardinality(Reaching(q) \cap stored) /\ lent[q] \in Nat
    BY DEF IInv, TypeOK, KeptInv, MemoryKept
  <2>2. Reaching(q) \cap stored \in SUBSET Handles /\ h \notin Reaching(q) \cap stored
    BY <1>1 DEF Reaching
  <2>3. CASE q = r
    <3>1. (Reaching(q) \cap stored)' = (Reaching(q) \cap stored) \cup {h} /\ lent'[q] = lent[q] + 1
      BY <1>1, <2>3 DEF IInv, TypeOK, Reaching
    <3>2. /\ Cardinality((Reaching(q) \cap stored) \cup {h}) = Cardinality(Reaching(q) \cap stored) + 1
          /\ Cardinality(Reaching(q) \cap stored) \in Nat
      BY <2>2, CountHandles
    <3>3. Cardinality((Reaching(q) \cap stored)') = Cardinality(Reaching(q) \cap stored) + 1
      BY <3>1, <3>2
    <3>4. QED
      BY <2>1, <3>1, <3>2, <3>3
  <2>4. CASE q # r
    <3>1. (Reaching(q) \cap stored)' = Reaching(q) \cap stored /\ lent'[q] = lent[q]
      BY <1>1, <2>4 DEF IInv, TypeOK, Reaching
    <3>2. QED
      BY <2>1, <3>1
  <2>5. QED
    BY <2>3, <2>4
<1>3. careful => InUseIsStored' /\ ReleasedApart'
  BY <1>1 DEF KeptInv, InUseIsStored, ReleasedApart
<1>4. careful => RemovedIsEmpty'
  BY <1>1 DEF IInv, TypeOK, KeptInv, InUseIsStored, RemovedIsEmpty
<1>5. QED
  BY <1>2, <1>3, <1>4 DEF KeptInv

LEMMA BeginKept ==
  ASSUME IInv, KeptInv, UNCHANGED careful, NEW t \in Threads, NEW o \in Ops,
         NEW h1 \in Handles, NEW h2 \in Handles, o # "copy" => h2 = h1, Begin(t, o, h1, h2)
  PROVE  KeptInv'
<1>1. /\ pc[t] = "idle" /\ pc'[t] = "ref_out" /\ op'[t] = o /\ out'[t] = h1 /\ in'[t] = h2
      /\ StepOf(t) /\ UNCHANGED <<stored, buffer, lent>> /\ h1 \in stored /\ h2 \in stored
  BY DEF IInv, TypeOK, StepOf, Begin, MayCall, Goto, entries
<1>2. careful /\ o = "release" =>
        \A u \in Threads \ {t} : pc[u] # "idle" => h1 \notin {out[u], in[u]}
  BY DEF Begin, MayCall, UsedByOther
<1>3. careful /\ o # "release" =>
        \A u \in Threads \ {t} : pc[u] # "idle" /\ op[u] = "release" => out[u] \notin {h1, h2}
  BY DEF Begin, MayCall, ReleasedByOther
<1>4. MemoryKept'
  BY <1>1 DEF KeptInv, MemoryKept, Reaching
<1>5. careful => InUseIsStored' /\ RemovedIsEmpty'
  BY <1>1 DEF KeptInv, StepOf, InUseIsStored, RemovedIsEmpty
<1>6. ASSUME careful PROVE ReleasedApart'
  <2>1. CASE o = "release"
    BY <1>1, <1>2, <1>6, <2>1 DEF KeptInv, StepOf, ReleasedApart
  <2>2. CASE o # "release"
    BY <1>1, <1>3, <1>6, <2>2 DEF KeptInv, StepOf, ReleasedApart
  <2>3. QED
    BY <2>1, <2>2
<1>7. QED
  BY <1>4, <1>5, <1>6 DEF KeptInv

LEMMA ReleaseBufferKept ==
  ASSUME IInv, KeptInv, UNCHANGED careful, NEW t \in Threads, ReleaseBuffer(t)
  PROVE  KeptInv'
<1> DEFINE h0 == out[t]
           r0 == buffer[h0]
<1>1. /\ h0 \in Handles /\ r0 \in Regions /\ StepOf(t)
      /\ pc[t] = "work" /\ pc'[t] = "drop_out" /\ op[t] = "release"
      /\ UNCHANGED <<stored, op, out, in>>
      /\ buffer' = [buffer EXCEPT ![h0] = NULL] /\ lent' = [lent EXCEPT ![r0] = @ - 1]
  BY DEF IInv, TypeOK, ControlOK, StepOf, ReleaseBuffer, Goto
<1>2. MemoryKept'
  <2> SUFFICES ASSUME careful, NEW q \in Regions
               PROVE  lent'[q] <= Cardinality((Reaching(q) \cap stored)')
    BY <1>1 DEF MemoryKept
  <2>1. lent[q] <= Cardinality(Reaching(q) \cap stored) /\ lent[q] \in Nat
    BY DEF IInv, TypeOK, KeptInv, MemoryKept
  <2>2. Reaching(q) \cap stored \in SUBSET Handles /\ h0 \in stored
    BY <1>1 DEF KeptInv, InUseIsStored, Reaching
  <2>3. CASE q = r0
    <3>1. /\ (Reaching(q) \cap stored)' = (Reaching(q) \cap stored) \ {h0}
          /\ h0 \in Reaching(q) \cap stored /\ lent'[q] = lent[q] - 1
      BY <1>1, <2>2, <2>3, NullAssumption DEF IInv, TypeOK, Reaching
    <3>2. /\ Cardinality((Reaching(q) \cap stored) \ {h0}) = Cardinality(Reaching(q) \cap stored) - 1
          /\ Cardinality(Reaching(q) \cap stored) \in Nat
      BY <1>1, <2>2, <3>1, CountHandles
    <3>3. Cardinality((Reaching(q) \cap stored)') = Cardinality(Reaching(q) \cap stored) - 1
      BY <3>1, <3>2
    <3>4. QED
      BY <2>1, <3>1, <3>2, <3>3
  <2>4. CASE q # r0
    <3>1. (Reaching(q) \cap stored)' = Reaching(q) \cap stored /\ lent'[q] = lent[q]
      BY <1>1, <2>4, NullAssumption DEF IInv, TypeOK, Reaching
    <3>2. QED
      BY <2>1, <3>1
  <2>5. QED
    BY <2>3, <2>4
<1>3. careful => InUseIsStored' /\ ReleasedApart'
  BY <1>1 DEF KeptInv, StepOf, InUseIsStored, ReleasedApart
<1>4. careful => RemovedIsEmpty'
  BY <1>1 DEF IInv, TypeOK, ControlOK, KeptInv, StepOf, RemovedIsEmpty
<1>5. QED
  BY <1>2, <1>3, <1>4 DEF KeptInv

LEMMA RemoveKept ==
  ASSUME IInv, KeptInv, UNCHANGED careful, NEW t \in Threads, Remove(t)
  PROVE  KeptInv'
<1> DEFINE h0 == out[t]
<1>1. /\ h0 \in Handles /\ StepOf(t)
      /\ pc[t] = "remove" /\ pc'[t] = "idle" /\ op[t] = "release"
      /\ UNCHANGED lent /\ stored' = stored \ {h0} /\ buffer' = [buffer EXCEPT ![h0] = NULL]
  BY DEF IInv, TypeOK, ControlOK, StepOf, Remove, Finish, Goto
<1>2. careful => buffer[h0] = NULL
  BY <1>1 DEF KeptInv, RemovedIsEmpty
<1>3. MemoryKept'
  <2> SUFFICES ASSUME careful, NEW q \in Regions
               PROVE  lent'[q] <= Cardinality((Reaching(q) \cap stored)')
    BY <1>1 DEF MemoryKept
  <2>1. (Reaching(q) \cap stored)' = Reaching(q) \cap stored /\ lent'[q] = lent[q]
    BY <1>1, <1>2, NullAssumption DEF IInv, TypeOK, Reaching
  <2>2. QED
    BY <2>1 DEF KeptInv, MemoryKept
<1>4. careful => InUseIsStored' /\ ReleasedApart'
  BY <1>1 DEF KeptInv, StepOf, InUseIsStored, ReleasedApart
<1>5. careful => RemovedIsEmpty'
  BY <1>1 DEF IInv, TypeOK, ControlOK, KeptInv, StepOf, RemovedIsEmpty
<1>6. QED
  BY <1>3, <1>4, <1>5 DEF KeptInv

LEMMA NextKept == ValidRegions = Regions /\ IInv /\ KeptInv /\ [Next]_vars => KeptInv'
<1> SUFFICES ASSUME ValidRegions = Regions, IInv, KeptInv, [Next]_vars PROVE KeptInv'
  OBVIOUS
<1>1. CASE UNCHANGED vars
  BY <1>1 DEF vars, KeptInv, MemoryKept, Reaching, InUseIsStored, ReleasedApart, RemovedIsEmpty
<1>2. ASSUME Next PROVE KeptInv'
  <2>1. PICK t \in Threads :
          \/ \E h \in Handles, r \in Regions : Create(t, h, r)
          \/ CreateFails(t)
          \/ \E h1, h2 \in Handles : ta_sa_svp_buffer_copy(t, h1, h2)
          \/ \E h \in Handles :
               \/ ta_sa_svp_buffer_write(t, h)
               \/ ta_sa_svp_buffer_check(t, h)
               \/ ta_sa_svp_key_check(t, h)
               \/ ta_sa_svp_buffer_release(t, h)
          \/ Refused(t)
          \/ CallStep(t)
    BY <1>2 DEF Next
  <2>2. UNCHANGED careful
    BY <1>2 DEF Next
  <2>3. CASE CreateFails(t) \/ Refused(t) \/ \E h \in Handles, r \in Regions : Create(t, h, r)
    BY <2>2, <2>3, AnswerKept, CreateKept
  <2>4. CASE \E o \in Ops, h1, h2 \in Handles : Begin(t, o, h1, h2) /\ (o # "copy" => h2 = h1)
    BY <2>2, <2>4, BeginKept
  <2>5. CASE \E h1, h2 \in Handles : ta_sa_svp_buffer_copy(t, h1, h2)
    BY <2>4, <2>5 DEF ta_sa_svp_buffer_copy, Ops
  <2>6. CASE \E h \in Handles :
               \/ ta_sa_svp_buffer_write(t, h)
               \/ ta_sa_svp_buffer_check(t, h)
               \/ ta_sa_svp_key_check(t, h)
               \/ ta_sa_svp_buffer_release(t, h)
    <3>1. PICK h \in Handles : \E o \in Ops : Begin(t, o, h, h)
      BY <2>6 DEF ta_sa_svp_buffer_write, ta_sa_svp_buffer_check, ta_sa_svp_key_check,
                  ta_sa_svp_buffer_release, Ops
    <3>2. QED
      BY <2>4, <3>1
  <2>7. CASE CallStep(t)
    <3>1. CASE ReleaseBuffer(t) \/ Remove(t)
      BY <2>2, <3>1, ReleaseBufferKept, RemoveKept
    <3>2. CASE \/ \E inside \in BOOLEAN : svp_write(t, inside) \/ svp_copy(t, inside)
               \/ \E equal \in BOOLEAN : svp_key_check(t, equal)
               \/ \E equal, overflow \in BOOLEAN : svp_digest(t, equal, overflow)
      BY <2>2, <3>2, WorkedKept DEF svp_write, svp_copy, svp_key_check, svp_digest
    <3>3. QED
      BY <2>2, <2>7, <3>1, <3>2, QuietKept DEF CallStep
  <2>8. QED
    BY <2>1, <2>3, <2>5, <2>6, <2>7
<1>3. QED
  BY <1>1, <1>2

(* A careful application loses no memory: what it has given to the TA is in as *)
(* many buffers until it is handed back, however calls interleave.  It needs that   *)
(* memory_is_valid_svp accepts what the application allocates: svp_create     *)
(* keeps memory that is refused (StoredHasMemory in the README).              *)
THEOREM Kept == ValidRegions = Regions => (Spec => []MemoryKept)
<1> SUFFICES ASSUME ValidRegions = Regions PROVE Spec => []MemoryKept
  OBVIOUS
<1>1. KeptInv => MemoryKept
  BY DEF KeptInv
<1>2. IInv /\ KeptInv /\ [Next]_vars => KeptInv'
  BY NextKept
<1>3. QED
  BY Invariance, InitKept, <1>1, <1>2, PTL DEF Spec
=============================================================================
