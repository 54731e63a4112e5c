--------------------------- MODULE MacStoreProofs ---------------------------
(***************************************************************************)
(* Proofs about MacStore, for every finite set of threads and any slots    *)
(* and addresses: IInv is an inductive invariant, and the store implements *)
(* MacContract.                                                            *)
(***************************************************************************)
EXTENDS MacStore, TLAPS

\* The steps that name no prover: SMT first, then Zenon, with time to spare.
USE SMTT(60), ZenonT(60)

\* A thread that works on a MAC has it in the store, with its context live.
LEMMA WorkedOn ==
  ASSUME IInv, NEW t \in Threads, pc[t] = "work"
  PROVE  /\ Context(t) \in Contexts
         /\ Mac(t) \in mac_s
         /\ Mac(t).evp \in Evps
         /\ Evp(t) \in evp_s
<1>1. Context(t) \in Contexts /\ Mac(t) \in mac_s
  BY MacAssumption DEF IInv, TypeOK, ControlOK, UsedIsStored, Referring, Context, Mac, Calls
<1>2. Mac(t).evp \in Evps
  BY <1>1 DEF mac_s
<1>3. Evp(t) # NULL
  BY <1>1, <1>2, MacAssumption DEF IInv, EvpOwnedOnce, Mac, Evp
<1>4. QED
  BY <1>1, <1>2, <1>3 DEF IInv, TypeOK, Evp

\* A new context has absorbed nothing.
LEMMA NewEvpType == NewEvp \in evp_s /\ NewEvp # NULL
<1>1. <<>> \in Seq(Chunks)
  OBVIOUS
<1>2. NewEvp \in evp_s
  BY <1>1 DEF NewEvp, evp_s
<1>3. QED
  BY <1>2, MacAssumption

\* What a handler does to the context.
LEMMA ChangedEvp ==
  ASSUME IInv, NEW t \in Threads, pc[t] = "work"
  PROVE  /\ Absorbed(Evp(t), call[t].chunk) \in evp_s
         /\ Finished(Evp(t)) \in evp_s
<1>1. Evp(t) \in evp_s
  BY WorkedOn
<1>2. call[t].chunk \in Chunks \cup {NULL}
  BY MacAssumption DEF IInv, TypeOK, ControlOK, Calls
<1>3. QED
  BY <1>1, <1>2 DEF evp_s, Absorbed, Finished

\* Work on a context neither makes nor frees one.
LEMMA SetEvpLive ==
  ASSUME IInv, NEW t \in Threads, pc[t] = "work", NEW m \in evp_s, SetEvp(t, m)
  PROVE  /\ heap' \in [Evps -> evp_s \cup {NULL}]
         /\ \A e \in Evps : heap'[e] # NULL <=> heap[e] # NULL
<1>1. heap \in [Evps -> evp_s \cup {NULL}] /\ Mac(t).evp \in Evps /\ heap[Mac(t).evp] # NULL /\ m # NULL
  BY WorkedOn, MacAssumption DEF IInv, TypeOK, Evp
<1>2. QED
  BY <1>1 DEF SetEvp

-----------------------------------------------------------------------------
(* Every action preserves IInv.                                               *)

LEMMA CallIInv ==
  ASSUME IInv, NEW t \in Threads, NEW name \in Names, NEW c \in Contexts \cup {NULL},
         NEW chunk \in Chunks \cup {NULL}, NEW out \in Outs, Call(t, name, c, chunk, out)
  PROVE  IInv'
<1> USE MacAssumption DEF IInv, Names, Points, Errors, Outs, Algorithms, Chunks
<1> USE DEF Call, Goto, MayCall, First, Answers, Fails, Context, Mac, Evp, Is, SetEvp, Unwraps, Absorbed, Finished
<1>1. TypeOK'
  BY DEF TypeOK, Calls, Answered, mac_s, evp_s, ControlOK, UsedIsStored, Referring
<1>2. ControlOK'
  BY DEF TypeOK, Calls, Answered, mac_s, evp_s, ControlOK
<1>3. UsedIsStored'
  BY DEF TypeOK, Calls, Answered, mac_s, evp_s, ControlOK, UsedIsStored, NothingHeld, Referring, Locking
<1>4. EvpOwnedOnce'
  <2>1. UNCHANGED <<store, heap, made>>
    OBVIOUS
  <2>2. QED
    BY <2>1 DEF EvpOwnedOnce
<1>5. NothingHeld'
  BY DEF TypeOK, Calls, Answered, mac_s, evp_s, ControlOK, UsedIsStored, NothingHeld, Referring, Locking
<1>6. MadeIsNew'
  <2>1. UNCHANGED <<heap, made>>
    OBVIOUS
  <2>2. QED
    BY <2>1 DEF MadeIsNew
<1>7. QED
  BY <1>1, <1>2, <1>3, <1>4, <1>5, <1>6

LEMMA InitRefusedIInv ==
  ASSUME IInv, NEW t \in Threads, InitRefused(t)
  PROVE  IInv'
<1> USE MacAssumption DEF IInv, Names, Points, Errors, Outs, Algorithms, Chunks
<1> USE DEF InitRefused, Goto, Answers, Fails, Context, Mac, Evp, Is, SetEvp, Unwraps, Absorbed, Finished
<1>1. TypeOK'
  BY DEF TypeOK, Calls, Answered, mac_s, evp_s, ControlOK, UsedIsStored, Referring
<1>2. ControlOK'
  BY DEF TypeOK, Calls, Answered, mac_s, evp_s, ControlOK
<1>3. UsedIsStored'
  BY DEF TypeOK, Calls, Answered, mac_s, evp_s, ControlOK, UsedIsStored, NothingHeld, Referring, Locking
<1>4. EvpOwnedOnce'
  <2>1. UNCHANGED <<store, heap, made>>
    OBVIOUS
  <2>2. QED
    BY <2>1 DEF EvpOwnedOnce
<1>5. NothingHeld'
  BY DEF TypeOK, Calls, Answered, mac_s, evp_s, ControlOK, UsedIsStored, NothingHeld, Referring, Locking
<1>6. MadeIsNew'
  <2>1. UNCHANGED <<heap, made>>
    OBVIOUS
  <2>2. QED
    BY <2>1 DEF MadeIsNew
<1>7. QED
  BY <1>1, <1>2, <1>3, <1>4, <1>5, <1>6

LEMMA CreateIInv ==
  ASSUME IInv, NEW t \in Threads, NEW e \in Evps, Create(t, e)
  PROVE  IInv'
<1> USE MacAssumption DEF IInv, Names, Points, Errors, Outs, Algorithms, Chunks
<1> USE NewEvpType
<1> USE DEF Create, Goto, Answers, Fails, Context, Mac, Evp, Is, SetEvp, Unwraps, Absorbed, Finished
<1>1. TypeOK'
  BY DEF TypeOK, Calls, Answered, mac_s, evp_s, ControlOK, UsedIsStored, Referring
<1>2. ControlOK'
  BY DEF TypeOK, Calls, Answered, mac_s, evp_s, ControlOK
<1>3. UsedIsStored'
  BY DEF TypeOK, Calls, Answered, mac_s, evp_s, ControlOK, UsedIsStored, NothingHeld, Referring, Locking
<1>4. EvpOwnedOnce'
  <2>1. /\ made[t] = NULL
        /\ \A u \in Threads : made[u] # e
        /\ \A c \in Contexts : store[c] # NULL => store[c].evp # e
    BY DEF TypeOK, ControlOK, EvpOwnedOnce
  <2>2. NewEvp # NULL
    BY NewEvpType
  <2>3. /\ store' = store
        /\ \A u \in Threads : made'[u] = IF u = t THEN e ELSE made[u]
        /\ \A f \in Evps : heap'[f] # NULL <=> heap[f] # NULL \/ f = e
    BY <2>2 DEF TypeOK
  <2>4. QED
    BY <2>1, <2>3 DEF EvpOwnedOnce
<1>5. NothingHeld'
  BY DEF TypeOK, Calls, Answered, mac_s, evp_s, ControlOK, UsedIsStored, NothingHeld, Referring, Locking
<1>6. MadeIsNew'
  BY DEF TypeOK, mac_s, ControlOK, EvpOwnedOnce, UsedIsStored, MadeIsNew
<1>7. QED
  BY <1>1, <1>2, <1>3, <1>4, <1>5, <1>6

LEMMA AddIInv ==
  ASSUME IInv, NEW t \in Threads, NEW c \in Contexts, NEW a \in Algorithms, Add(t, c, a)
  PROVE  IInv'
<1> USE MacAssumption DEF IInv, Names, Points, Errors, Outs, Algorithms, Chunks
<1> USE DEF Add, Goto, Answers, Fails, Context, Mac, Evp, Is, SetEvp, Unwraps, Absorbed, Finished
<1>1. TypeOK'
  BY DEF TypeOK, Calls, Answered, mac_s, evp_s, ControlOK, UsedIsStored, Referring
<1>2. ControlOK'
  BY DEF TypeOK, Calls, Answered, mac_s, evp_s, ControlOK
<1>3. UsedIsStored'
  BY DEF TypeOK, Calls, Answered, mac_s, evp_s, ControlOK, UsedIsStored, NothingHeld, Referring, Locking
<1>4. EvpOwnedOnce'
  <2>1. made[t] \in Evps
    BY DEF TypeOK, ControlOK
  <2>2. /\ heap' = heap
        /\ \A u \in Threads : made'[u] = IF u = t THEN NULL ELSE made[u]
        /\ \A d \in Contexts \ {c} : store'[d] = store[d]
        /\ store'[c] # NULL /\ store'[c].evp = made[t]
    BY <2>1 DEF TypeOK, mac_s
  <2>3. \A e \in Evps :
          heap'[e] # NULL <=> \/ \E d \in Contexts : store'[d] # NULL /\ store'[d].evp = e
                              \/ \E u \in Threads : made'[u] = e
    <3> TAKE e \in Evps
    <3>1. CASE e = made[t]
      BY <3>1, <2>1, <2>2 DEF EvpOwnedOnce
    <3>2. CASE e # made[t]
      BY <3>2, <2>1, <2>2 DEF EvpOwnedOnce
    <3>3. QED
      BY <3>1, <3>2
  <2>4. \A d \in Contexts : store[d] # NULL => store[d].evp # made[t]
    BY DEF EvpOwnedOnce
  <2>5. \A d, f \in Contexts :
          store'[d] # NULL /\ store'[f] # NULL /\ store'[d].evp = store'[f].evp => d = f
    BY <2>2, <2>4 DEF EvpOwnedOnce
  <2>6. \A u, v \in Threads : made'[u] # NULL /\ made'[u] = made'[v] => u = v
    BY <2>2 DEF EvpOwnedOnce
  <2>7. \A d \in Contexts, u \in Threads : store'[d] # NULL => made'[u] # store'[d].evp
    <3>1. \A d \in Contexts : store'[d] # NULL => store'[d].evp # NULL
      BY <2>1, <2>2 DEF TypeOK, mac_s
    <3>2. QED
      BY <2>1, <2>2, <3>1 DEF EvpOwnedOnce
  <2>8. QED
    BY <2>3, <2>5, <2>6, <2>7 DEF EvpOwnedOnce
<1>5. NothingHeld'
  BY DEF TypeOK, Calls, Answered, mac_s, evp_s, ControlOK, UsedIsStored, NothingHeld, Referring, Locking
<1>6. MadeIsNew'
  BY DEF TypeOK, mac_s, ControlOK, EvpOwnedOnce, UsedIsStored, MadeIsNew
<1>7. QED
  BY <1>1, <1>2, <1>3, <1>4, <1>5, <1>6

LEMMA AddFailsIInv ==
  ASSUME IInv, NEW t \in Threads, AddFails(t)
  PROVE  IInv'
<1> USE MacAssumption DEF IInv, Names, Points, Errors, Outs, Algorithms, Chunks
<1> USE DEF AddFails, Goto, Answers, Fails, Context, Mac, Evp, Is, SetEvp, Unwraps, Absorbed, Finished
<1>1. TypeOK'
  BY DEF TypeOK, Calls, Answered, mac_s, evp_s, ControlOK, UsedIsStored, Referring
<1>2. ControlOK'
  BY DEF TypeOK, Calls, Answered, mac_s, evp_s, ControlOK
<1>3. UsedIsStored'
  BY DEF TypeOK, Calls, Answered, mac_s, evp_s, ControlOK, UsedIsStored, NothingHeld, Referring, Locking
<1>4. EvpOwnedOnce'
  <2>1. UNCHANGED <<store, heap, made>>
    OBVIOUS
  <2>2. QED
    BY <2>1 DEF EvpOwnedOnce
<1>5. NothingHeld'
  BY DEF TypeOK, Calls, Answered, mac_s, evp_s, ControlOK, UsedIsStored, NothingHeld, Referring, Locking
<1>6. MadeIsNew'
  <2>1. UNCHANGED <<heap, made>>
    OBVIOUS
  <2>2. QED
    BY <2>1 DEF MadeIsNew
<1>7. QED
  BY <1>1, <1>2, <1>3, <1>4, <1>5, <1>6

LEMMA ReferIInv ==
  ASSUME IInv, NEW t \in Threads, Refer(t)
  PROVE  IInv'
<1> USE MacAssumption DEF IInv, Names, Points, Errors, Outs, Algorithms, Chunks
<1> USE DEF Refer, Goto, Answers, Fails, Context, Mac, Evp, Is, SetEvp, Unwraps, Absorbed, Finished
<1>1. TypeOK'
  BY DEF TypeOK, Calls, Answered, mac_s, evp_s, ControlOK, UsedIsStored, Referring
<1>2. ControlOK'
  BY DEF TypeOK, Calls, Answered, mac_s, evp_s, ControlOK
<1>3. UsedIsStored'
  BY DEF TypeOK, Calls, Answered, mac_s, evp_s, ControlOK, UsedIsStored, NothingHeld, Referring, Locking
<1>4. EvpOwnedOnce'
  <2>1. UNCHANGED <<store, heap, made>>
    OBVIOUS
  <2>2. QED
    BY <2>1 DEF EvpOwnedOnce
<1>5. NothingHeld'
  BY DEF TypeOK, Calls, Answered, mac_s, evp_s, ControlOK, UsedIsStored, NothingHeld, Referring, Locking
<1>6. MadeIsNew'
  <2>1. UNCHANGED <<heap, made>>
    OBVIOUS
  <2>2. QED
    BY <2>1 DEF MadeIsNew
<1>7. QED
  BY <1>1, <1>2, <1>3, <1>4, <1>5, <1>6

LEMMA NoMacIInv ==
  ASSUME IInv, NEW t \in Threads, NoMac(t)
  PROVE  IInv'
<1> USE MacAssumption DEF IInv, Names, Points, Errors, Outs, Algorithms, Chunks
<1> USE DEF NoMac, Goto, Answers, Fails, Context, Mac, Evp, Is, SetEvp, Unwraps, Absorbed, Finished
<1>1. TypeOK'
  BY DEF TypeOK, Calls, Answered, mac_s, evp_s, ControlOK, UsedIsStored, Referring
<1>2. ControlOK'
  BY DEF TypeOK, Calls, Answered, mac_s, evp_s, ControlOK
<1>3. UsedIsStored'
  BY DEF TypeOK, Calls, Answered, mac_s, evp_s, ControlOK, UsedIsStored, NothingHeld, Referring, Locking
<1>4. EvpOwnedOnce'
  <2>1. UNCHANGED <<store, heap, made>>
    OBVIOUS
  <2>2. QED
    BY <2>1 DEF EvpOwnedOnce
<1>5. NothingHeld'
  BY DEF TypeOK, Calls, Answered, mac_s, evp_s, ControlOK, UsedIsStored, NothingHeld, Referring, Locking
<1>6. MadeIsNew'
  <2>1. UNCHANGED <<heap, made>>
    OBVIOUS
  <2>2. QED
    BY <2>1 DEF MadeIsNew
<1>7. QED
  BY <1>1, <1>2, <1>3, <1>4, <1>5, <1>6

LEMMA mac_lockIInv ==
  ASSUME IInv, NEW t \in Threads, mac_lock(t)
  PROVE  IInv'
<1> USE MacAssumption DEF IInv, Names, Points, Errors, Outs, Algorithms, Chunks
<1> USE DEF mac_lock, Goto, Answers, Fails, Context, Mac, Evp, Is, SetEvp, Unwraps, Absorbed, Finished
<1>1. TypeOK'
  BY DEF TypeOK, Calls, Answered, mac_s, evp_s, ControlOK, UsedIsStored, Referring
<1>2. ControlOK'
  BY DEF TypeOK, Calls, Answered, mac_s, evp_s, ControlOK
<1>3. UsedIsStored'
  BY DEF TypeOK, Calls, Answered, mac_s, evp_s, ControlOK, UsedIsStored, NothingHeld, Referring, Locking
<1>4. EvpOwnedOnce'
  <2>1. UNCHANGED <<store, heap, made>>
    OBVIOUS
  <2>2. QED
    BY <2>1 DEF EvpOwnedOnce
<1>5. NothingHeld'
  BY DEF TypeOK, Calls, Answered, mac_s, evp_s, ControlOK, UsedIsStored, NothingHeld, Referring, Locking
<1>6. MadeIsNew'
  <2>1. UNCHANGED <<heap, made>>
    OBVIOUS
  <2>2. QED
    BY <2>1 DEF MadeIsNew
<1>7. QED
  BY <1>1, <1>2, <1>3, <1>4, <1>5, <1>6

LEMMA mac_unlockIInv ==
  ASSUME IInv, NEW t \in Threads, mac_unlock(t)
  PROVE  IInv'
<1> USE MacAssumption DEF IInv, Names, Points, Errors, Outs, Algorithms, Chunks
<1> USE DEF mac_unlock, Goto, Answers, Fails, Context, Mac, Evp, Is, SetEvp, Unwraps, Absorbed, Finished
<1>1. TypeOK'
  BY DEF TypeOK, Calls, Answered, mac_s, evp_s, ControlOK, UsedIsStored, Referring
<1>2. ControlOK'
  BY DEF TypeOK, Calls, Answered, mac_s, evp_s, ControlOK
<1>3. UsedIsStored'
  BY DEF TypeOK, Calls, Answered, mac_s, evp_s, ControlOK, UsedIsStored, NothingHeld, Referring, Locking
<1>4. EvpOwnedOnce'
  <2>1. UNCHANGED <<store, heap, made>>
    OBVIOUS
  <2>2. QED
    BY <2>1 DEF EvpOwnedOnce
<1>5. NothingHeld'
  BY DEF TypeOK, Calls, Answered, mac_s, evp_s, ControlOK, UsedIsStored, NothingHeld, Referring, Locking
<1>6. MadeIsNew'
  <2>1. UNCHANGED <<heap, made>>
    OBVIOUS
  <2>2. QED
    BY <2>1 DEF MadeIsNew
<1>7. QED
  BY <1>1, <1>2, <1>3, <1>4, <1>5, <1>6

LEMMA DropIInv ==
  ASSUME IInv, NEW t \in Threads, Drop(t)
  PROVE  IInv'
<1> USE MacAssumption DEF IInv, Names, Points, Errors, Outs, Algorithms, Chunks
<1> USE DEF Drop, Goto, Answers, Fails, Context, Mac, Evp, Is, SetEvp, Unwraps, Absorbed, Finished
<1>1. TypeOK'
  BY DEF TypeOK, Calls, Answered, mac_s, evp_s, ControlOK, UsedIsStored, Referring
<1>2. ControlOK'
  BY DEF TypeOK, Calls, Answered, mac_s, evp_s, ControlOK
<1>3. UsedIsStored'
  BY DEF TypeOK, Calls, Answered, mac_s, evp_s, ControlOK, UsedIsStored, NothingHeld, Referring, Locking
<1>4. EvpOwnedOnce'
  <2>1. UNCHANGED <<store, heap, made>>
    OBVIOUS
  <2>2. QED
    BY <2>1 DEF EvpOwnedOnce
<1>5. NothingHeld'
  BY DEF TypeOK, Calls, Answered, mac_s, evp_s, ControlOK, UsedIsStored, NothingHeld, Referring, Locking
<1>6. MadeIsNew'
  <2>1. UNCHANGED <<heap, made>>
    OBVIOUS
  <2>2. QED
    BY <2>1 DEF MadeIsNew
<1>7. QED
  BY <1>1, <1>2, <1>3, <1>4, <1>5, <1>6

LEMMA ProcessIInv ==
  ASSUME IInv, NEW t \in Threads, Process(t)
  PROVE  IInv'
<1> USE MacAssumption DEF IInv, Names, Points, Errors, Outs, Algorithms, Chunks
<1>1. PICK m \in evp_s : SetEvp(t, m)
  BY WorkedOn, ChangedEvp DEF Process, Work
<1>2. /\ heap' \in [Evps -> evp_s \cup {NULL}]
      /\ \A e \in Evps : heap'[e] # NULL <=> heap[e] # NULL
  BY <1>1, WorkedOn, SetEvpLive DEF Process, Work
<1>3. Evp(t).message \in Seq(Chunks)
  BY WorkedOn DEF Process, Work, evp_s
<1> USE DEF Process, Work, Goto, Answers, Fails, Context, Is, Unwraps
<1>4. TypeOK'
  BY <1>2, <1>3 DEF TypeOK, Calls, Answered
<1>5. ControlOK'
  BY <1>3 DEF TypeOK, Calls, Answered, ControlOK
<1>6. UsedIsStored'
  BY DEF TypeOK, Calls, Answered, mac_s, evp_s, ControlOK, UsedIsStored, NothingHeld, Referring, Locking, Mac
<1>7. EvpOwnedOnce'
  BY <1>2 DEF EvpOwnedOnce
<1>8. NothingHeld'
  BY DEF TypeOK, Calls, Answered, ControlOK, UsedIsStored, NothingHeld, Referring, Locking
<1>9. MadeIsNew'
  <2>1. \A u \in Threads : made[u] # NULL => made[u] \in Evps /\ made[u] # Mac(t).evp
    BY WorkedOn DEF EvpOwnedOnce, TypeOK, Mac
  <2>2. UNCHANGED made
    OBVIOUS
  <2>3. QED
    BY <1>1, <2>1, <2>2 DEF MadeIsNew, SetEvp, TypeOK
<1>10. QED
  BY <1>4, <1>5, <1>6, <1>7, <1>8, <1>9

LEMMA ProcessFailsIInv ==
  ASSUME IInv, NEW t \in Threads, ProcessFails(t)
  PROVE  IInv'
<1> USE MacAssumption DEF IInv, Names, Points, Errors, Outs, Algorithms, Chunks
<1>1. PICK m \in evp_s : SetEvp(t, m)
  BY WorkedOn, ChangedEvp DEF ProcessFails, Work
<1>2. /\ heap' \in [Evps -> evp_s \cup {NULL}]
      /\ \A e \in Evps : heap'[e] # NULL <=> heap[e] # NULL
  BY <1>1, WorkedOn, SetEvpLive DEF ProcessFails, Work
<1>3. Evp(t).message \in Seq(Chunks)
  BY WorkedOn DEF ProcessFails, Work, evp_s
<1> USE DEF ProcessFails, Work, Goto, Answers, Fails, Context, Is, Unwraps
<1>4. TypeOK'
  BY <1>2, <1>3 DEF TypeOK, Calls, Answered
<1>5. ControlOK'
  BY <1>3 DEF TypeOK, Calls, Answered, ControlOK
<1>6. UsedIsStored'
  BY DEF TypeOK, Calls, Answered, mac_s, evp_s, ControlOK, UsedIsStored, NothingHeld, Referring, Locking, Mac
<1>7. EvpOwnedOnce'
  BY <1>2 DEF EvpOwnedOnce
<1>8. NothingHeld'
  BY DEF TypeOK, Calls, Answered, ControlOK, UsedIsStored, NothingHeld, Referring, Locking
<1>9. MadeIsNew'
  <2>1. \A u \in Threads : made[u] # NULL => made[u] \in Evps /\ made[u] # Mac(t).evp
    BY WorkedOn DEF EvpOwnedOnce, TypeOK, Mac
  <2>2. UNCHANGED made
    OBVIOUS
  <2>3. QED
    BY <1>1, <2>1, <2>2 DEF MadeIsNew, SetEvp, TypeOK
<1>10. QED
  BY <1>4, <1>5, <1>6, <1>7, <1>8, <1>9

LEMMA ProcessLateIInv ==
  ASSUME IInv, NEW t \in Threads, ProcessLate(t)
  PROVE  IInv'
<1> USE MacAssumption DEF IInv, Names, Points, Errors, Outs, Algorithms, Chunks
<1> USE DEF ProcessLate, Work, Goto, Answers, Fails, Context, Mac, Evp, Is, SetEvp, Unwraps, Absorbed, Finished
<1>1. TypeOK'
  BY DEF TypeOK, Calls, Answered, mac_s, evp_s, ControlOK, UsedIsStored, Referring
<1>2. ControlOK'
  BY DEF TypeOK, Calls, Answered, mac_s, evp_s, ControlOK
<1>3. UsedIsStored'
  BY DEF TypeOK, Calls, Answered, mac_s, evp_s, ControlOK, UsedIsStored, NothingHeld, Referring, Locking
<1>4. EvpOwnedOnce'
  <2>1. UNCHANGED <<store, heap, made>>
    OBVIOUS
  <2>2. QED
    BY <2>1 DEF EvpOwnedOnce
<1>5. NothingHeld'
  BY DEF TypeOK, Calls, Answered, mac_s, evp_s, ControlOK, UsedIsStored, NothingHeld, Referring, Locking
<1>6. MadeIsNew'
  <2>1. UNCHANGED <<heap, made>>
    OBVIOUS
  <2>2. QED
    BY <2>1 DEF MadeIsNew
<1>7. QED
  BY <1>1, <1>2, <1>3, <1>4, <1>5, <1>6

LEMMA KeyRefusedIInv ==
  ASSUME IInv, NEW t \in Threads, KeyRefused(t)
  PROVE  IInv'
<1> USE MacAssumption DEF IInv, Names, Points, Errors, Outs, Algorithms, Chunks
<1> USE DEF KeyRefused, Work, Goto, Answers, Fails, Context, Mac, Evp, Is, SetEvp, Unwraps, Absorbed, Finished
<1>1. TypeOK'
  BY DEF TypeOK, Calls, Answered, mac_s, evp_s, ControlOK, UsedIsStored, Referring
<1>2. ControlOK'
  BY DEF TypeOK, Calls, Answered, mac_s, evp_s, ControlOK
<1>3. UsedIsStored'
  BY DEF TypeOK, Calls, Answered, mac_s, evp_s, ControlOK, UsedIsStored, NothingHeld, Referring, Locking
<1>4. EvpOwnedOnce'
  <2>1. UNCHANGED <<store, heap, made>>
    OBVIOUS
  <2>2. QED
    BY <2>1 DEF EvpOwnedOnce
<1>5. NothingHeld'
  BY DEF TypeOK, Calls, Answered, mac_s, evp_s, ControlOK, UsedIsStored, NothingHeld, Referring, Locking
<1>6. MadeIsNew'
  <2>1. UNCHANGED <<heap, made>>
    OBVIOUS
  <2>2. QED
    BY <2>1 DEF MadeIsNew
<1>7. QED
  BY <1>1, <1>2, <1>3, <1>4, <1>5, <1>6

LEMMA AnswerLengthIInv ==
  ASSUME IInv, NEW t \in Threads, AnswerLength(t)
  PROVE  IInv'
<1> USE MacAssumption DEF IInv, Names, Points, Errors, Outs, Algorithms, Chunks
<1> USE DEF AnswerLength, Work, Goto, Answers, Fails, Context, Mac, Evp, Is, SetEvp, Unwraps, Absorbed, Finished
<1>1. TypeOK'
  BY DEF TypeOK, Calls, Answered, mac_s, evp_s, ControlOK, UsedIsStored, Referring
<1>2. ControlOK'
  BY DEF TypeOK, Calls, Answered, mac_s, evp_s, ControlOK
<1>3. UsedIsStored'
  BY DEF TypeOK, Calls, Answered, mac_s, evp_s, ControlOK, UsedIsStored, NothingHeld, Referring, Locking
<1>4. EvpOwnedOnce'
  <2>1. UNCHANGED <<store, heap, made>>
    OBVIOUS
  <2>2. QED
    BY <2>1 DEF EvpOwnedOnce
<1>5. NothingHeld'
  BY DEF TypeOK, Calls, Answered, mac_s, evp_s, ControlOK, UsedIsStored, NothingHeld, Referring, Locking
<1>6. MadeIsNew'
  <2>1. UNCHANGED <<heap, made>>
    OBVIOUS
  <2>2. QED
    BY <2>1 DEF MadeIsNew
<1>7. QED
  BY <1>1, <1>2, <1>3, <1>4, <1>5, <1>6

LEMMA ComputeRefusedIInv ==
  ASSUME IInv, NEW t \in Threads, ComputeRefused(t)
  PROVE  IInv'
<1> USE MacAssumption DEF IInv, Names, Points, Errors, Outs, Algorithms, Chunks
<1> USE DEF ComputeRefused, Work, Goto, Answers, Fails, Context, Mac, Evp, Is, SetEvp, Unwraps, Absorbed, Finished
<1>1. TypeOK'
  BY DEF TypeOK, Calls, Answered, mac_s, evp_s, ControlOK, UsedIsStored, Referring
<1>2. ControlOK'
  BY DEF TypeOK, Calls, Answered, mac_s, evp_s, ControlOK
<1>3. UsedIsStored'
  BY DEF TypeOK, Calls, Answered, mac_s, evp_s, ControlOK, UsedIsStored, NothingHeld, Referring, Locking
<1>4. EvpOwnedOnce'
  <2>1. UNCHANGED <<store, heap, made>>
    OBVIOUS
  <2>2. QED
    BY <2>1 DEF EvpOwnedOnce
<1>5. NothingHeld'
  BY DEF TypeOK, Calls, Answered, mac_s, evp_s, ControlOK, UsedIsStored, NothingHeld, Referring, Locking
<1>6. MadeIsNew'
  <2>1. UNCHANGED <<heap, made>>
    OBVIOUS
  <2>2. QED
    BY <2>1 DEF MadeIsNew
<1>7. QED
  BY <1>1, <1>2, <1>3, <1>4, <1>5, <1>6

LEMMA ComputeIInv ==
  ASSUME IInv, NEW t \in Threads, Compute(t)
  PROVE  IInv'
<1> USE MacAssumption DEF IInv, Names, Points, Errors, Outs, Algorithms, Chunks
<1>1. PICK m \in evp_s : SetEvp(t, m)
  BY WorkedOn, ChangedEvp DEF Compute, Work
<1>2. /\ heap' \in [Evps -> evp_s \cup {NULL}]
      /\ \A e \in Evps : heap'[e] # NULL <=> heap[e] # NULL
  BY <1>1, WorkedOn, SetEvpLive DEF Compute, Work
<1>3. Evp(t).message \in Seq(Chunks)
  BY WorkedOn DEF Compute, Work, evp_s
<1> USE DEF Compute, Work, Goto, Answers, Fails, Context, Is, Unwraps
<1>4. TypeOK'
  BY <1>2, <1>3 DEF TypeOK, Calls, Answered
<1>5. ControlOK'
  BY <1>3 DEF TypeOK, Calls, Answered, ControlOK
<1>6. UsedIsStored'
  BY DEF TypeOK, Calls, Answered, mac_s, evp_s, ControlOK, UsedIsStored, NothingHeld, Referring, Locking, Mac
<1>7. EvpOwnedOnce'
  BY <1>2 DEF EvpOwnedOnce
<1>8. NothingHeld'
  BY DEF TypeOK, Calls, Answered, ControlOK, UsedIsStored, NothingHeld, Referring, Locking
<1>9. MadeIsNew'
  <2>1. \A u \in Threads : made[u] # NULL => made[u] \in Evps /\ made[u] # Mac(t).evp
    BY WorkedOn DEF EvpOwnedOnce, TypeOK, Mac
  <2>2. UNCHANGED made
    OBVIOUS
  <2>3. QED
    BY <1>1, <2>1, <2>2 DEF MadeIsNew, SetEvp, TypeOK
<1>10. QED
  BY <1>4, <1>5, <1>6, <1>7, <1>8, <1>9

LEMMA RemoveIInv ==
  ASSUME IInv, NEW t \in Threads, Remove(t)
  PROVE  IInv'
<1> USE MacAssumption DEF IInv, Names, Points, Errors, Outs, Algorithms, Chunks
<1> USE DEF Remove, Goto, Answers, Fails, Context, Mac, Evp, Is, SetEvp, Unwraps, Absorbed, Finished
<1>1. TypeOK'
  BY DEF TypeOK, Calls, Answered, mac_s, evp_s, ControlOK, UsedIsStored, Referring
<1>2. ControlOK'
  BY DEF TypeOK, Calls, Answered, mac_s, evp_s, ControlOK
<1>3. UsedIsStored'
  BY DEF TypeOK, Calls, Answered, mac_s, evp_s, ControlOK, UsedIsStored, NothingHeld, Referring, Locking
<1>4. EvpOwnedOnce'
  BY DEF TypeOK, Calls, Answered, mac_s, evp_s, ControlOK, UsedIsStored, EvpOwnedOnce, Referring
<1>5. NothingHeld'
  BY DEF TypeOK, Calls, Answered, mac_s, evp_s, ControlOK, UsedIsStored, NothingHeld, Referring, Locking
<1>6. MadeIsNew'
  <2>1. \A u \in Threads : made[u] # NULL => made[u] \in Evps /\ made[u] # Mac(t).evp
    BY DEF EvpOwnedOnce, TypeOK, Calls, ControlOK
  <2>2. UNCHANGED made /\ \A e \in Evps : e # Mac(t).evp => heap'[e] = heap[e]
    BY DEF TypeOK
  <2>3. QED
    BY <2>1, <2>2 DEF MadeIsNew
<1>7. QED
  BY <1>1, <1>2, <1>3, <1>4, <1>5, <1>6

LEMMA ReturnIInv ==
  ASSUME IInv, NEW t \in Threads, Return(t)
  PROVE  IInv'
<1> USE MacAssumption DEF IInv, Names, Points, Errors, Outs, Algorithms, Chunks
<1> USE DEF Return, Goto, Answers, Fails, Context, Mac, Evp, Is, SetEvp, Unwraps, Absorbed, Finished
<1>1. TypeOK'
  BY DEF TypeOK, Calls, Answered, mac_s, evp_s, ControlOK, UsedIsStored, Referring
<1>2. ControlOK'
  BY DEF TypeOK, Calls, Answered, mac_s, evp_s, ControlOK
<1>3. UsedIsStored'
  BY DEF TypeOK, Calls, Answered, mac_s, evp_s, ControlOK, UsedIsStored, NothingHeld, Referring, Locking
<1>4. EvpOwnedOnce'
  <2>1. /\ UNCHANGED store
        /\ \A u \in Threads : made'[u] = IF u = t THEN NULL ELSE made[u]
        /\ \A e \in Evps : heap'[e] = IF e = made[t] THEN NULL ELSE heap[e]
    BY DEF TypeOK
  <2>2. \A e \in Evps : e # NULL
    BY DEF TypeOK
  <2>3. \A c \in Contexts : store[c] # NULL => store[c].evp # made[t]
    BY DEF EvpOwnedOnce
  <2>4. ASSUME NEW e \in Evps
        PROVE  heap'[e] # NULL <=> \/ \E c \in Contexts : store[c] # NULL /\ store[c].evp = e
                                   \/ \E u \in Threads : made'[u] = e
    <3>1. CASE e = made[t]
      <4>1. heap'[e] = NULL
        BY <2>1, <3>1
      <4>2. \A u \in Threads : made'[u] # e
        BY <2>1, <2>2, <3>1 DEF EvpOwnedOnce
      <4>3. QED
        BY <2>3, <3>1, <4>1, <4>2
    <3>2. CASE e # made[t]
      <4>1. heap'[e] = heap[e] /\ \A u \in Threads : made'[u] = e <=> made[u] = e
        BY <2>1, <2>2, <3>2
      <4>2. QED
        BY <4>1 DEF EvpOwnedOnce
    <3>3. QED
      BY <3>1, <3>2
  <2>5. /\ \A u, v \in Threads : made'[u] # NULL /\ made'[u] = made'[v] => u = v
        /\ \A c \in Contexts, u \in Threads : store[c] # NULL => made'[u] # store[c].evp
    <3>1. \A c \in Contexts : store[c] # NULL => store[c].evp # NULL
      BY <2>2 DEF TypeOK, mac_s
    <3>2. QED
      BY <2>1, <3>1 DEF EvpOwnedOnce
  <2>6. QED
    BY <2>1, <2>4, <2>5 DEF EvpOwnedOnce
<1>5. NothingHeld'
  BY DEF TypeOK, Calls, Answered, mac_s, evp_s, ControlOK, UsedIsStored, NothingHeld, Referring, Locking
<1>6. MadeIsNew'
  BY DEF TypeOK, mac_s, ControlOK, EvpOwnedOnce, UsedIsStored, MadeIsNew
<1>7. QED
  BY <1>1, <1>2, <1>3, <1>4, <1>5, <1>6

-----------------------------------------------------------------------------
LEMMA InitIInv == Init => IInv
BY MacAssumption DEF Init, IInv, TypeOK, ControlOK, UsedIsStored, EvpOwnedOnce, NothingHeld,
  MadeIsNew, Points, Referring, Locking, Calls, Answered

LEMMA NextIInv == IInv /\ [Next]_vars => IInv'
<1> SUFFICES ASSUME IInv, [Next]_vars PROVE IInv'
  OBVIOUS
<1>1. CASE UNCHANGED vars
  BY <1>1 DEF vars, IInv, TypeOK, ControlOK, UsedIsStored, EvpOwnedOnce, NothingHeld,
    MadeIsNew, Referring, Locking, Context, Mac, Is
<1>2. CASE Next
  <2>1. PICK t \in Threads :
          \/ \E name \in Names, c \in Contexts \cup {NULL},
                chunk \in Chunks \cup {NULL}, out \in Outs : Call(t, name, c, chunk, out)
          \/ mac_lock(t)
          \/ CallStep(t)
    BY <1>2 DEF Next
  <2>2. CASE \E name \in Names, c \in Contexts \cup {NULL},
                chunk \in Chunks \cup {NULL}, out \in Outs : Call(t, name, c, chunk, out)
    BY <2>2, CallIInv
  <2>3. CASE mac_lock(t)
    BY <2>3, mac_lockIInv
  <2>4. CASE CallStep(t)
    BY <2>4, InitRefusedIInv, AddFailsIInv, CreateIInv, AddIInv, ReferIInv, NoMacIInv,
      ProcessIInv, ProcessFailsIInv, ProcessLateIInv, KeyRefusedIInv, AnswerLengthIInv,
      ComputeRefusedIInv, ComputeIInv, mac_unlockIInv, DropIInv, RemoveIInv, ReturnIInv
      DEF CallStep
  <2>5. QED
    BY <2>1, <2>2, <2>3, <2>4
<1>3. QED
  BY <1>1, <1>2

\* The inductive invariant, for every number of threads, slots and addresses.
THEOREM Invariance == Spec => []IInv
<1>1. QED
  BY InitIInv, NextIInv, PTL DEF Spec

\* No MAC is freed or used by another thread while a handler works on it.
THEOREM Exclusive == Spec => []UsedIsStored
<1>1. IInv => UsedIsStored
  BY DEF IInv
<1>2. QED
  BY <1>1, Invariance, PTL

\* No hmac_context_t and no cmac_context_t leaks or is freed twice.
THEOREM OwnedOnce == Spec => []EvpOwnedOnce
<1>1. IInv => EvpOwnedOnce
  BY DEF IInv
<1>2. QED
  BY <1>1, Invariance, PTL

\* A call that has returned has left no reference, lock or copy of a key.
THEOREM NothingLeft == Spec => []NothingHeld
<1>1. IInv => NothingHeld
  BY DEF IInv
<1>2. QED
  BY <1>1, Invariance, PTL

-----------------------------------------------------------------------------
(* Refinement: what a step of the store is for MacContract.                   *)

\* A call in progress is a request, with the answer that was decided.
LEMMA RequestIs ==
  ASSUME IInv, NEW t \in Threads, pc[t] # "idle"
  PROVE  /\ Requests[t] = [name |-> NameOf(t), context |-> Context(t),
                           chunk |-> call[t].chunk, answer |-> answer[t]]
         /\ Requests[t] # NULL
<1>1. Requests[t] = [name |-> NameOf(t), context |-> Context(t),
                     chunk |-> call[t].chunk, answer |-> answer[t]]
  BY DEF Requests, RequestOf
<1>2. call[t] \in Calls /\ answer[t] \in Answered \cup {NULL}
  BY MacAssumption DEF IInv, TypeOK, ControlOK
<1>3. Requests[t] \in Asked
  BY <1>1, <1>2 DEF Calls, Asked, Names, NameOf, Is, Context
<1>4. QED
  BY <1>1, <1>3, MacAssumption

LEMMA RequestSame ==
  ASSUME UNCHANGED <<call, answer>>,
         \A t \in Threads : pc'[t] = "idle" <=> pc[t] = "idle"
  PROVE  Requests' = Requests
BY DEF Requests, RequestOf, NameOf, Is, Context

LEMMA RequestAnswered ==
  ASSUME IInv, NEW t \in Threads, pc[t] # "idle", UNCHANGED call,
         NEW a, answer' = [answer EXCEPT ![t] = a],
         NEW p, p # "idle", pc' = [pc EXCEPT ![t] = p]
  PROVE  Requests' = [Requests EXCEPT ![t] =
           [name |-> @.name, context |-> @.context, chunk |-> @.chunk, answer |-> a]]
BY RequestIs DEF IInv, TypeOK, Requests, RequestOf, NameOf, Is, Context

LEMMA MacsSame ==
  ASSUME IInv, UNCHANGED store,
         \A c \in Contexts : store[c] # NULL => heap'[store[c].evp] = heap[store[c].evp]
  PROVE  Macs' = Macs
BY DEF Macs, MacOf

LEMMA MacChanged ==
  ASSUME IInv, NEW t \in Threads, pc[t] = "work", UNCHANGED store,
         NEW m \in evp_s, SetEvp(t, m)
  PROVE  Macs' = [Macs EXCEPT ![Context(t)] = m]
<1>1. /\ Context(t) \in Contexts
      /\ store[Context(t)] # NULL
      /\ store[Context(t)].evp \in Evps
  BY WorkedOn, MacAssumption DEF Mac
<1>2. \A c \in Contexts : store[c] # NULL /\ c # Context(t) =>
        /\ store[c].evp \in Evps
        /\ store[c].evp # store[Context(t)].evp
  BY <1>1 DEF IInv, TypeOK, EvpOwnedOnce, mac_s
<1>3. heap' = [heap EXCEPT ![store[Context(t)].evp] = m] /\ heap \in [Evps -> evp_s \cup {NULL}]
  BY DEF SetEvp, Mac, IInv, TypeOK
<1>4. \A c \in Contexts : MacOf(c)' = IF c = Context(t) THEN m ELSE MacOf(c)
  BY <1>1, <1>2, <1>3 DEF MacOf
<1>5. QED
  BY <1>1, <1>4 DEF Macs

\* Steps that MacContract does not see.
LEMMA Unseen ==
  ASSUME IInv, NEW t \in Threads,
         \/ Refer(t) \/ mac_lock(t) \/ mac_unlock(t) \/ Drop(t)
         \/ \E e \in Evps : Create(t, e)
  PROVE  UNCHANGED Contract!vars
<1>1. /\ UNCHANGED <<store, call, answer>>
      /\ \A c \in Contexts : store[c] # NULL => heap'[store[c].evp] = heap[store[c].evp]
  BY MacAssumption DEF Refer, mac_lock, mac_unlock, Drop, Create, IInv, TypeOK, EvpOwnedOnce, mac_s
<1>2. \A u \in Threads : pc'[u] = "idle" <=> pc[u] = "idle"
  BY DEF Refer, mac_lock, mac_unlock, Drop, Create, Goto, IInv, TypeOK
<1>3. QED
  BY <1>1, <1>2, RequestSame, MacsSame DEF Contract!vars

\* A call that fails without an effect.
LEMMA Failing ==
  ASSUME IInv, NEW t \in Threads, pc[t] \notin {"idle", "unlock", "drop", "return"},
         UNCHANGED <<store, heap, call>>, NEW p, p # "idle", Goto(t, p),
         NEW E \in SUBSET Errors, Fails(t, E)
  PROVE  Contract!Fails(t)
<1>1. PICK e \in Errors : answer' = [answer EXCEPT ![t] = [status |-> e, mac |-> NULL]]
  BY DEF Fails, Answers
<1>2. Requests' = [Requests EXCEPT ![t] =
         [name |-> @.name, context |-> @.context, chunk |-> @.chunk,
          answer |-> [status |-> e, mac |-> NULL]]]
  BY <1>1, RequestAnswered DEF Goto
<1>3. Requests[t] # NULL /\ Requests[t].answer = NULL
  <2>1. answer[t] = NULL /\ pc[t] # "idle"
    BY DEF IInv, ControlOK
  <2>2. /\ Requests[t] = [name |-> NameOf(t), context |-> Context(t),
                          chunk |-> call[t].chunk, answer |-> answer[t]]
        /\ Requests[t] # NULL
    BY <2>1, RequestIs
  <2>3. QED
    BY <2>1, <2>2
<1>4. Macs' = Macs
  BY MacsSame
<1>5. QED
  BY <1>1, <1>2, <1>3, <1>4 DEF Contract!Fails, Contract!Answers, Contract!Answer

\* A call that works on a MAC, as a request.
LEMMA WorkIsPending ==
  ASSUME IInv, NEW t \in Threads, pc[t] = "work"
  PROVE  /\ Context(t) \in Contexts
         /\ Contract!Open(t, Context(t))
         /\ Macs[Context(t)] = Evp(t)
         /\ Requests[t].chunk = call[t].chunk
         /\ Is(t, "process") \/ Is(t, "process_key") => Contract!Pending(t, "process")
         /\ Is(t, "compute") => Contract!Pending(t, "compute")
<1>1. /\ Requests[t] = [name |-> NameOf(t), context |-> Context(t),
                        chunk |-> call[t].chunk, answer |-> answer[t]]
      /\ Requests[t] # NULL
  BY RequestIs
<1>2. answer[t] = NULL
  BY DEF IInv, ControlOK
<1>3. Macs[Context(t)] = Evp(t) /\ Evp(t) # NULL
  BY WorkedOn, MacAssumption DEF Macs, MacOf, Mac, Evp
<1>4. QED
  BY <1>1, <1>2, <1>3, WorkedOn DEF Contract!Open, Contract!Pending, NameOf, Is

LEMMA Working ==
  ASSUME IInv, NEW t \in Threads, Work(t), NEW status, NEW mac, Answers(t, status, mac)
  PROVE  Contract!Answers(t, Contract!Answer(status, mac))
BY RequestAnswered DEF Work, Goto, Answers, Contract!Answers, Contract!Answer

LEMMA ProcessSeen ==
  ASSUME IInv, NEW t \in Threads, Process(t)
  PROVE  Contract!Process(t, Context(t))
<1>1. Macs' = [Macs EXCEPT ![Context(t)] = Absorbed(Evp(t), call[t].chunk)]
  BY MacChanged, ChangedEvp DEF Process, Work
<1>2. Contract!Answers(t, Contract!Answer("OK", NULL))
  BY Working DEF Process
<1>3. Absorbed(Evp(t), call[t].chunk) = Contract!Longer(Macs[Context(t)], Requests[t].chunk)
  <2>1. Macs[Context(t)] = Evp(t) /\ Requests[t].chunk = call[t].chunk
    BY WorkIsPending DEF Process, Work
  <2>2. Evp(t) = [message |-> Evp(t).message, done |-> Evp(t).done]
    BY WorkedOn DEF Process, Work, evp_s
  <2>3. QED
    BY <2>1, <2>2 DEF Absorbed, Contract!Longer
<1>4. QED
  BY <1>1, <1>2, <1>3, WorkIsPending DEF Process, Work, Contract!Process

LEMMA ProcessFailsSeen ==
  ASSUME IInv, NEW t \in Threads, ProcessFails(t)
  PROVE  Contract!Fails(t) \/ Contract!FailsHalfway(t, Context(t))
<1>1. PICK e \in Errors : Answers(t, e, NULL)
  BY DEF ProcessFails, Fails, Errors
<1>2. Contract!Answers(t, Contract!Answer(e, NULL))
  BY <1>1, Working DEF ProcessFails
<1>3. CASE SetEvp(t, Evp(t))
  <2>1. Macs' = [Macs EXCEPT ![Context(t)] = Evp(t)]
    BY <1>3, MacChanged, WorkedOn DEF ProcessFails, Work
  <2>2. Macs' = Macs
    BY <2>1, WorkIsPending DEF ProcessFails, Work, Macs
  <2>3. QED
    BY <1>2, <2>2, WorkIsPending DEF ProcessFails, Work, Contract!Fails, Contract!Pending
<1>4. CASE SetEvp(t, Absorbed(Evp(t), call[t].chunk))
  <2>1. Macs' = [Macs EXCEPT ![Context(t)] = Absorbed(Evp(t), call[t].chunk)]
    BY <1>4, MacChanged, ChangedEvp DEF ProcessFails, Work
  <2>2. QED
    BY <1>2, <2>1, WorkIsPending DEF ProcessFails, Work, Absorbed, Contract!FailsHalfway, Contract!Longer
<1>5. QED
  BY <1>3, <1>4 DEF ProcessFails

LEMMA ComputeSeen ==
  ASSUME IInv, NEW t \in Threads, Compute(t)
  PROVE  Contract!Compute(t, Context(t)) \/ Contract!FailsHalfway(t, Context(t))
<1>1. Macs' = [Macs EXCEPT ![Context(t)] = Finished(Evp(t))]
  BY MacChanged, ChangedEvp DEF Compute, Work
<1>2. CASE Answers(t, "OK", Evp(t).message)
  <2>1. Contract!Answers(t, Contract!Answer("OK", Evp(t).message))
    BY <1>2, Working DEF Compute
  <2>2. QED
    BY <1>1, <2>1, WorkIsPending DEF Compute, Work, Finished, Contract!Compute, Contract!Ended
<1>3. CASE Fails(t, {"INTERNAL_ERROR"})
  <2>1. PICK e \in Errors : Answers(t, e, NULL)
    BY <1>3 DEF Fails, Errors
  <2>2. Contract!Answers(t, Contract!Answer(e, NULL))
    BY <2>1, Working DEF Compute
  <2>3. QED
    BY <1>1, <2>2, WorkIsPending DEF Compute, Work, Finished, Contract!FailsHalfway, Contract!Ended
<1>4. QED
  BY <1>2, <1>3 DEF Compute

LEMMA LengthSeen ==
  ASSUME IInv, NEW t \in Threads, AnswerLength(t)
  PROVE  Contract!Length(t, Context(t))
<1>1. Macs' = Macs
  BY MacsSame DEF AnswerLength, Work
<1>2. Contract!Answers(t, Contract!Answer("OK", NULL))
  BY Working DEF AnswerLength
<1>3. QED
  BY <1>1, <1>2, WorkIsPending DEF AnswerLength, Work, Contract!Length

LEMMA CallSeen ==
  ASSUME IInv, NEW t \in Threads, NEW name \in Names, NEW c \in Contexts \cup {NULL},
         NEW chunk \in Chunks \cup {NULL}, NEW out \in Outs, Call(t, name, c, chunk, out)
  PROVE  \/ Contract!Invoke(t, "init", NULL, NULL)
         \/ c \in Contexts /\ Contract!Invoke(t, "process", c, chunk)
         \/ c \in Contexts /\ Contract!Invoke(t, "compute", c, NULL)
         \/ c \in Contexts /\ Contract!Invoke(t, "release", c, NULL)
<1>1. Macs' = Macs
  BY MacsSame DEF Call
<1>2. answer[t] = NULL /\ Requests[t] = NULL
  BY DEF Call, MayCall, IInv, ControlOK, Requests, RequestOf
<1> DEFINE abstract == IF name = "process_key" THEN "process" ELSE name
<1>3. Requests' = [Requests EXCEPT ![t] =
         [name |-> abstract, context |-> c, chunk |-> chunk, answer |-> NULL]]
  <2>1. First(name) # "idle"
    BY DEF First, Names
  <2>2. /\ pc'[t] # "idle" /\ call'[t] = [name |-> name, context |-> c, chunk |-> chunk, out |-> out]
        /\ answer'[t] = NULL
        /\ \A u \in Threads \ {t} : pc'[u] = pc[u] /\ call'[u] = call[u] /\ answer'[u] = answer[u]
    BY <1>2, <2>1 DEF Call, Goto, IInv, TypeOK
  <2>3. RequestOf(t)' = [name |-> abstract, context |-> c, chunk |-> chunk, answer |-> NULL]
    BY <2>2 DEF RequestOf, NameOf, Is, Context
  <2>4. \A u \in Threads \ {t} : RequestOf(u)' = RequestOf(u)
    BY <2>2 DEF RequestOf, NameOf, Is, Context
  <2>5. QED
    BY <2>3, <2>4 DEF Requests
<1>4. QED
  BY <1>1, <1>2, <1>3, MacAssumption DEF Call, MayCall, Names, Contract!Invoke, Contract!Asked

LEMMA AddSeen ==
  ASSUME IInv, NEW t \in Threads, NEW c \in Contexts, NEW a \in Algorithms, Add(t, c, a)
  PROVE  Contract!Create(t, c)
<1>1. Contract!Pending(t, "init")
  <2>1. pc[t] = "add" /\ call[t].name = "init" /\ answer[t] = NULL
    BY DEF Add, IInv, ControlOK
  <2>2. /\ Requests[t] = [name |-> NameOf(t), context |-> Context(t),
                          chunk |-> call[t].chunk, answer |-> answer[t]]
        /\ Requests[t] # NULL
    BY <2>1, RequestIs
  <2>3. QED
    BY <2>1, <2>2 DEF Contract!Pending, NameOf, Is
<1>2. Requests' = [Requests EXCEPT ![t] =
         [name |-> "init", context |-> c, chunk |-> NULL,
          answer |-> Contract!Answer("OK", NULL)]]
  BY DEF Add, Goto, Answers, IInv, TypeOK, Requests, RequestOf, NameOf, Is, Context, Contract!Answer
<1>3. heap[made[t]] = NewEvp /\ made[t] \in Evps
  BY DEF Add, IInv, TypeOK, ControlOK, MadeIsNew
<1>4. Macs' = [Macs EXCEPT ![c] = NewEvp]
  <2> DEFINE m == [mac_algorithm |-> a, evp |-> made[t]]
  <2>0. m \in mac_s /\ m # NULL
    BY <1>3, MacAssumption DEF mac_s
  <2>1. /\ store'[c] # NULL /\ store'[c].evp = made[t]
        /\ \A d \in Contexts \ {c} : store'[d] = store[d]
        /\ heap' = heap
    BY <2>0 DEF Add, IInv, TypeOK
  <2>2. QED
    BY <1>3, <2>1 DEF Macs, MacOf
<1>5. QED
  BY <1>1, <1>2, <1>4 DEF Add, NewEvp, Macs, MacOf, Contract!Create

LEMMA RemoveSeen ==
  ASSUME IInv, NEW t \in Threads, Remove(t)
  PROVE  Contract!Release(t, Context(t))
<1>1. /\ pc[t] = "remove" /\ pc[t] # "idle" /\ call[t].name = "release" /\ answer[t] = NULL
      /\ Context(t) \in Contexts
      /\ store[Context(t)] # NULL
  BY MacAssumption DEF Remove, Mac, Is, Context, IInv, TypeOK, Calls, ControlOK
<1>2. /\ Requests[t] = [name |-> NameOf(t), context |-> Context(t),
                        chunk |-> call[t].chunk, answer |-> answer[t]]
      /\ Requests[t] # NULL
  BY <1>1, RequestIs
<1>3. Contract!Answers(t, Contract!Answer("OK", NULL))
  BY <1>1, RequestAnswered DEF Remove, Goto, Answers, Contract!Answers, Contract!Answer
<1>4. \A c \in Contexts : store[c] # NULL => store[c].evp \in Evps /\ heap[store[c].evp] # NULL
  BY DEF IInv, TypeOK, mac_s, EvpOwnedOnce
<1>5. \A c \in Contexts \ {Context(t)} : MacOf(c)' = MacOf(c)
  <2>1. \A c \in Contexts \ {Context(t)} :
          store[c] # NULL => store[c].evp # store[Context(t)].evp
    BY <1>1 DEF IInv, EvpOwnedOnce
  <2>2. QED
    BY <1>1, <1>4, <2>1 DEF Remove, Mac, MacOf, IInv, TypeOK
<1>6. Macs' = [Macs EXCEPT ![Context(t)] = NULL]
  <2>1. store'[Context(t)] = NULL /\ Context(t)' = Context(t)
    BY <1>1 DEF Remove, Context, IInv, TypeOK
  <2>2. QED
    BY <1>1, <1>5, <2>1 DEF Macs, MacOf
<1>7. Macs[Context(t)] # NULL
  BY <1>1, <1>4 DEF Macs, MacOf
<1>8. QED
  BY <1>1, <1>2, <1>3, <1>6, <1>7 DEF Contract!Release, Contract!Open, Contract!Pending, NameOf, Is

LEMMA ReturnSeen ==
  ASSUME IInv, NEW t \in Threads, Return(t)
  PROVE  Contract!Return(t)
<1>1. pc[t] # "idle" /\ answer[t] # NULL
  BY DEF Return, IInv, ControlOK
<1>2. /\ Requests[t] = [name |-> NameOf(t), context |-> Context(t),
                        chunk |-> call[t].chunk, answer |-> answer[t]]
      /\ Requests[t] # NULL
  BY <1>1, RequestIs
<1>3. Macs' = Macs
  <2>1. \A c \in Contexts : store[c] # NULL => store[c].evp \in Evps /\ store[c].evp # made[t]
    BY DEF IInv, TypeOK, mac_s, EvpOwnedOnce
  <2>2. QED
    BY <2>1, MacsSame DEF Return
<1>4. Requests' = [Requests EXCEPT ![t] = NULL]
  <2>1. /\ pc'[t] = "idle"
        /\ \A u \in Threads \ {t} : pc'[u] = pc[u] /\ call'[u] = call[u] /\ answer'[u] = answer[u]
    BY DEF Return, Goto, IInv, TypeOK
  <2>2. RequestOf(t)' = NULL
    BY <2>1 DEF RequestOf
  <2>3. \A u \in Threads \ {t} : RequestOf(u)' = RequestOf(u)
    BY <2>1 DEF RequestOf, NameOf, Is, Context
  <2>4. QED
    BY <2>2, <2>3 DEF Requests
<1>5. QED
  BY <1>1, <1>2, <1>3, <1>4 DEF Contract!Return

LEMMA StepSeen == IInv /\ [Next]_vars => [Contract!Next]_(Contract!vars)
<1> SUFFICES ASSUME IInv, [Next]_vars PROVE [Contract!Next]_(Contract!vars)
  OBVIOUS
<1>1. CASE UNCHANGED vars
  BY <1>1 DEF vars, Contract!vars, Macs, MacOf, Requests, RequestOf, NameOf, Is, Context
<1>2. CASE Next
  <2>1. PICK t \in Threads :
          \/ \E name \in Names, c \in Contexts \cup {NULL},
                chunk \in Chunks \cup {NULL}, out \in Outs : Call(t, name, c, chunk, out)
          \/ mac_lock(t)
          \/ CallStep(t)
    BY <1>2 DEF Next
  <2>2. CASE \E name \in Names, c \in Contexts \cup {NULL},
                chunk \in Chunks \cup {NULL}, out \in Outs : Call(t, name, c, chunk, out)
    BY <2>2, CallSeen DEF Contract!Next
  <2>3. CASE \/ InitRefused(t) \/ AddFails(t) \/ NoMac(t)
             \/ ProcessLate(t) \/ KeyRefused(t) \/ ComputeRefused(t)
    <3>1. CASE InitRefused(t) \/ AddFails(t) \/ NoMac(t)
      <4>1. PICK E \in SUBSET Errors : Fails(t, E)
        BY <3>1 DEF InitRefused, AddFails, NoMac, Errors
      <4>2. QED
        BY <3>1, <4>1, Failing DEF InitRefused, AddFails, NoMac, Goto, Contract!Next
    <3>2. CASE ProcessLate(t) \/ KeyRefused(t) \/ ComputeRefused(t)
      <4>1. PICK E \in SUBSET Errors : Fails(t, E)
        BY <3>2 DEF ProcessLate, KeyRefused, ComputeRefused, Errors
      <4>2. QED
        BY <3>2, <4>1, Failing DEF ProcessLate, KeyRefused, ComputeRefused, Work, Goto, Contract!Next
    <3>3. QED
      BY <2>3, <3>1, <3>2
  <2>4. CASE Refer(t) \/ mac_lock(t) \/ mac_unlock(t) \/ Drop(t) \/ \E e \in Evps : Create(t, e)
    BY <2>4, Unseen
  <2>5. CASE \E c \in Contexts, a \in Algorithms : Add(t, c, a)
    BY <2>5, AddSeen DEF Contract!Next
  <2>6. CASE Process(t) \/ ProcessFails(t) \/ Compute(t) \/ AnswerLength(t)
    <3>1. pc[t] = "work"
      BY <2>6 DEF Process, ProcessFails, Compute, AnswerLength, Work
    <3>2. Context(t) \in Contexts
      BY <3>1, WorkedOn
    <3>3. QED
      BY <2>6, <3>2, ProcessSeen, ProcessFailsSeen, ComputeSeen, LengthSeen DEF Contract!Next
  <2>7. CASE Remove(t)
    <3>1. Context(t) \in Contexts
      BY <2>7, MacAssumption DEF Remove, Context, IInv, TypeOK, Calls, ControlOK
    <3>2. QED
      BY <2>7, <3>1, RemoveSeen DEF Contract!Next
  <2>8. CASE Return(t)
    BY <2>8, ReturnSeen DEF Contract!Next
  <2>9. QED
    BY <2>1, <2>2, <2>3, <2>4, <2>5, <2>6, <2>7, <2>8 DEF CallStep
<1>3. QED
  BY <1>1, <1>2

\* The store implements MacContract: with any number of threads, the calls take
\* effect one at a time, and a MAC is that of what was accepted before.
THEOREM ContractHolds == Spec => ContractKept
<1>1. Init => Contract!Init
  BY DEF Init, Contract!Init, Macs, MacOf, Requests, RequestOf
<1>2. QED
  BY <1>1, StepSeen, Invariance, PTL DEF Spec, ContractKept, Contract!Spec

=============================================================================
