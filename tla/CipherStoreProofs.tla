-------------------------- MODULE CipherStoreProofs --------------------------
(***************************************************************************)
(* Proofs about CipherStore, for every finite set of threads and any       *)
(* contexts, algorithms, lengths and block size: a context is used by one  *)
(* thread at a time and stays stored while it is used; with a careful      *)
(* application, samples are decrypted with the cipher that was verified    *)
(* and output fits the buffer that was checked.                            *)
(***************************************************************************)
EXTENDS CipherStore, FiniteSetTheorems, TLAPS

\* The steps that name no prover: SMT first, then Zenon, with time to spare.
USE SMTT(60), ZenonT(60)

(* A set of threads that grows or shrinks by one. *)
LEMMA CountThreads ==
  ASSUME NEW S \in SUBSET Threads, NEW t \in Threads
  PROVE  /\ Cardinality(S) \in Nat
         /\ t \notin S => Cardinality(S \cup {t}) = Cardinality(S) + 1
         /\ t \in S => Cardinality(S \ {t}) = Cardinality(S) - 1
<1>1. IsFiniteSet(S)
  BY ThreadsAssumption, FS_Subset
<1>2. QED
  BY <1>1, FS_CardinalityType, FS_AddElement, FS_RemoveElement

\* A step of t leaves the calls of the other threads alone.
StepOf(t) ==
  \A u \in Threads \ {t} : pc'[u] = pc[u] /\ call'[u] = call[u]

LockPoints == {"oaep_lock", "lock", "cenc_lock"}
WorkPoints == {"oaep_set", "work", "cenc_work"}

DoneRecords ==
  [status : Statuses, written : Nat, required : Nat, late : BOOLEAN, bad : BOOLEAN,
   allowed : Keys \cup {NULL}]

\* An outcome of OpenSSL leaves the cipher what it is.
SameCipher(x, c) ==
  /\ x \in cipher_s
  /\ x.cipher_algorithm = c.cipher_algorithm
  /\ x.cipher_mode = c.cipher_mode
  /\ x.key = c.key
  /\ c.oaep => x.oaep

\* A handler has done its work on the cipher, which has become x.
Works(t, x) ==
  /\ pc[t] \in WorkPoints
  /\ store' = [store EXCEPT ![Context(t)] = x]
  /\ pc' = [pc EXCEPT ![t] = "release"]
  /\ UNCHANGED <<refs, owner, depth, client_refs, call>>

(* A thread that waits for no mutex before and after its step changes no count. *)
LEMMA SameWaiting ==
  ASSUME NEW t \in Threads, StepOf(t), NEW c \in Contexts,
         pc[t] \notin LockPoints, pc'[t] \notin LockPoints
  PROVE  Waiting(c)' = Waiting(c)
BY DEF StepOf, Waiting, Context, LockPoints

(* A call that goes on, begins or ends changes the number of calls by as much. *)
LEMMA CallsCounted ==
  ASSUME NEW t \in Threads, StepOf(t)
  PROVE  /\ (pc[t] # "idle" <=> pc'[t] # "idle") => Cardinality(InCalls)' = Cardinality(InCalls)
         /\ pc[t] = "idle" /\ pc'[t] # "idle" =>
              Cardinality(InCalls)' = Cardinality(InCalls) + 1
         /\ pc[t] # "idle" /\ pc'[t] = "idle" =>
              Cardinality(InCalls)' = Cardinality(InCalls) - 1
         /\ Cardinality(InCalls) \in Nat
<1>1. InCalls \in SUBSET Threads
  BY DEF InCalls
<1>2. (pc[t] # "idle" <=> pc'[t] # "idle") => InCalls' = InCalls
  BY DEF InCalls, StepOf
<1>3. pc[t] = "idle" /\ pc'[t] # "idle" => InCalls' = InCalls \cup {t} /\ t \notin InCalls
  BY DEF InCalls, StepOf
<1>4. pc[t] # "idle" /\ pc'[t] = "idle" => InCalls' = InCalls \ {t} /\ t \in InCalls
  BY DEF InCalls, StepOf
<1>5. QED
  BY <1>1, <1>2, <1>3, <1>4, CountThreads

(* Steps that touch neither references nor mutexes. *)
LEMMA FrameIInv ==
  ASSUME IInv, NEW t \in Threads, StepOf(t),
         UNCHANGED <<refs, owner, depth>>,
         pc[t] \notin LockPoints, pc'[t] \notin LockPoints,
         Working(t)' => Working(t) /\ call'[t] = call[t],
         \/ client_refs' = client_refs /\ (pc[t] # "idle" <=> pc'[t] # "idle")
         \/ client_refs' = client_refs /\ pc[t] # "idle"
         \/ client_refs' = client_refs + 1
         \/ client_refs' = client_refs - 1 /\ pc[t] # "idle" /\ pc'[t] = "idle"
  PROVE  LocksOwned' /\ RefsCounted'
<1>1. \A c \in Contexts : Waiting(c)' = Waiting(c)
  BY SameWaiting
<1>2. \A u \in Threads : Working(u)' => Working(u) /\ Context(u)' = Context(u)
  BY DEF StepOf, Working, Context
<1>3. LocksOwned'
  BY <1>2 DEF IInv, LocksOwned
<1>4. /\ client_refs' \in Int /\ Cardinality(InCalls) \in Nat
      /\ client_refs' >= Cardinality(InCalls)'
  BY CallsCounted DEF IInv, TypeOK, RefsCounted
<1>5. RefsCounted'
  BY <1>1, <1>4 DEF IInv, RefsCounted
<1>6. QED
  BY <1>3, <1>5

-----------------------------------------------------------------------------
(* What OpenSSL makes of a cipher, and of how much output.                   *)

LEMMA SelfSame ==
  ASSUME NEW c \in cipher_s
  PROVE  SameCipher(c, c)
BY DEF SameCipher

LEMMA BufferedSame ==
  ASSUME NEW c \in cipher_s, NEW b \in 0 .. BLOCK - 1, NEW x, x = [c EXCEPT !.buffered = b]
  PROVE  SameCipher(x, c) /\ x.buffered = b /\ x.held = c.held /\ x.last = c.last
BY DEF SameCipher, cipher_s

LEMMA HeldSame ==
  ASSUME NEW c \in cipher_s, NEW b \in BOOLEAN, NEW x, x = [c EXCEPT !.held = b]
  PROVE  SameCipher(x, c) /\ x.held = b /\ x.buffered = c.buffered /\ x.last = c.last
BY DEF SameCipher, cipher_s

LEMMA FinishedSame ==
  ASSUME NEW c \in cipher_s, NEW b \in BOOLEAN, NEW x, x = [c EXCEPT !.finished = b]
  PROVE  SameCipher(x, c) /\ x.finished = b /\ x.buffered = c.buffered /\ x.held = c.held /\ x.last = c.last
BY DEF SameCipher, cipher_s

LEMMA LastSame ==
  ASSUME NEW c \in cipher_s, NEW b \in BOOLEAN, NEW x, x = [c EXCEPT !.last = b]
  PROVE  SameCipher(x, c) /\ x.last = b /\ x.buffered = c.buffered /\ x.held = c.held
BY DEF SameCipher, cipher_s

LEMMA UpdateOutcome ==
  ASSUME NEW c \in cipher_s, NEW n \in Nat, NEW o \in Update(c, n),
         c.cipher_algorithm \in Padded /\ c.cipher_mode = "DECRYPT" => n % BLOCK = 0
  PROVE  /\ SameCipher(o.cipher, c) /\ o.written \in Nat /\ o.cipher.last = c.last
         /\ o.ok \in BOOLEAN /\ o.bad \in BOOLEAN
         /\ IF c.cipher_algorithm \in Padded /\ c.cipher_mode = "ENCRYPT"
            THEN /\ o.ok
                 /\ o.written = BLOCK * ((c.buffered + n) \div BLOCK)
                 /\ o.cipher.buffered = (c.buffered + n) % BLOCK
            ELSE o.written <= n /\ o.cipher.buffered = c.buffered
<1> USE CipherAssumption
<1>0. c.buffered \in 0 .. BLOCK - 1 /\ c.held \in BOOLEAN
  BY DEF cipher_s
<1>1. CASE c.cipher_algorithm \in Tagged /\ c.finished
  <2>1. o = Outcome(c, FALSE, 0, FALSE)
    BY <1>1 DEF Update, Tagged, Padded
  <2>2. o.cipher = c /\ o.written = 0
    BY <2>1 DEF Outcome
  <2>3. o.ok \in BOOLEAN /\ o.bad \in BOOLEAN
    BY <2>1 DEF Outcome
  <2>4. c.cipher_algorithm \notin Padded
    BY <1>1 DEF Tagged, Padded
  <2>5. QED
    BY <2>2, <2>3, <2>4, SelfSame
<1>2. CASE c.cipher_algorithm \in Padded /\ c.cipher_mode = "ENCRYPT"
  <2> DEFINE all == c.buffered + n
             x == [c EXCEPT !.buffered = all % BLOCK]
  <2>1. o = Outcome(x, TRUE, BLOCK * (all \div BLOCK), FALSE)
    BY <1>2 DEF Update, Tagged, Padded
  <2>2. all % BLOCK \in 0 .. BLOCK - 1 /\ BLOCK * (all \div BLOCK) \in Nat
    BY <1>0
  <2>3. o.cipher = x /\ o.written = BLOCK * (all \div BLOCK)
    BY <2>1 DEF Outcome
  <2>4. o.ok /\ o.ok \in BOOLEAN /\ o.bad \in BOOLEAN
    BY <2>1 DEF Outcome
  <2> HIDE DEF x
  <2>5. SameCipher(x, c) /\ x.last = c.last /\ x.buffered = all % BLOCK
    BY <2>2, BufferedSame DEF x
  <2>6. QED
    BY <1>2, <2>2, <2>3, <2>4, <2>5
<1>3. CASE c.cipher_algorithm \in Padded /\ c.cipher_mode = "DECRYPT" /\ n > 0
  <2> DEFINE x == [c EXCEPT !.held = TRUE]
             m == n - BLOCK + (IF c.held THEN BLOCK ELSE 0)
  <2>1. o = Outcome(x, TRUE, m, FALSE)
    BY <1>3 DEF Update, Tagged, Padded
  <2>2. n >= BLOCK
    BY <1>3
  <2>3. m \in Nat /\ m <= n
    BY <2>2
  <2>4. o.cipher = x /\ o.written = m
    BY <2>1 DEF Outcome
  <2>5. o.ok \in BOOLEAN /\ o.bad \in BOOLEAN
    BY <2>1 DEF Outcome
  <2> HIDE DEF x, m
  <2>6. SameCipher(x, c) /\ x.last = c.last /\ x.buffered = c.buffered
    BY HeldSame DEF x
  <2>7. QED
    BY <1>3, <2>3, <2>4, <2>5, <2>6
<1>4. CASE /\ ~(c.cipher_algorithm \in Tagged /\ c.finished)
           /\ ~(c.cipher_algorithm \in Padded /\ c.cipher_mode = "ENCRYPT")
           /\ ~(c.cipher_algorithm \in Padded /\ c.cipher_mode = "DECRYPT" /\ n > 0)
  <2>1. o = Outcome(c, TRUE, n, FALSE)
    BY <1>4 DEF Update
  <2>2. o.cipher = c /\ o.written = n
    BY <2>1 DEF Outcome
  <2>3. o.ok \in BOOLEAN /\ o.bad \in BOOLEAN
    BY <2>1 DEF Outcome
  <2>4. QED
    BY <1>4, <2>2, <2>3, SelfSame
<1>5. QED
  BY <1>1, <1>2, <1>3, <1>4

LEMMA FinalOutcome ==
  ASSUME NEW c \in cipher_s, NEW o \in Final(c)
  PROVE  /\ SameCipher(o.cipher, c) /\ o.cipher.last = c.last /\ o.written \in 0 .. BLOCK
         /\ o.ok \in BOOLEAN /\ o.bad \in BOOLEAN
         /\ c.cipher_algorithm \notin Padded => o.written = 0
         /\ c.cipher_algorithm \in Padded /\ c.cipher_mode = "DECRYPT" => o.written < BLOCK
         /\ c.cipher_algorithm \in Padded /\ c.cipher_mode = "ENCRYPT" => o.ok
         /\ o.cipher.buffered \in {0, c.buffered}
<1> USE CipherAssumption
<1>0. /\ c.buffered \in 0 .. BLOCK - 1 /\ 0 \in 0 .. BLOCK - 1 /\ c.cipher_mode \in Modes
      /\ BLOCK \in 0 .. BLOCK /\ 0 \in 0 .. BLOCK
  BY DEF cipher_s
<1>1. CASE c.cipher_algorithm \in Tagged
  <2>0. /\ c.cipher_algorithm \in Tagged
        /\ ~(c.cipher_algorithm \in Padded /\ c.cipher_mode = "ENCRYPT")
        /\ ~(c.cipher_algorithm \in Padded /\ c.cipher_mode = "DECRYPT")
    BY <1>1 DEF Tagged, Padded
  <2>1. o \in TagOutcomes(c)
    BY <2>0 DEF Final
  <2>2. PICK f \in BOOLEAN, ok \in BOOLEAN, bad \in BOOLEAN :
          o = Outcome([c EXCEPT !.finished = f], ok, 0, bad)
    BY <2>1, Zenon DEF TagOutcomes
  <2> DEFINE x == [c EXCEPT !.finished = f]
  <2>3. o.cipher = x /\ o.written = 0
    BY <2>2 DEF Outcome
  <2>4. o.ok \in BOOLEAN /\ o.bad \in BOOLEAN
    BY <2>2 DEF Outcome
  <2> HIDE DEF x
  <2>5. SameCipher(x, c) /\ x.last = c.last /\ x.buffered = c.buffered
    BY FinishedSame DEF x
  <2>6. c.cipher_algorithm \notin Padded
    BY <1>1 DEF Tagged, Padded
  <2>7. QED
    BY <1>0, <2>3, <2>4, <2>5, <2>6
<1>2. CASE c.cipher_algorithm \in Padded /\ c.cipher_mode = "ENCRYPT"
  <2>0. /\ ~c.cipher_algorithm \in Tagged
        /\ (c.cipher_algorithm \in Padded /\ c.cipher_mode = "ENCRYPT")
        /\ ~(c.cipher_algorithm \in Padded /\ c.cipher_mode = "DECRYPT")
    BY <1>2 DEF Tagged, Padded
  <2>1. o \in PadOutcomes(c)
    BY <2>0 DEF Final
  <2>2. PICK b \in {0, c.buffered} : o = Outcome([c EXCEPT !.buffered = b], TRUE, BLOCK, FALSE)
    BY <2>1, Zenon DEF PadOutcomes
  <2> DEFINE x == [c EXCEPT !.buffered = b]
  <2>3. o.cipher = x /\ o.written = BLOCK
    BY <2>2 DEF Outcome
  <2>4. o.ok /\ o.ok \in BOOLEAN /\ o.bad \in BOOLEAN
    BY <2>2 DEF Outcome
  <2> HIDE DEF x
  <2>5. SameCipher(x, c) /\ x.last = c.last /\ x.buffered = b
    BY <1>0, BufferedSame DEF x
  <2>6. QED
    BY <1>0, <1>2, <2>3, <2>4, <2>5
<1>3. CASE c.cipher_algorithm \in Padded /\ c.cipher_mode = "DECRYPT"
  <2>0. /\ ~c.cipher_algorithm \in Tagged
        /\ ~(c.cipher_algorithm \in Padded /\ c.cipher_mode = "ENCRYPT")
        /\ (c.cipher_algorithm \in Padded /\ c.cipher_mode = "DECRYPT")
    BY <1>3 DEF Tagged, Padded
  <2>1. CASE c.held
    <3>1. o \in UnpadOutcomes(c)
      BY <2>0, <2>1 DEF Final
    <3>2. \/ \E h \in BOOLEAN, p \in 1 .. BLOCK : o = Unpadded(c, h, p)
          \/ o = BadPadding(c)
      BY <3>1 DEF UnpadOutcomes
    <3>3. CASE \E h \in BOOLEAN, p \in 1 .. BLOCK : o = Unpadded(c, h, p)
      <4>1. PICK h \in BOOLEAN, p \in 1 .. BLOCK : o = Unpadded(c, h, p)
        BY <3>3
      <4> DEFINE x == [c EXCEPT !.held = h]
      <4>2. o.cipher = x /\ o.written = BLOCK - p
        BY <4>1 DEF Unpadded, Outcome
      <4>3. o.ok \in BOOLEAN /\ o.bad \in BOOLEAN
        BY <4>1 DEF Unpadded, Outcome
      <4> HIDE DEF x
      <4>4. SameCipher(x, c) /\ x.last = c.last /\ x.buffered = c.buffered
        BY HeldSame DEF x
      <4>5. BLOCK - p \in 0 .. BLOCK /\ BLOCK - p < BLOCK
        OBVIOUS
      <4>6. QED
        BY <1>3, <4>2, <4>3, <4>4, <4>5
    <3>4. CASE o = BadPadding(c)
      <4>1. o.cipher = c /\ o.written = 0
        BY <3>4 DEF BadPadding, Outcome
      <4>2. o.ok \in BOOLEAN /\ o.bad \in BOOLEAN
        BY <3>4 DEF BadPadding, Outcome
      <4>3. QED
        BY <1>0, <1>3, <4>1, <4>2, SelfSame
    <3>5. QED
      BY <3>2, <3>3, <3>4
  <2>2. CASE ~c.held
    <3>1. o \in {Outcome(c, FALSE, 0, FALSE)}
      BY <2>0, <2>2 DEF Final
    <3>2. o = Outcome(c, FALSE, 0, FALSE)
      BY <3>1
    <3>3. o.cipher = c /\ o.written = 0
      BY <3>2 DEF Outcome
    <3>4. o.ok \in BOOLEAN /\ o.bad \in BOOLEAN
      BY <3>2 DEF Outcome
    <3>5. QED
      BY <1>0, <1>3, <3>3, <3>4, SelfSame
  <2>3. QED
    BY <2>1, <2>2
<1>4. CASE c.cipher_algorithm \notin Padded \cup Tagged
  <2>0. /\ ~c.cipher_algorithm \in Tagged
        /\ ~(c.cipher_algorithm \in Padded /\ c.cipher_mode = "ENCRYPT")
        /\ ~(c.cipher_algorithm \in Padded /\ c.cipher_mode = "DECRYPT")
    BY <1>4 DEF Tagged, Padded
  <2>1. o \in {Outcome(c, TRUE, 0, FALSE)}
    BY <2>0 DEF Final
  <2>2. o = Outcome(c, TRUE, 0, FALSE)
    BY <2>1
  <2>3. o.cipher = c /\ o.written = 0
    BY <2>2 DEF Outcome
  <2>4. o.ok \in BOOLEAN /\ o.bad \in BOOLEAN
    BY <2>2 DEF Outcome
  <2>5. QED
    BY <1>0, <1>4, <2>3, <2>4, SelfSame
<1>5. QED
  BY <1>0, <1>1, <1>2, <1>3, <1>4 DEF Modes

LEMMA LastOutcome ==
  ASSUME NEW c \in cipher_s, NEW n \in Nat, NEW o \in UpdateAndFinal(c, n), LastStatus(c, n) = "OK"
  PROVE  /\ SameCipher(o.cipher, c) /\ o.written \in Nat /\ o.cipher.last = c.last
         /\ o.ok \in BOOLEAN /\ o.bad \in BOOLEAN
         /\ c.buffered = 0 =>
              /\ o.written <= LastRequiredLength(c, n)
              /\ o.ok \/ o.cipher.buffered = 0
<1> USE CipherAssumption
<1>1. PICK u \in Update(c, n) :
        \/ u.ok /\ \E f \in Final(u.cipher) : o = Then(u, f)
        \/ ~u.ok /\ o = u
  <2>1. PICK u \in Update(c, n) : o \in IF u.ok THEN {Then(u, f) : f \in Final(u.cipher)} ELSE {u}
    BY DEF UpdateAndFinal
  <2>2. QED
    BY <2>1
<1>2. /\ c.cipher_algorithm \in Padded \cup Streams \cup Tagged
      /\ c.cipher_algorithm \in Padded /\ c.cipher_mode = "DECRYPT" => n % BLOCK = 0
      /\ c.buffered \in 0 .. BLOCK - 1 /\ c.cipher_mode \in Modes
  BY DEF LastStatus, cipher_s, Symmetric, Blocks, Asymmetric, Padded, Streams, Tagged
<1>3. /\ SameCipher(u.cipher, c) /\ u.written \in Nat /\ u.cipher.last = c.last
      /\ u.ok \in BOOLEAN /\ u.bad \in BOOLEAN
      /\ IF c.cipher_algorithm \in Padded /\ c.cipher_mode = "ENCRYPT"
         THEN /\ u.ok
              /\ u.written = BLOCK * ((c.buffered + n) \div BLOCK)
              /\ u.cipher.buffered = (c.buffered + n) % BLOCK
         ELSE u.written <= n /\ u.cipher.buffered = c.buffered
  BY <1>2, UpdateOutcome
<1>4. /\ c.cipher_algorithm \in Padded => LastRequiredLength(c, n) = BLOCK * ((n \div BLOCK) + 1)
      /\ c.cipher_algorithm \notin Padded => LastRequiredLength(c, n) = n
  BY <1>2 DEF LastRequiredLength, Padded, Streams, Tagged
<1>5. BLOCK * ((n \div BLOCK) + 1) >= n
  OBVIOUS
<1>6. CASE ~u.ok /\ o = u
  BY <1>3, <1>4, <1>5, <1>6
<1>7. CASE u.ok /\ \E f \in Final(u.cipher) : o = Then(u, f)
  <2>1. PICK f \in Final(u.cipher) : o = Then(u, f)
    BY <1>7
  <2>2. u.cipher \in cipher_s /\ u.cipher.cipher_algorithm = c.cipher_algorithm
        /\ u.cipher.cipher_mode = c.cipher_mode
    BY <1>3 DEF SameCipher
  <2>3. /\ SameCipher(f.cipher, u.cipher) /\ f.cipher.last = u.cipher.last /\ f.written \in 0 .. BLOCK
        /\ f.ok \in BOOLEAN /\ f.bad \in BOOLEAN
        /\ c.cipher_algorithm \notin Padded => f.written = 0
        /\ c.cipher_algorithm \in Padded /\ c.cipher_mode = "DECRYPT" => f.written < BLOCK
        /\ c.cipher_algorithm \in Padded /\ c.cipher_mode = "ENCRYPT" => f.ok
        /\ f.cipher.buffered \in {0, u.cipher.buffered}
    BY <2>2, FinalOutcome
  <2>4. /\ o.cipher = f.cipher /\ o.written = u.written + f.written
        /\ o.ok = f.ok /\ o.bad = f.bad
    BY <2>1 DEF Then, Outcome
  <2>5. SameCipher(o.cipher, c)
    BY <1>3, <2>3, <2>4 DEF SameCipher
  <2>6. c.buffered = 0 => o.written <= LastRequiredLength(c, n)
    <3>1. CASE c.cipher_algorithm \notin Padded
      BY <1>3, <1>4, <2>3, <2>4, <3>1
    <3>2. CASE c.cipher_algorithm \in Padded /\ c.cipher_mode = "ENCRYPT"
      BY <1>3, <1>4, <2>3, <2>4, <3>2
    <3>3. CASE c.cipher_algorithm \in Padded /\ c.cipher_mode = "DECRYPT"
      <4>1. BLOCK * ((n \div BLOCK) + 1) = n + BLOCK
        BY <1>2, <3>3
      <4>2. QED
        BY <1>3, <1>4, <2>3, <2>4, <3>3, <4>1
    <3>4. QED
      BY <1>2, <3>1, <3>2, <3>3 DEF Modes
  <2>7. c.buffered = 0 => o.ok \/ o.cipher.buffered = 0
    BY <1>2, <1>3, <2>3, <2>4 DEF Modes
  <2>8. QED
    BY <1>3, <2>3, <2>4, <2>5, <2>6, <2>7
<1>8. QED
  BY <1>1, <1>6, <1>7

-----------------------------------------------------------------------------
(* The steps of a call that has the cipher locked up to its release.         *)

LEMMA IvSame ==
  ASSUME NEW c \in cipher_s
  PROVE  SameCipher(IvSet(c), c) /\ IvSet(c).buffered = 0 /\ IvSet(c).last = FALSE
<1>1. IvSet(c) = [[[c EXCEPT !.buffered = 0] EXCEPT !.held = FALSE] EXCEPT !.last = FALSE]
  BY DEF IvSet
<1> DEFINE x == [c EXCEPT !.buffered = 0]
           y == [x EXCEPT !.held = FALSE]
<1>2. 0 \in 0 .. BLOCK - 1
  BY CipherAssumption
<1>3. SameCipher(x, c) /\ x.buffered = 0
  BY <1>2, BufferedSame
<1> HIDE DEF x
<1>4. x \in cipher_s
  BY <1>3 DEF SameCipher
<1>5. SameCipher(y, x) /\ y.buffered = 0
  BY <1>3, <1>4, HeldSame
<1> HIDE DEF y
<1>6. y \in cipher_s
  BY <1>5 DEF SameCipher
<1>7. IvSet(c) = [y EXCEPT !.last = FALSE]
  BY <1>1 DEF x, y
<1>8. SameCipher(IvSet(c), y) /\ IvSet(c).buffered = 0 /\ IvSet(c).last = FALSE
  BY <1>5, <1>6, <1>7, LastSame
<1>9. QED
  BY <1>3, <1>5, <1>8 DEF SameCipher

\* What such a step has made of the cipher (x) and answered (d)
Handled(t, x, d) ==
  /\ Works(t, x)
  /\ SameCipher(x, Cipher(t))
  /\ x.last => Cipher(t).last \/ (pc[t] = "work" /\ call[t].name = "process_last")
  /\ given' = given \/ (given' = given \cup {Context(t)} /\ x.oaep)
  /\ d \in DoneRecords
  /\ done' = [done EXCEPT ![t] = d]

\* ... and with a careful application
Fits(t, x, d) ==
  LastAlone /\ BufferedIsLast /\ OutputFits =>
    (x.last \/ x.buffered = 0) /\ d.written <= d.required

(* A thread that works has its cipher in the store. *)
LEMMA AtWork ==
  ASSUME IInv, NEW t \in Threads, Working(t)
  PROVE  /\ Context(t) \in Contexts /\ owner[Context(t)] = t /\ depth[Context(t)] \in Nat \ {0}
         /\ refs[Context(t)] \in Nat \ {0} /\ Cipher(t) \in cipher_s
<1>1. Context(t) \in Contexts /\ owner[Context(t)] = t
  BY DEF IInv, ControlOK, LocksOwned, Working
<1>2. depth[Context(t)] \in Nat \ {0}
  BY <1>1, NullAssumption DEF IInv, TypeOK, LocksOwned
<1>3. Waiting(Context(t)) \in SUBSET Threads
  BY DEF Waiting
<1>4. Cardinality(Waiting(Context(t))) \in Nat
  BY <1>3, CountThreads
<1>5. refs[Context(t)] \in Nat \ {0}
  BY <1>1, <1>2, <1>4 DEF IInv, RefsCounted
<1>6. Cipher(t) \in cipher_s
  BY <1>1, <1>5 DEF IInv, TypeOK, ReferredIsStored, Cipher
<1>7. QED
  BY <1>1, <1>2, <1>5, <1>6

LEMMA StatusRecord ==
  ASSUME NEW s \in Statuses
  PROVE  [Nothing EXCEPT !.status = s] \in DoneRecords
         /\ [Nothing EXCEPT !.status = s].written = [Nothing EXCEPT !.status = s].required
BY DEF Nothing, DoneRecords

(* Steps that leave the cipher as it is *)
LEMMA Answered ==
  ASSUME IInv, NEW t \in Threads, NEW d \in DoneRecords,
         pc[t] \in WorkPoints, pc' = [pc EXCEPT ![t] = "release"],
         UNCHANGED <<store, refs, owner, depth, client_refs, given, call>>,
         done' = [done EXCEPT ![t] = d],
         OutputFits => d.written <= d.required
  PROVE  \E x \in cipher_s : Handled(t, x, d) /\ Fits(t, x, d)
<1>1. Context(t) \in Contexts /\ Cipher(t) \in cipher_s
  BY AtWork DEF Working, WorkPoints
<1>2. store' = [store EXCEPT ![Context(t)] = Cipher(t)]
  BY <1>1 DEF IInv, TypeOK, Cipher
<1>3. Works(t, Cipher(t)) /\ SameCipher(Cipher(t), Cipher(t))
  BY <1>1, <1>2, SelfSame DEF Works
<1>4. Handled(t, Cipher(t), d)
  BY <1>3 DEF Handled
<1>5. BufferedIsLast => Cipher(t).last \/ Cipher(t).buffered = 0
  BY <1>1, NullAssumption DEF BufferedIsLast, Cipher
<1>6. QED
  BY <1>1, <1>4, <1>5 DEF Fits

LEMMA AnsweredAsBefore ==
  ASSUME IInv, NEW t \in Threads, pc[t] \in WorkPoints, pc' = [pc EXCEPT ![t] = "release"],
         UNCHANGED <<store, refs, owner, depth, client_refs, given, call, done>>
  PROVE  \E x \in cipher_s, d \in DoneRecords : Handled(t, x, d) /\ Fits(t, x, d)
<1>1. done[t] \in DoneRecords /\ done' = [done EXCEPT ![t] = done[t]]
  BY DEF IInv, TypeOK, DoneRecords
<1>2. OutputFits => done[t].written <= done[t].required
  BY DEF OutputFits
<1>3. QED
  BY <1>1, <1>2, Answered

LEMMA AnsweredStatus ==
  ASSUME IInv, NEW t \in Threads, NEW s \in Statuses,
         pc[t] \in WorkPoints, pc' = [pc EXCEPT ![t] = "release"],
         UNCHANGED <<store, refs, owner, depth, client_refs, given, call>>, Status(t, s)
  PROVE  \E x \in cipher_s, d \in DoneRecords : Handled(t, x, d) /\ Fits(t, x, d)
<1> DEFINE d == [Nothing EXCEPT !.status = s]
<1>1. d \in DoneRecords /\ d.written = d.required
  BY StatusRecord
<1>2. done' = [done EXCEPT ![t] = d]
  BY DEF Status
<1> HIDE DEF d
<1>3. d.written <= d.required
  BY <1>1 DEF DoneRecords
<1>4. QED
  BY <1>1, <1>2, <1>3, Answered

LEMMA RefusalsHandled ==
  ASSUME IInv, NEW t \in Threads,
         \/ AnswerLength(t) \/ OaepFails(t) \/ VerifyFails(t) \/ SampleFails(t)
         \/ \E in \in {"CLEAR", "SVP"}, n \in Lengths : Refused(t, in, n)
  PROVE  \E x \in cipher_s, d \in DoneRecords : Handled(t, x, d) /\ Fits(t, x, d)
<1>1. CASE AnswerLength(t)
  BY <1>1, AnsweredAsBefore DEF AnswerLength, Goto, WorkPoints
<1>2. CASE OaepFails(t)
  BY <1>2, AnsweredStatus DEF OaepFails, Goto, WorkPoints, Statuses
<1>3. CASE VerifyFails(t)
  BY <1>3, AnsweredStatus DEF VerifyFails, Goto, WorkPoints, Statuses
<1>4. CASE SampleFails(t)
  BY <1>4, AnsweredStatus DEF SampleFails, Goto, WorkPoints, Statuses
<1>5. ASSUME NEW in \in {"CLEAR", "SVP"}, NEW n \in Lengths, Refused(t, in, n)
      PROVE  \E x \in cipher_s, d \in DoneRecords : Handled(t, x, d) /\ Fits(t, x, d)
  <2>1. PICK s \in Statuses : Status(t, s)
    BY <1>5 DEF Refused, BufferStatus, ProcessStatus, LastStatus, Statuses
  <2>2. /\ pc[t] \in WorkPoints /\ pc' = [pc EXCEPT ![t] = "release"]
        /\ UNCHANGED <<store, refs, owner, depth, client_refs, given, call>>
    BY <1>5 DEF Refused, Goto, WorkPoints
  <2>3. QED
    BY <2>1, <2>2, AnsweredStatus
<1>6. QED
  BY <1>1, <1>2, <1>3, <1>4, <1>5

LEMMA OaepHandled ==
  ASSUME IInv, NEW t \in Threads, cipher_set_oaep_parameters(t)
  PROVE  \E x \in cipher_s, d \in DoneRecords : Handled(t, x, d) /\ Fits(t, x, d)
<1> DEFINE c == Cipher(t)
           x == [c EXCEPT !.oaep = TRUE]
<1>1. Context(t) \in Contexts /\ c \in cipher_s
  BY AtWork DEF Working, cipher_set_oaep_parameters
<1>2. store' = [store EXCEPT ![Context(t)] = x]
  BY <1>1 DEF cipher_set_oaep_parameters, IInv, TypeOK, Cipher
<1>3. SameCipher(x, c) /\ x.oaep /\ x.last = c.last /\ x.buffered = c.buffered
  BY <1>1 DEF SameCipher, cipher_s
<1>4. done[t] \in DoneRecords /\ done' = [done EXCEPT ![t] = done[t]]
  BY DEF cipher_set_oaep_parameters, IInv, TypeOK, DoneRecords
<1>5. Works(t, x) /\ given' = given \cup {Context(t)}
  BY <1>2 DEF cipher_set_oaep_parameters, Goto, Works, WorkPoints
<1> HIDE DEF x
<1>6. Handled(t, x, done[t])
  BY <1>3, <1>4, <1>5 DEF Handled
<1>7. Fits(t, x, done[t])
  BY <1>1, <1>3, NullAssumption DEF Fits, BufferedIsLast, OutputFits, Cipher
<1>8. x \in cipher_s
  BY <1>3 DEF SameCipher
<1>9. QED
  BY <1>4, <1>6, <1>7, <1>8

\* The answer of a handler
Answer(o, status, required, late) ==
  [status |-> status, written |-> o.written, required |-> required, late |-> late, bad |-> o.bad,
   allowed |-> NULL]

LEMMA AnswerRecord ==
  ASSUME NEW o, o.written \in Nat, o.bad \in BOOLEAN, NEW status \in Statuses,
         NEW required \in Nat, NEW late \in BOOLEAN
  PROVE  /\ Answer(o, status, required, late) \in DoneRecords
         /\ Answer(o, status, required, late).written = o.written
         /\ Answer(o, status, required, late).required = required
BY DEF Answer, DoneRecords

(* Steps that leave the state of the cipher as OpenSSL does *)
LEMMA SymmetricHandled ==
  ASSUME IInv, NEW t \in Threads, NEW in \in {"CLEAR", "SVP"}, NEW n \in Lengths,
         process_symmetric(t, in, n)
  PROVE  \E x \in cipher_s, d \in DoneRecords : Handled(t, x, d) /\ Fits(t, x, d)
<1> DEFINE c == Cipher(t)
<1> USE CipherAssumption
<1>1. Context(t) \in Contexts /\ c \in cipher_s
  BY AtWork DEF Working, process_symmetric, Accepted
<1>2. n \in Nat /\ c.cipher_algorithm \in Symmetric /\ (c.cipher_algorithm \in Blocks => n % BLOCK = 0)
  BY DEF process_symmetric, Accepted, ProcessStatus
<1>3. PICK o \in Update(c, n) :
        /\ store' = [store EXCEPT ![Context(t)] = o.cipher]
        /\ Did(t, o, IF o.ok THEN "OK" ELSE "INTERNAL_ERROR", RequiredLength(c, n))
  BY DEF process_symmetric
<1>4. /\ SameCipher(o.cipher, c) /\ o.written \in Nat /\ o.cipher.last = c.last
      /\ o.ok \in BOOLEAN /\ o.bad \in BOOLEAN
      /\ IF c.cipher_algorithm \in Padded /\ c.cipher_mode = "ENCRYPT"
         THEN /\ o.ok
              /\ o.written = BLOCK * ((c.buffered + n) \div BLOCK)
              /\ o.cipher.buffered = (c.buffered + n) % BLOCK
         ELSE o.written <= n /\ o.cipher.buffered = c.buffered
  BY <1>1, <1>2, UpdateOutcome DEF Blocks
<1>5. c.buffered \in 0 .. BLOCK - 1 /\ c.last \in BOOLEAN
  BY <1>1 DEF cipher_s
<1>6. o.written <= n /\ o.cipher.buffered = c.buffered
  <2>1. CASE c.cipher_algorithm \in Padded /\ c.cipher_mode = "ENCRYPT"
    <3>1. n % BLOCK = 0
      BY <1>2, <2>1 DEF Blocks
    <3>2. BLOCK * ((c.buffered + n) \div BLOCK) = n /\ (c.buffered + n) % BLOCK = c.buffered
      BY <1>2, <1>5, <3>1
    <3>3. QED
      BY <1>2, <1>4, <2>1, <3>2
  <2>2. QED
    BY <1>4, <2>1
<1>7. RequiredLength(c, n) = n
  BY <1>2 DEF RequiredLength, Symmetric, Blocks, Padded, Streams, Tagged, Asymmetric
<1> DEFINE st == IF o.ok THEN "OK" ELSE "INTERNAL_ERROR"
           d == Answer(o, st, n, c.last)
<1>8. st \in Statuses
  BY DEF Statuses
<1>9. done' = [done EXCEPT ![t] = d]
  BY <1>3, <1>7 DEF Did, Answer
<1> HIDE DEF st
<1>10. d \in DoneRecords /\ d.written <= d.required
  BY <1>2, <1>4, <1>5, <1>6, <1>8, AnswerRecord
<1> HIDE DEF d
<1>11. pc[t] \in WorkPoints /\ pc' = [pc EXCEPT ![t] = "release"] /\ given' = given
       /\ UNCHANGED <<refs, owner, depth, client_refs, call>>
  BY DEF process_symmetric, Accepted, Goto, WorkPoints
<1>12. Handled(t, o.cipher, d)
  BY <1>3, <1>4, <1>9, <1>10, <1>11 DEF Handled, Works
<1>13. Fits(t, o.cipher, d)
  BY <1>1, <1>4, <1>6, <1>10, NullAssumption DEF Fits, BufferedIsLast, Cipher
<1>14. o.cipher \in cipher_s
  BY <1>4 DEF SameCipher
<1>15. QED
  BY <1>10, <1>12, <1>13, <1>14

LEMMA AsymmetricHandled ==
  ASSUME IInv, NEW t \in Threads, NEW in \in {"CLEAR", "SVP"}, NEW n \in Lengths,
         process_asymmetric(t, in, n)
  PROVE  \E x \in cipher_s, d \in DoneRecords : Handled(t, x, d) /\ Fits(t, x, d)
<1> DEFINE c == Cipher(t)
<1> USE CipherAssumption
<1>1. Context(t) \in Contexts /\ c \in cipher_s
  BY AtWork DEF Working, process_asymmetric, Accepted
<1>2. PICK written \in 0 .. KEY_SIZE, ok \in BOOLEAN :
        Did(t, Outcome(c, ok, IF ok THEN written ELSE 0, ~ok),
            IF ok THEN "OK" ELSE "VERIFICATION_FAILED", KEY_SIZE)
  BY DEF process_asymmetric
<1> DEFINE o == Outcome(c, ok, IF ok THEN written ELSE 0, ~ok)
           st == IF ok THEN "OK" ELSE "VERIFICATION_FAILED"
           d == Answer(o, st, KEY_SIZE, c.last)
<1>3. o.written \in 0 .. KEY_SIZE /\ o.bad \in BOOLEAN
  BY DEF Outcome
<1>4. st \in Statuses /\ c.last \in BOOLEAN
  BY <1>1 DEF Statuses, cipher_s
<1>5. done' = [done EXCEPT ![t] = d]
  BY <1>2 DEF Did, Answer
<1> HIDE DEF st, o
<1>6. d \in DoneRecords /\ d.written <= d.required
  BY <1>3, <1>4, AnswerRecord
<1> HIDE DEF d
<1>7. /\ pc[t] \in WorkPoints /\ pc' = [pc EXCEPT ![t] = "release"]
      /\ UNCHANGED <<store, refs, owner, depth, client_refs, given, call>>
  BY DEF process_asymmetric, Accepted, Goto, WorkPoints
<1>8. QED
  BY <1>5, <1>6, <1>7, Answered

LEMMA LastHandled ==
  ASSUME IInv, NEW t \in Threads, NEW in \in {"CLEAR", "SVP"}, NEW n \in Lengths,
         process_last(t, in, n)
  PROVE  \E x \in cipher_s, d \in DoneRecords : Handled(t, x, d) /\ Fits(t, x, d)
<1> DEFINE c == Cipher(t)
<1> USE CipherAssumption
<1>1. Context(t) \in Contexts /\ c \in cipher_s
  BY AtWork DEF Working, process_last, Accepted
<1>2. n \in Nat /\ LastStatus(c, n) = "OK" /\ pc[t] = "work" /\ call[t].name = "process_last"
  BY DEF process_last, Accepted
<1>3. PICK o \in UpdateAndFinal(c, n) :
        /\ store' = [store EXCEPT ![Context(t)] = [o.cipher EXCEPT !.last = o.ok \/ c.last]]
        /\ Did(t, o, IF o.ok THEN "OK" ELSE "INTERNAL_ERROR", LastRequiredLength(c, n))
  BY DEF process_last
<1>4. /\ SameCipher(o.cipher, c) /\ o.written \in Nat
      /\ o.ok \in BOOLEAN /\ o.bad \in BOOLEAN
      /\ c.buffered = 0 =>
           /\ o.written <= LastRequiredLength(c, n)
           /\ o.ok \/ o.cipher.buffered = 0
  BY <1>1, <1>2, LastOutcome
<1> DEFINE late == o.ok \/ c.last
           x == [o.cipher EXCEPT !.last = late]
           st == IF o.ok THEN "OK" ELSE "INTERNAL_ERROR"
           d == Answer(o, st, LastRequiredLength(c, n), c.last)
<1>5. c.last \in BOOLEAN /\ o.cipher \in cipher_s /\ late \in BOOLEAN
  BY <1>1, <1>4 DEF cipher_s, SameCipher
<1> HIDE DEF late
<1>6. SameCipher(x, o.cipher) /\ x.last = late /\ x.buffered = o.cipher.buffered
  BY <1>5, LastSame
<1>7. st \in Statuses
  BY DEF Statuses
<1>8. LastRequiredLength(c, n) \in Nat
  BY <1>2 DEF LastRequiredLength
<1>9. done' = [done EXCEPT ![t] = d] /\ store' = [store EXCEPT ![Context(t)] = x]
  BY <1>3 DEF Did, Answer, late
<1> HIDE DEF st, x
<1>10. d \in DoneRecords /\ d.written = o.written /\ d.required = LastRequiredLength(c, n)
  BY <1>4, <1>5, <1>7, <1>8, AnswerRecord
<1> HIDE DEF d
<1>11. pc[t] \in WorkPoints /\ pc' = [pc EXCEPT ![t] = "release"] /\ given' = given
       /\ UNCHANGED <<refs, owner, depth, client_refs, call>>
  BY DEF process_last, Accepted, Goto, WorkPoints
<1>12. SameCipher(x, c) /\ x \in cipher_s
  BY <1>4, <1>6 DEF SameCipher
<1>13. Handled(t, x, d)
  BY <1>2, <1>9, <1>10, <1>11, <1>12 DEF Handled, Works
<1>14. Fits(t, x, d)
  <2>1. LastAlone => ~c.last
    BY <1>2 DEF LastAlone
  <2>2. LastAlone /\ BufferedIsLast => c.buffered = 0
    BY <1>1, <2>1, NullAssumption DEF BufferedIsLast, Cipher
  <2>3. QED
    BY <1>4, <1>5, <1>6, <1>10, <2>2 DEF Fits, late
<1>15. QED
  BY <1>10, <1>12, <1>13, <1>14

LEMMA IvHandled ==
  ASSUME IInv, NEW t \in Threads, update_iv(t)
  PROVE  \E x \in cipher_s, d \in DoneRecords : Handled(t, x, d) /\ Fits(t, x, d)
<1> DEFINE c == Cipher(t)
<1>1. Context(t) \in Contexts /\ c \in cipher_s
  BY AtWork DEF Working, update_iv
<1>2. /\ pc[t] \in WorkPoints /\ pc' = [pc EXCEPT ![t] = "release"] /\ given' = given
      /\ UNCHANGED <<refs, owner, depth, client_refs, call>>
  BY DEF update_iv, Goto, WorkPoints
<1>3. CASE HasIv(c)
  <2>1. store' = [store EXCEPT ![Context(t)] = IvSet(c)] /\ done' = done
    BY <1>1, <1>3 DEF update_iv, IInv, TypeOK, Cipher
  <2>2. SameCipher(IvSet(c), c) /\ IvSet(c).buffered = 0 /\ IvSet(c).last = FALSE
    BY <1>1, IvSame
  <2>3. done[t] \in DoneRecords /\ done' = [done EXCEPT ![t] = done[t]]
    BY <2>1 DEF IInv, TypeOK, DoneRecords
  <2>4. Handled(t, IvSet(c), done[t])
    BY <1>2, <2>1, <2>2, <2>3 DEF Handled, Works
  <2>5. Fits(t, IvSet(c), done[t])
    BY <2>2 DEF Fits, OutputFits
  <2>6. IvSet(c) \in cipher_s
    BY <2>2 DEF SameCipher
  <2>7. QED
    BY <2>3, <2>4, <2>5, <2>6
<1>4. CASE ~HasIv(c)
  <2>1. Status(t, "INVALID_PARAMETER") /\ store' = store
    BY <1>4 DEF update_iv
  <2>2. "INVALID_PARAMETER" \in Statuses
    BY DEF Statuses
  <2>3. QED
    BY <1>2, <2>1, <2>2, AnsweredStatus
<1>5. QED
  BY <1>3, <1>4

LEMMA SampleHandled ==
  ASSUME IInv, NEW t \in Threads, cenc_process_sample(t)
  PROVE  \E x \in cipher_s, d \in DoneRecords : Handled(t, x, d) /\ Fits(t, x, d)
<1> DEFINE c == Cipher(t)
<1> USE CipherAssumption
<1>1. Context(t) \in Contexts /\ c \in cipher_s
  BY AtWork DEF Working, cenc_process_sample
<1>2. SameCipher(IvSet(c), c) /\ IvSet(c).buffered = 0 /\ IvSet(c).last = FALSE
  BY <1>1, IvSame
<1>3. IvSet(c) \in cipher_s /\ IvSet(c).cipher_mode = "DECRYPT" /\ BLOCK % BLOCK = 0
  BY <1>2 DEF SameCipher, cenc_process_sample, Decrypts
<1>4. PICK o \in Update(IvSet(c), BLOCK) : store' = [store EXCEPT ![Context(t)] = o.cipher]
  BY DEF cenc_process_sample
<1>5. SameCipher(o.cipher, IvSet(c)) /\ o.cipher.last = FALSE /\ o.cipher.buffered = 0
  BY <1>2, <1>3, UpdateOutcome
<1>6. SameCipher(o.cipher, c) /\ o.cipher \in cipher_s
  BY <1>2, <1>5 DEF SameCipher
<1>7. /\ pc[t] \in WorkPoints /\ pc' = [pc EXCEPT ![t] = "release"] /\ given' = given
      /\ UNCHANGED <<refs, owner, depth, client_refs, call>>
  BY DEF cenc_process_sample, Goto, WorkPoints
<1>8. done[t] \in DoneRecords /\ done' = [done EXCEPT ![t] = done[t]]
  BY DEF cenc_process_sample, IInv, TypeOK, DoneRecords
<1>9. Handled(t, o.cipher, done[t])
  BY <1>4, <1>5, <1>6, <1>7, <1>8 DEF Handled, Works
<1>10. Fits(t, o.cipher, done[t])
  BY <1>5 DEF Fits, OutputFits
<1>11. QED
  BY <1>6, <1>8, <1>9, <1>10

LEMMA HandlersHandled ==
  ASSUME IInv, NEW t \in Threads,
         \/ AnswerLength(t) \/ OaepFails(t) \/ VerifyFails(t) \/ SampleFails(t)
         \/ cipher_set_oaep_parameters(t) \/ update_iv(t) \/ cenc_process_sample(t)
         \/ \E in \in {"CLEAR", "SVP"}, n \in Lengths :
              \/ Refused(t, in, n)
              \/ process_symmetric(t, in, n) \/ process_asymmetric(t, in, n)
              \/ process_last(t, in, n)
  PROVE  \E x \in cipher_s, d \in DoneRecords : Handled(t, x, d) /\ Fits(t, x, d)
BY RefusalsHandled, OaepHandled, SymmetricHandled, AsymmetricHandled, LastHandled, IvHandled,
   SampleHandled

-----------------------------------------------------------------------------
(* Every action preserves IInv. *)

LEMMA InitIInv == Init => IInv
<1> SUFFICES ASSUME Init PROVE IInv
  OBVIOUS
<1>1. TypeOK
  BY DEF Init, TypeOK, Points, Nothing, NoCall, Statuses, Names, BufferTypes
<1>2. ControlOK
  BY DEF Init, ControlOK, Context, NoCall
<1>3. LocksOwned
  BY DEF Init, LocksOwned, Working
<1>4. RefsCounted
  <2>1. InCalls = {} /\ \A c \in Contexts : Waiting(c) = {}
    BY DEF Init, InCalls, Waiting
  <2>2. QED
    BY <2>1, FS_EmptySet DEF Init, RefsCounted
<1>5. ReferredIsStored /\ GivenIsStored /\ GivenComplete
  BY DEF Init, ReferredIsStored, GivenIsStored, GivenComplete
<1>6. QED
  BY <1>1, <1>2, <1>3, <1>4, <1>5 DEF IInv

LEMMA HandledIInv ==
  ASSUME IInv, NEW t \in Threads, NEW x \in cipher_s, NEW d \in DoneRecords, Handled(t, x, d), UNCHANGED allows
  PROVE  IInv'
<1>1. /\ Working(t) /\ pc[t] \in WorkPoints /\ SameCipher(x, Cipher(t))
      /\ store' = [store EXCEPT ![Context(t)] = x] /\ pc' = [pc EXCEPT ![t] = "release"]
      /\ done' = [done EXCEPT ![t] = d]
      /\ given' = given \/ (given' = given \cup {Context(t)} /\ x.oaep)
      /\ UNCHANGED <<refs, owner, depth, client_refs, call>>
  BY DEF Handled, Works, Working, WorkPoints
<1>2. Context(t) \in Contexts /\ Cipher(t) \in cipher_s
  BY <1>1, AtWork
<1>3. TypeOK'
  BY <1>1, <1>2 DEF IInv, TypeOK, Points, DoneRecords
<1>4. ControlOK'
  BY <1>1, <1>2 DEF IInv, TypeOK, ControlOK, Context
<1>5. LocksOwned' /\ RefsCounted'
  <2>1. StepOf(t)
    BY <1>1 DEF IInv, TypeOK, StepOf
  <2>2. /\ pc[t] \notin LockPoints /\ pc'[t] \notin LockPoints
        /\ pc[t] # "idle" /\ pc'[t] # "idle" /\ Working(t) /\ call'[t] = call[t]
    BY <1>1 DEF IInv, TypeOK, LockPoints, WorkPoints, Working
  <2>3. QED
    BY <1>1, <2>1, <2>2, FrameIInv
<1>6. x # NULL
  BY NullAssumption
<1>7. ReferredIsStored' /\ GivenIsStored'
  BY <1>1, <1>2, <1>6 DEF IInv, TypeOK, ReferredIsStored, GivenIsStored
<1>8. GivenComplete'
  BY <1>1, <1>2 DEF IInv, TypeOK, GivenIsStored, GivenComplete, SameCipher, Cipher
<1>9. QED
  BY <1>3, <1>4, <1>5, <1>7, <1>8 DEF IInv

\* A call begins.
Begins(t) == ta_sa_crypto_cipher_init(t) \/
  \E name \in Names \ {"init"}, c \in Contexts, out \in BufferTypes : Call(t, name, c, out)

LEMMA BeginIInv ==
  ASSUME IInv, NEW t \in Threads, Begins(t), UNCHANGED allows
  PROVE  IInv'
<1>1. PICK k \in [name : Names, context : Contexts \cup {NULL}, out : BufferTypes],
           p \in {"init", "acquire", "remove"} :
        /\ pc[t] = "idle" /\ pc' = [pc EXCEPT ![t] = p] /\ call' = [call EXCEPT ![t] = k]
        /\ p = "init" => k.context = NULL /\ k.name = "init"
        /\ p # "init" => k.context \in Contexts
  <2>1. CASE ta_sa_crypto_cipher_init(t)
    <3>1. [NoCall EXCEPT !.name = "init"] \in
            [name : Names, context : Contexts \cup {NULL}, out : BufferTypes]
          /\ [NoCall EXCEPT !.name = "init"].context = NULL
          /\ [NoCall EXCEPT !.name = "init"].name = "init"
      BY DEF NoCall, Names, BufferTypes
    <3>2. QED
      BY <2>1, <3>1 DEF ta_sa_crypto_cipher_init, Goto
  <2>2. ASSUME NEW name \in Names \ {"init"}, NEW c \in Contexts, NEW out \in BufferTypes,
               Call(t, name, c, out)
        PROVE  \E k \in [name : Names, context : Contexts \cup {NULL}, out : BufferTypes],
                  p \in {"acquire", "remove"} :
                 /\ pc[t] = "idle" /\ pc' = [pc EXCEPT ![t] = p] /\ call' = [call EXCEPT ![t] = k]
                 /\ k.context \in Contexts
    <3> DEFINE k == [name |-> name, context |-> c, out |-> out]
               p == IF name = "release" THEN "remove" ELSE "acquire"
    <3>1. k \in [name : Names, context : Contexts \cup {NULL}, out : BufferTypes]
          /\ k.context \in Contexts /\ p \in {"acquire", "remove"}
      OBVIOUS
    <3>2. pc[t] = "idle" /\ pc' = [pc EXCEPT ![t] = p] /\ call' = [call EXCEPT ![t] = k]
      BY <2>2 DEF Call, MayCall, Goto
    <3>3. QED
      BY <3>1, <3>2
  <2>3. QED
    BY <2>1, <2>2 DEF Begins
<1>2. /\ client_refs' = client_refs + 1 /\ UNCHANGED <<store, refs, owner, depth, done>>
      /\ given' \subseteq given
  BY DEF Begins, ta_sa_crypto_cipher_init, Call
<1>3. TypeOK'
  BY <1>1, <1>2 DEF IInv, TypeOK, Points
<1>4. ControlOK'
  BY <1>1, <1>2 DEF IInv, TypeOK, ControlOK, Context
<1>5. LocksOwned' /\ RefsCounted'
  <2>1. StepOf(t) /\ pc'[t] = p
    BY <1>1 DEF IInv, TypeOK, StepOf
  <2>2. /\ pc[t] \notin LockPoints /\ pc'[t] \notin LockPoints /\ ~Working(t)'
    BY <1>1, <2>1 DEF LockPoints, Working
  <2>3. QED
    BY <1>2, <2>1, <2>2, FrameIInv
<1>6. ReferredIsStored' /\ GivenIsStored' /\ GivenComplete'
  BY <1>2 DEF IInv, ReferredIsStored, GivenIsStored, GivenComplete
<1>7. QED
  BY <1>3, <1>4, <1>5, <1>6 DEF IInv

\* A call ends early.
Ends(t) ==
  \/ InitRefused(t) \/ AddFails(t)
  \/ ReferFails(t, "oaep_acquire") \/ ReferFails(t, "acquire") \/ ReferFails(t, "cenc_acquire")
  \/ ReferFails(t, "remove")

LEMMA EndsHow ==
  ASSUME NEW t \in Threads, Ends(t)
  PROVE  /\ pc[t] \in {"init", "oaep_acquire", "acquire", "cenc_acquire", "remove"}
         /\ pc[t] = "remove" => Cipher(t) = NULL
         /\ pc' = [pc EXCEPT ![t] = "return"]
         /\ UNCHANGED <<store, refs, owner, depth, client_refs, given, call>>
         /\ \E d \in DoneRecords : done' = [done EXCEPT ![t] = d] /\ d.written = d.required
<1>1. PICK s \in Statuses : Status(t, s)
  BY DEF Ends, InitRefused, AddFails, ReferFails, Statuses
<1>2. \E d \in DoneRecords : done' = [done EXCEPT ![t] = d] /\ d.written = d.required
  BY <1>1, StatusRecord DEF Status
<1>3. QED
  BY <1>2 DEF Ends, InitRefused, AddFails, ReferFails, Goto

LEMMA EndIInv ==
  ASSUME IInv, NEW t \in Threads, Ends(t), UNCHANGED allows
  PROVE  IInv'
<1>1. PICK d \in DoneRecords : done' = [done EXCEPT ![t] = d]
  BY EndsHow
<1>2. /\ pc[t] \in {"init", "oaep_acquire", "acquire", "cenc_acquire", "remove"}
      /\ pc' = [pc EXCEPT ![t] = "return"]
      /\ UNCHANGED <<store, refs, owner, depth, client_refs, given, call>>
  BY EndsHow
<1>3. TypeOK'
  BY <1>1, <1>2 DEF IInv, TypeOK, Points, DoneRecords
<1>4. ControlOK'
  BY <1>2 DEF IInv, TypeOK, ControlOK, Context
<1>5. LocksOwned' /\ RefsCounted'
  <2>1. StepOf(t) /\ pc'[t] = "return"
    BY <1>2 DEF IInv, TypeOK, StepOf
  <2>2. /\ pc[t] \notin LockPoints /\ pc'[t] \notin LockPoints /\ ~Working(t)' /\ pc[t] # "idle"
    BY <1>2, <2>1 DEF LockPoints, Working
  <2>3. QED
    BY <1>2, <2>1, <2>2, FrameIInv
<1>6. ReferredIsStored' /\ GivenIsStored' /\ GivenComplete'
  BY <1>2 DEF IInv, ReferredIsStored, GivenIsStored, GivenComplete
<1>7. QED
  BY <1>3, <1>4, <1>5, <1>6 DEF IInv

LEMMA NewCipherType ==
  ASSUME NEW a \in Algorithms, NEW m \in Modes, NEW k \in Keys
  PROVE  /\ NewCipher(a, m, k) \in cipher_s
         /\ NewCipher(a, m, k).cipher_algorithm = a
         /\ NewCipher(a, m, k).buffered = 0
         /\ NewCipher(a, m, k).last = FALSE
BY CipherAssumption DEF NewCipher, cipher_s

LEMMA AddHow ==
  ASSUME NEW t \in Threads, NEW c \in Contexts, NEW a \in Algorithms, NEW m \in Modes,
         NEW k \in Keys, Add(t, c, a, m, k), TypeOK
  PROVE  /\ pc[t] = "init" /\ store[c] = NULL
         /\ store' = [store EXCEPT ![c] = NewCipher(a, m, k)]
         /\ call'[t] \in [name : Names, context : Contexts \cup {NULL}, out : BufferTypes]
         /\ call' = [call EXCEPT ![t] = call'[t]]
         /\ call'[t].context = c /\ call'[t].name = call[t].name
         /\ IF a = "RSA_OAEP" THEN pc' = [pc EXCEPT ![t] = "oaep_acquire"] /\ given' = given
                              ELSE pc' = [pc EXCEPT ![t] = "return"] /\ given' = given \cup {c}
         /\ UNCHANGED <<refs, owner, depth, client_refs, done>>
BY DEF Add, Goto, TypeOK

LEMMA AddIInv ==
  ASSUME IInv, NEW t \in Threads, NEW c \in Contexts, NEW a \in Algorithms, NEW m \in Modes,
         NEW k \in Keys, Add(t, c, a, m, k), UNCHANGED allows
  PROVE  IInv'
<1> DEFINE x == NewCipher(a, m, k)
<1>1. /\ pc[t] = "init" /\ store[c] = NULL
      /\ store' = [store EXCEPT ![c] = x]
      /\ call'[t] \in [name : Names, context : Contexts \cup {NULL}, out : BufferTypes]
      /\ call' = [call EXCEPT ![t] = call'[t]]
      /\ call'[t].context = c
      /\ IF a = "RSA_OAEP" THEN pc' = [pc EXCEPT ![t] = "oaep_acquire"] /\ given' = given
                           ELSE pc' = [pc EXCEPT ![t] = "return"] /\ given' = given \cup {c}
      /\ UNCHANGED <<refs, owner, depth, client_refs, done>>
  BY AddHow DEF IInv
<1>2. x \in cipher_s /\ x.cipher_algorithm = a /\ x # NULL
  BY NewCipherType, NullAssumption
<1> HIDE DEF x
<1>3. TypeOK'
  <2>1. PICK r \in [name : Names, context : Contexts \cup {NULL}, out : BufferTypes] :
          call' = [call EXCEPT ![t] = r]
    BY <1>1
  <2>2. PICK p \in Points : pc' = [pc EXCEPT ![t] = p]
    BY <1>1 DEF Points
  <2>3. given' \subseteq Contexts
    BY <1>1 DEF IInv, TypeOK
  <2>4. QED
    BY <1>1, <1>2, <2>1, <2>2, <2>3 DEF IInv, TypeOK
<1>4. ControlOK'
  BY <1>1 DEF IInv, TypeOK, ControlOK, Context
<1>5. LocksOwned' /\ RefsCounted'
  <2>1. StepOf(t) /\ pc'[t] \in {"oaep_acquire", "return"}
    BY <1>1 DEF IInv, TypeOK, StepOf
  <2>2. /\ pc[t] \notin LockPoints /\ pc'[t] \notin LockPoints /\ ~Working(t)' /\ pc[t] # "idle"
    BY <1>1, <2>1 DEF LockPoints, Working
  <2>3. QED
    BY <1>1, <2>1, <2>2, FrameIInv
<1>6. ReferredIsStored' /\ GivenIsStored'
  BY <1>1, <1>2 DEF IInv, TypeOK, ReferredIsStored, GivenIsStored
<1>7. GivenComplete'
  BY <1>1, <1>2 DEF IInv, TypeOK, GivenIsStored, GivenComplete
<1>8. QED
  BY <1>3, <1>4, <1>5, <1>6, <1>7 DEF IInv

(* A reference is taken. *)
LEMMA ReferIInv ==
  ASSUME IInv, NEW t \in Threads,
         NEW from \in {"oaep_acquire", "acquire", "cenc_acquire"}, NEW to \in LockPoints,
         Refer(t, from, to), UNCHANGED allows
  PROVE  IInv'
<1>0. PICK c0 \in Contexts : Context(t) = c0
  BY DEF Refer, IInv, ControlOK
<1> USE <1>0
<1>1. /\ pc[t] = from /\ store[c0] # NULL /\ refs' = [refs EXCEPT ![c0] = @ + 1]
      /\ pc' = [pc EXCEPT ![t] = to]
      /\ UNCHANGED <<store, owner, depth, client_refs, given, call, done>>
  BY DEF Refer, Goto, Cipher
<1>2. c0 \in Contexts
  OBVIOUS
<1>3. TypeOK'
  BY <1>1, <1>2 DEF IInv, TypeOK, Points, LockPoints
<1>4. ControlOK'
  BY <1>1, <1>2 DEF IInv, TypeOK, ControlOK, Context, LockPoints
<1>5. StepOf(t) /\ pc'[t] = to
  BY <1>1 DEF IInv, TypeOK, StepOf
<1>6. LocksOwned'
  BY <1>1, <1>5 DEF IInv, LocksOwned, StepOf, Working, Context, LockPoints
<1>7. RefsCounted'
  <2>1. \A c \in Contexts \ {c0} : Waiting(c)' = Waiting(c)
    BY <1>1, <1>5 DEF StepOf, Waiting, Context, LockPoints
  <2>2. Waiting(c0)' = Waiting(c0) \cup {t} /\ t \notin Waiting(c0)
    BY <1>1, <1>5 DEF StepOf, Waiting, Context, LockPoints
  <2>3. Waiting(c0) \in SUBSET Threads
    BY DEF Waiting
  <2>4. Cardinality(Waiting(c0))' = Cardinality(Waiting(c0)) + 1 /\ Cardinality(Waiting(c0)) \in Nat
    BY <2>2, <2>3, CountThreads
  <2>5. Cardinality(InCalls)' = Cardinality(InCalls)
    BY <1>1, <1>5, CallsCounted DEF LockPoints
  <2>6. \A c \in Contexts : refs'[c] = depth'[c] + Cardinality(Waiting(c))'
    <3>1. refs[c0] \in Nat /\ depth[c0] \in Nat
          /\ refs[c0] = depth[c0] + Cardinality(Waiting(c0))
      BY <1>2 DEF IInv, TypeOK, RefsCounted
    <3>2. refs'[c0] = depth'[c0] + Cardinality(Waiting(c0))'
      BY <1>1, <1>2, <2>4, <3>1 DEF IInv, TypeOK
    <3>3. ASSUME NEW c \in Contexts \ {c0} PROVE refs'[c] = depth'[c] + Cardinality(Waiting(c))'
      BY <1>1, <2>1 DEF IInv, TypeOK, RefsCounted
    <3>4. QED
      BY <3>2, <3>3
  <2>7. QED
    BY <1>1, <2>5, <2>6 DEF IInv, RefsCounted
<1>8. ReferredIsStored' /\ GivenIsStored' /\ GivenComplete'
  BY <1>1, <1>2 DEF IInv, TypeOK, ReferredIsStored, GivenIsStored, GivenComplete
<1>9. QED
  BY <1>3, <1>4, <1>6, <1>7, <1>8 DEF IInv

(* The mutex is obtained: a thread that waits becomes one that works. *)
LEMMA LockIInv ==
  ASSUME IInv, NEW t \in Threads, NEW from \in LockPoints, NEW to \in WorkPoints,
         cipher_lock(t, from, to), UNCHANGED allows
  PROVE  IInv'
<1>0. PICK c0 \in Contexts : Context(t) = c0
  BY DEF cipher_lock, LockPoints, IInv, ControlOK
<1> USE <1>0
<1>1. /\ pc[t] = from /\ owner[c0] \in {NULL, t} /\ owner' = [owner EXCEPT ![c0] = t]
      /\ depth' = [depth EXCEPT ![c0] = @ + 1] /\ pc' = [pc EXCEPT ![t] = to]
      /\ UNCHANGED <<store, refs, client_refs, given, call, done>>
  BY DEF cipher_lock, Goto
<1>2. c0 \in Contexts
  OBVIOUS
<1>3. TypeOK'
  BY <1>1, <1>2 DEF IInv, TypeOK, Points, WorkPoints
<1>4. ControlOK'
  BY <1>1, <1>2 DEF IInv, TypeOK, ControlOK, Context, WorkPoints
<1>5. StepOf(t) /\ pc'[t] = to
  BY <1>1 DEF IInv, TypeOK, StepOf
<1>6. LocksOwned'
  <2>1. \A c \in Contexts : (owner'[c] = NULL) <=> (depth'[c] = 0)
    BY <1>1, <1>2, NullAssumption DEF IInv, TypeOK, LocksOwned
  <2>2. ASSUME NEW u \in Threads, Working(u)' PROVE owner'[Context(u)'] = u
    <3>1. CASE u = t
      BY <1>1, <1>2, <3>1 DEF IInv, TypeOK, Context
    <3>2. CASE u # t
      <4>1. Working(u) /\ Context(u)' = Context(u)
        BY <1>5, <2>2, <3>2 DEF StepOf, Working, Context
      <4>2. owner[Context(u)] = u /\ Context(u) \in Contexts
        BY <4>1, AtWork
      <4>3. Context(u) # c0
        BY <1>1, <3>2, <4>2, NullAssumption
      <4>4. QED
        BY <1>1, <4>1, <4>2, <4>3 DEF IInv, TypeOK
    <3>3. QED
      BY <3>1, <3>2
  <2>3. QED
    BY <2>1, <2>2 DEF LocksOwned
<1>7. RefsCounted'
  <2>1. \A c \in Contexts \ {c0} : Waiting(c)' = Waiting(c)
    BY <1>1, <1>5 DEF StepOf, Waiting, Context, LockPoints
  <2>2. Waiting(c0)' = Waiting(c0) \ {t} /\ t \in Waiting(c0)
    BY <1>1, <1>5 DEF StepOf, Waiting, Context, LockPoints, WorkPoints
  <2>3. Waiting(c0) \in SUBSET Threads
    BY DEF Waiting
  <2>4. Cardinality(Waiting(c0))' = Cardinality(Waiting(c0)) - 1 /\ Cardinality(Waiting(c0)) \in Nat
    BY <2>2, <2>3, CountThreads
  <2>5. Cardinality(InCalls)' = Cardinality(InCalls)
    BY <1>1, <1>5, CallsCounted DEF LockPoints, WorkPoints
  <2>6. \A c \in Contexts : refs'[c] = depth'[c] + Cardinality(Waiting(c))'
    <3>1. refs[c0] \in Nat /\ depth[c0] \in Nat
          /\ refs[c0] = depth[c0] + Cardinality(Waiting(c0))
      BY <1>2 DEF IInv, TypeOK, RefsCounted
    <3>2. refs'[c0] = depth'[c0] + Cardinality(Waiting(c0))'
      BY <1>1, <1>2, <2>4, <3>1 DEF IInv, TypeOK
    <3>3. ASSUME NEW c \in Contexts \ {c0} PROVE refs'[c] = depth'[c] + Cardinality(Waiting(c))'
      BY <1>1, <2>1 DEF IInv, TypeOK, RefsCounted
    <3>4. QED
      BY <3>2, <3>3
  <2>7. QED
    BY <1>1, <2>5, <2>6 DEF IInv, RefsCounted
<1>8. ReferredIsStored' /\ GivenIsStored' /\ GivenComplete'
  BY <1>1 DEF IInv, ReferredIsStored, GivenIsStored, GivenComplete
<1>9. QED
  BY <1>3, <1>4, <1>6, <1>7, <1>8 DEF IInv

\* The steps that unlock the cipher and drop the reference
Unlocks(t) ==
  (\E in \in {"CLEAR", "SVP"} : verify_sample(t, in)) \/ cipher_store_release_exclusive(t)

LEMMA UnlocksHow ==
  ASSUME IInv, NEW t \in Threads, Unlocks(t)
  PROVE  LET c == Context(t)
         IN  /\ pc[t] \in {"work", "release"} /\ Working(t)
             /\ \E p \in {"cenc_acquire", "return"} : pc' = [pc EXCEPT ![t] = p]
             /\ depth' = [depth EXCEPT ![c] = @ - 1]
             /\ owner' = [owner EXCEPT ![c] = IF depth[c] = 1 THEN NULL ELSE t]
             /\ refs' = [refs EXCEPT ![c] = @ - 1]
             /\ UNCHANGED <<store, client_refs, given, call>>
BY DEF Unlocks, verify_sample, cipher_store_release_exclusive, Released, Goto, Working

(* A call that goes on after it has unlocked has verified the cipher.        *)
LEMMA UnlocksDone ==
  ASSUME IInv, NEW t \in Threads, Unlocks(t)
  PROVE  \E p \in {"cenc_acquire", "return"}, d \in DoneRecords :
           /\ pc' = [pc EXCEPT ![t] = p] /\ done' = [done EXCEPT ![t] = d]
           /\ d.written = done[t].written /\ d.required = done[t].required
           /\ p = "cenc_acquire" =>
                Verifiable(Cipher(t), call[t].out) /\ d.allowed = Cipher(t).key
<1>1. done[t] \in DoneRecords /\ done \in [Threads -> DoneRecords]
  BY DEF IInv, TypeOK, DoneRecords
<1>2. CASE cipher_store_release_exclusive(t)
  <2>1. pc' = [pc EXCEPT ![t] = "return"] /\ done' = [done EXCEPT ![t] = done[t]]
    BY <1>1, <1>2 DEF cipher_store_release_exclusive, Goto
  <2>2. QED
    BY <1>1, <2>1
<1>3. ASSUME NEW in \in {"CLEAR", "SVP"}, verify_sample(t, in)
      PROVE  \E d \in DoneRecords :
               /\ pc' = [pc EXCEPT ![t] = "cenc_acquire"] /\ done' = [done EXCEPT ![t] = d]
               /\ d.written = done[t].written /\ d.required = done[t].required
               /\ Verifiable(Cipher(t), call[t].out) /\ d.allowed = Cipher(t).key
  <2> DEFINE k == Cipher(t).key
             d == [done[t] EXCEPT !.allowed = k]
  <2>1. Cipher(t) \in cipher_s
    BY <1>3, AtWork DEF verify_sample, Working
  <2>2. k \in Keys
    BY <2>1 DEF cipher_s
  <2>3. AllowedKey(Cipher(t)) = k
    BY <1>3 DEF verify_sample, AllowedKey
  <2>4. done' = [done EXCEPT ![t] = d]
    BY <1>1, <1>3, <2>3 DEF verify_sample
  <2> HIDE DEF k
  <2>5. d \in DoneRecords /\ d.allowed = k
        /\ d.written = done[t].written /\ d.required = done[t].required
    BY <1>1, <2>2 DEF DoneRecords
  <2> HIDE DEF d
  <2>6. pc' = [pc EXCEPT ![t] = "cenc_acquire"] /\ Verifiable(Cipher(t), call[t].out)
    BY <1>3 DEF verify_sample, Goto
  <2>7. QED
    BY <2>4, <2>5, <2>6 DEF k
<1>4. QED
  BY <1>2, <1>3 DEF Unlocks

LEMMA UnlockIInv ==
  ASSUME IInv, NEW t \in Threads, Unlocks(t), UNCHANGED allows
  PROVE  IInv'
<1> DEFINE c0 == Context(t)
<1>1. PICK p \in {"cenc_acquire", "return"} : pc' = [pc EXCEPT ![t] = p]
  BY UnlocksHow
<1>2. /\ pc[t] \in {"work", "release"} /\ Working(t)
      /\ depth' = [depth EXCEPT ![c0] = @ - 1]
      /\ owner' = [owner EXCEPT ![c0] = IF depth[c0] = 1 THEN NULL ELSE t]
      /\ refs' = [refs EXCEPT ![c0] = @ - 1]
      /\ UNCHANGED <<store, client_refs, given, call>>
  BY UnlocksHow
<1>3. /\ c0 \in Contexts /\ owner[c0] = t /\ depth[c0] \in Nat \ {0} /\ refs[c0] \in Nat \ {0}
  BY <1>2, AtWork
<1>4. TypeOK'
  <2>1. pc' \in [Threads -> Points]
    BY <1>1 DEF IInv, TypeOK, Points
  <2>2. depth' \in [Contexts -> Nat] /\ refs' \in [Contexts -> Nat]
    <3>1. depth[c0] - 1 \in Nat /\ refs[c0] - 1 \in Nat
      BY <1>3
    <3>2. depth \in [Contexts -> Nat] /\ refs \in [Contexts -> Nat]
      BY DEF IInv, TypeOK
    <3>3. QED
      BY <1>2, <1>3, <3>1, <3>2
  <2>3. PICK o \in Threads \cup {NULL} : owner' = [owner EXCEPT ![c0] = o]
    BY <1>2
  <2>4. done' \in [Threads -> DoneRecords]
    <3>1. PICK d \in DoneRecords : done' = [done EXCEPT ![t] = d]
      BY UnlocksDone
    <3>2. QED
      BY <3>1 DEF IInv, TypeOK, DoneRecords
  <2>5. QED
    BY <1>2, <2>1, <2>2, <2>3, <2>4 DEF IInv, TypeOK, DoneRecords
<1>5. ControlOK'
  BY <1>1, <1>2, <1>3 DEF IInv, TypeOK, ControlOK, Context
<1>6. StepOf(t) /\ pc'[t] = p
  BY <1>1, <1>2 DEF IInv, TypeOK, StepOf
<1>7. LocksOwned'
  <2>1. \A c \in Contexts : (owner'[c] = NULL) <=> (depth'[c] = 0)
    BY <1>2, <1>3, NullAssumption DEF IInv, TypeOK, LocksOwned
  <2>2. ASSUME NEW u \in Threads, Working(u)' PROVE owner'[Context(u)'] = u
    <3>1. u # t
      BY <1>6, <2>2 DEF Working
    <3>2. Working(u) /\ Context(u)' = Context(u)
      BY <1>6, <2>2, <3>1 DEF StepOf, Working, Context
    <3>3. owner[Context(u)] = u /\ Context(u) \in Contexts
      BY <3>2, AtWork
    <3>4. QED
      BY <1>2, <1>3, <3>1, <3>2, <3>3 DEF IInv, TypeOK
  <2>3. QED
    BY <2>1, <2>2 DEF LocksOwned
<1>8. RefsCounted'
  <2>1. \A c \in Contexts : Waiting(c)' = Waiting(c) /\ Waiting(c) \in SUBSET Threads
    BY <1>2, <1>6, SameWaiting DEF LockPoints, Waiting
  <2>2. Cardinality(InCalls)' = Cardinality(InCalls)
    BY <1>2, <1>6, CallsCounted
  <2>3. \A c \in Contexts : Cardinality(Waiting(c)) \in Nat
    BY <2>1, CountThreads
  <2>4. \A c \in Contexts : refs'[c] = depth'[c] + Cardinality(Waiting(c))'
    BY <1>2, <1>3, <2>1, <2>3 DEF IInv, TypeOK, RefsCounted
  <2>5. QED
    BY <1>2, <2>2, <2>4 DEF IInv, RefsCounted
<1>9. ReferredIsStored' /\ GivenIsStored' /\ GivenComplete'
  BY <1>2, <1>3 DEF IInv, TypeOK, ReferredIsStored, GivenIsStored, GivenComplete
<1>10. QED
  BY <1>4, <1>5, <1>7, <1>8, <1>9 DEF IInv

(* The call that keeps its lock: the lock stays counted. *)
LEMMA InvalidTypeIInv ==
  ASSUME IInv, NEW t \in Threads, InvalidType(t), UNCHANGED allows
  PROVE  IInv'
<1>1. /\ pc[t] = "work" /\ call[t].out = "INVALID"
      /\ pc' = [pc EXCEPT ![t] = "idle"] /\ call' = [call EXCEPT ![t] = NoCall]
      /\ UNCHANGED <<store, refs, owner, depth, client_refs, given, done>>
  BY DEF InvalidType, Goto
<1>2. NoCall \in [name : Names, context : Contexts \cup {NULL}, out : BufferTypes]
      /\ NoCall.context = NULL
  BY DEF NoCall, Names, BufferTypes
<1>3. TypeOK'
  BY <1>1, <1>2 DEF IInv, TypeOK, Points
<1>4. ControlOK'
  BY <1>1, <1>2 DEF IInv, TypeOK, ControlOK, Context
<1>5. LocksOwned' /\ RefsCounted'
  <2>1. StepOf(t) /\ pc'[t] = "idle"
    BY <1>1 DEF IInv, TypeOK, StepOf
  <2>2. pc[t] \notin LockPoints /\ pc'[t] \notin LockPoints /\ ~Working(t)' /\ pc[t] # "idle"
    BY <1>1, <2>1 DEF LockPoints, Working
  <2>3. QED
    BY <1>1, <2>1, <2>2, FrameIInv
<1>6. ReferredIsStored' /\ GivenIsStored' /\ GivenComplete'
  BY <1>1 DEF IInv, ReferredIsStored, GivenIsStored, GivenComplete
<1>7. QED
  BY <1>3, <1>4, <1>5, <1>6 DEF IInv

LEMMA RemoveIInv ==
  ASSUME IInv, NEW t \in Threads, Remove(t), UNCHANGED allows
  PROVE  IInv'
<1> DEFINE c0 == Context(t)
<1>1. /\ pc[t] = "remove" /\ refs[c0] = 0
      /\ store' = [store EXCEPT ![c0] = NULL] /\ given' = given \ {c0}
      /\ pc' = [pc EXCEPT ![t] = "return"]
      /\ UNCHANGED <<refs, owner, depth, client_refs, call, done>>
  BY DEF Remove, Goto
<1>2. c0 \in Contexts
  BY <1>1 DEF IInv, ControlOK
<1>3. TypeOK'
  BY <1>1, <1>2 DEF IInv, TypeOK, Points
<1>4. ControlOK'
  BY <1>1, <1>2 DEF IInv, TypeOK, ControlOK, Context
<1>5. LocksOwned' /\ RefsCounted'
  <2>1. StepOf(t) /\ pc'[t] = "return"
    BY <1>1 DEF IInv, TypeOK, StepOf
  <2>2. pc[t] \notin LockPoints /\ pc'[t] \notin LockPoints /\ ~Working(t)' /\ pc[t] # "idle"
    BY <1>1, <2>1 DEF LockPoints, Working
  <2>3. QED
    BY <1>1, <2>1, <2>2, FrameIInv
<1>6. ReferredIsStored' /\ GivenIsStored' /\ GivenComplete'
  BY <1>1, <1>2 DEF IInv, TypeOK, ReferredIsStored, GivenIsStored, GivenComplete
<1>7. QED
  BY <1>3, <1>4, <1>5, <1>6 DEF IInv

\* The store at the end of a call: the key of the cipher may be freed.
KeyFreed(t, x) ==
  /\ SameCipher(x, Cipher(t)) /\ x.buffered = Cipher(t).buffered /\ x.last = Cipher(t).last
  /\ store' = [store EXCEPT ![Context(t)] = x]

LEMMA ReturnHow ==
  ASSUME IInv, NEW t \in Threads, client_store_release(t)
  PROVE  /\ pc[t] = "return" /\ pc' = [pc EXCEPT ![t] = "idle"]
         /\ call' = [call EXCEPT ![t] = NoCall] /\ done' = [done EXCEPT ![t] = Nothing]
         /\ client_refs' = client_refs - 1
         /\ UNCHANGED <<refs, owner, depth, given>>
         /\ \/ UNCHANGED store
            \/ /\ Context(t) \in Contexts /\ Cipher(t) \in cipher_s
               /\ \E x \in cipher_s : KeyFreed(t, x)
<1>1. CASE FreesKey(t) /\ Cipher(t) # NULL
  <2> DEFINE c == Cipher(t)
             x == [c EXCEPT !.stored_key = "freed"]
  <2>1. Context(t) \in Contexts
    BY <1>1 DEF FreesKey, IInv, TypeOK, Context
  <2>2. c \in cipher_s
    BY <1>1, <2>1 DEF IInv, TypeOK, Cipher
  <2>3. SameCipher(x, c) /\ x.buffered = c.buffered /\ x.last = c.last
    BY <2>2 DEF SameCipher, cipher_s
  <2>4. store' = [store EXCEPT ![Context(t)] = x]
    BY <1>1, <2>1 DEF client_store_release, IInv, TypeOK, Cipher
  <2>5. x \in cipher_s
    BY <2>3 DEF SameCipher
  <2>6. KeyFreed(t, x)
    BY <2>3, <2>4 DEF KeyFreed
  <2> HIDE DEF x
  <2>7. QED
    BY <2>1, <2>2, <2>5, <2>6 DEF client_store_release, Goto
<1>2. CASE ~(FreesKey(t) /\ Cipher(t) # NULL)
  BY <1>2 DEF client_store_release, Goto
<1>3. QED
  BY <1>1, <1>2

LEMMA ReturnIInv ==
  ASSUME IInv, NEW t \in Threads, client_store_release(t), UNCHANGED allows
  PROVE  IInv'
<1>1. /\ pc[t] = "return" /\ pc' = [pc EXCEPT ![t] = "idle"]
      /\ call' = [call EXCEPT ![t] = NoCall] /\ done' = [done EXCEPT ![t] = Nothing]
      /\ client_refs' = client_refs - 1
      /\ UNCHANGED <<refs, owner, depth, given>>
      /\ \/ UNCHANGED store
         \/ /\ Context(t) \in Contexts /\ Cipher(t) \in cipher_s
            /\ \E x \in cipher_s : KeyFreed(t, x)
  BY ReturnHow
<1>2. NoCall \in [name : Names, context : Contexts \cup {NULL}, out : BufferTypes]
      /\ NoCall.context = NULL /\ Nothing \in DoneRecords
  BY DEF NoCall, Names, BufferTypes, Nothing, DoneRecords, Statuses
<1>3. StepOf(t) /\ pc'[t] = "idle"
  BY <1>1 DEF IInv, TypeOK, StepOf
<1>4. client_refs' \in Nat
  <2>1. Cardinality(InCalls)' = Cardinality(InCalls) - 1 /\ Cardinality(InCalls) \in Nat
    BY <1>1, <1>3, CallsCounted
  <2>2. InCalls' \in SUBSET Threads
    BY DEF InCalls
  <2>3. Cardinality(InCalls)' \in Nat
    <3>1. IsFiniteSet(InCalls')
      BY <2>2, ThreadsAssumption, FS_Subset
    <3>2. QED
      BY <3>1, FS_CardinalityType
  <2>4. QED
    BY <1>1, <2>1, <2>3 DEF IInv, TypeOK, RefsCounted
<1>5. TypeOK'
  <2>1. store' \in [Contexts -> cipher_s \cup {NULL}]
    BY <1>1 DEF IInv, TypeOK, KeyFreed
  <2>2. QED
    BY <1>1, <1>2, <1>4, <2>1 DEF IInv, TypeOK, Points, DoneRecords
<1>6. ControlOK'
  BY <1>1, <1>2 DEF IInv, TypeOK, ControlOK, Context
<1>7. LocksOwned' /\ RefsCounted'
  <2>1. pc[t] \notin LockPoints /\ pc'[t] \notin LockPoints /\ ~Working(t)' /\ pc[t] # "idle"
    BY <1>1, <1>3 DEF LockPoints, Working
  <2>2. QED
    BY <1>1, <1>3, <2>1, FrameIInv
<1>8. ReferredIsStored' /\ GivenIsStored' /\ GivenComplete'
  <2>1. CASE UNCHANGED store
    BY <1>1, <2>1 DEF IInv, ReferredIsStored, GivenIsStored, GivenComplete
  <2>2. ASSUME Context(t) \in Contexts, NEW x \in cipher_s, KeyFreed(t, x)
        PROVE  ReferredIsStored' /\ GivenIsStored' /\ GivenComplete'
    <3>1. x # NULL
      BY NullAssumption
    <3>2. ReferredIsStored' /\ GivenIsStored'
      BY <1>1, <2>2, <3>1 DEF IInv, TypeOK, KeyFreed, ReferredIsStored, GivenIsStored
    <3>3. GivenComplete'
      BY <1>1, <2>2 DEF IInv, TypeOK, KeyFreed, SameCipher, GivenIsStored, GivenComplete, Cipher
    <3>4. QED
      BY <3>2, <3>3
  <2>3. QED
    BY <1>1, <2>1, <2>2
<1>9. QED
  BY <1>5, <1>6, <1>7, <1>8 DEF IInv

-----------------------------------------------------------------------------
\* The steps of a thread, by what they do
Refers(t) ==
  Refer(t, "oaep_acquire", "oaep_lock") \/ Refer(t, "acquire", "lock")
    \/ Refer(t, "cenc_acquire", "cenc_lock")

Handles(t) == \E x \in cipher_s, d \in DoneRecords : Handled(t, x, d) /\ Fits(t, x, d)

Adds(t) ==
  \E c \in Contexts, a \in Algorithms, m \in Modes, k \in Keys : Add(t, c, a, m, k)

ThreadStep(t) ==
  \/ Begins(t) \/ Ends(t) \/ Adds(t) \/ Refers(t) \/ Lock(t) \/ Handles(t) \/ Unlocks(t)
  \/ InvalidType(t) \/ Remove(t) \/ client_store_release(t)

LEMMA StepKinds ==
  ASSUME IInv, Next
  PROVE  \/ RightsChange
         \/ UNCHANGED allows /\ \E t \in Threads : ThreadStep(t)
<1>1. CASE RightsChange
  BY <1>1
<1>2. ASSUME NEW t \in Threads, Runs(Step(t))
      PROVE  UNCHANGED allows /\ ThreadStep(t)
  <2>1. UNCHANGED allows /\ (Begins(t) \/ Lock(t) \/ CallStep(t))
    BY <1>2 DEF Runs, Step, Begins
  <2>2. CASE CallStep(t)
    BY <2>1, <2>2, HandlersHandled
    DEF CallStep, ThreadStep, Ends, Adds, Refers, Handles, Unlocks
  <2>3. QED
    BY <2>1, <2>2 DEF ThreadStep
<1>3. QED
  BY <1>1, <1>2 DEF Next

LEMMA NextIInv == IInv /\ [Next]_vars => IInv'
<1> SUFFICES ASSUME IInv, [Next]_vars PROVE IInv'
  OBVIOUS
<1>1. ASSUME UNCHANGED ciphers, allows' \subseteq Keys
      PROVE  IInv'
  BY <1>1 DEF ciphers, IInv, TypeOK, ControlOK, Context, LocksOwned, Working, RefsCounted, Waiting,
              InCalls, ReferredIsStored, GivenIsStored, GivenComplete
<1>2. CASE UNCHANGED vars
  BY <1>1, <1>2 DEF vars, IInv, TypeOK
<1>3. CASE RightsChange
  BY <1>1, <1>3 DEF RightsChange
<1>4. ASSUME UNCHANGED allows, NEW t \in Threads, ThreadStep(t)
      PROVE  IInv'
  <2>1. CASE Refers(t) \/ Lock(t)
    BY <1>4, <2>1, ReferIInv, LockIInv DEF Refers, Lock, LockPoints, WorkPoints
  <2>2. QED
    BY <1>4, <2>1, BeginIInv, EndIInv, AddIInv, HandledIInv, UnlockIInv, InvalidTypeIInv,
       RemoveIInv, ReturnIInv DEF ThreadStep, Adds, Handles
<1>5. QED
  BY <1>2, <1>3, <1>4, StepKinds

(* Locks are owned by those who work, references count locks and waiting      *)
(* threads, and what is referred to is stored, whatever is released when.     *)
THEOREM Invariance == Spec => []IInv
BY InitIInv, NextIInv, PTL DEF Spec

(* No two threads drive the same context.                                    *)
THEOREM Exclusive == Spec => []ExclusiveUse
<1>1. IInv => ExclusiveUse
  BY DEF IInv, LocksOwned, ExclusiveUse
<1>2. QED
  BY Invariance, <1>1, PTL

(* A context that a thread works on is in the store and locked by the thread. *)
THEOREM Used == Spec => []UsedIsStored
<1>1. IInv => UsedIsStored
  BY AtWork, NullAssumption DEF UsedIsStored
<1>2. QED
  BY Invariance, <1>1, PTL

-----------------------------------------------------------------------------
(* With valid buffer types every lock is that of a call in progress.         *)

LEMMA FrameHeld ==
  ASSUME HeldByCalls, NEW t \in Threads, StepOf(t), UNCHANGED <<owner, depth>>, TypeOK,
         ~Working(t) \/ (Working(t)' /\ call'[t] = call[t]),
         \/ client_refs' = client_refs /\ (pc[t] # "idle" <=> pc'[t] # "idle")
         \/ client_refs' = client_refs + 1 /\ pc[t] = "idle" /\ pc'[t] # "idle"
         \/ client_refs' = client_refs - 1 /\ pc[t] # "idle" /\ pc'[t] = "idle"
  PROVE  HeldByCalls'
<1>1. client_refs' = Cardinality(InCalls)'
  BY CallsCounted DEF HeldByCalls
<1>2. ASSUME NEW c \in Contexts, NEW u \in Threads, owner'[c] = u
      PROVE  Working(u)' /\ Context(u)' = c /\ depth'[c] = 1
  <2>1. Working(u) /\ Context(u) = c /\ depth'[c] = 1
    BY <1>2 DEF HeldByCalls
  <2>2. QED
    BY <2>1 DEF StepOf, Working, Context
<1>3. QED
  BY <1>1, <1>2 DEF HeldByCalls

LEMMA InitHeld == Init => HeldByCalls
<1> SUFFICES ASSUME Init PROVE HeldByCalls
  OBVIOUS
<1>1. InCalls = {}
  BY DEF Init, InCalls
<1>2. QED
  BY <1>1, FS_EmptySet, NullAssumption DEF Init, HeldByCalls

LEMMA LockHeld ==
  ASSUME IInv, HeldByCalls, NEW t \in Threads, NEW from \in LockPoints, NEW to \in WorkPoints,
         cipher_lock(t, from, to)
  PROVE  HeldByCalls'
<1>1. PICK c0 \in Contexts : Context(t) = c0
  BY DEF cipher_lock, LockPoints, IInv, ControlOK
<1>2. /\ pc[t] = from /\ owner[c0] \in {NULL, t} /\ owner' = [owner EXCEPT ![c0] = t]
      /\ depth' = [depth EXCEPT ![c0] = @ + 1] /\ pc' = [pc EXCEPT ![t] = to]
      /\ UNCHANGED <<client_refs, call>>
  BY <1>1 DEF cipher_lock, Goto
<1>3. StepOf(t) /\ pc'[t] = to /\ ~Working(t) /\ Working(t)' /\ Context(t)' = c0
  BY <1>1, <1>2 DEF IInv, TypeOK, StepOf, Working, Context, LockPoints, WorkPoints
<1>4. owner[c0] = NULL /\ depth[c0] = 0
  BY <1>2, <1>3, NullAssumption DEF HeldByCalls, IInv, LocksOwned
<1>5. client_refs' = Cardinality(InCalls)'
  BY <1>2, <1>3, CallsCounted DEF HeldByCalls, LockPoints, WorkPoints
<1>6. owner'[c0] = t /\ depth'[c0] = 1
  BY <1>2, <1>4 DEF IInv, TypeOK
<1>7. ASSUME NEW c \in Contexts, NEW u \in Threads, owner'[c] = u
      PROVE  Working(u)' /\ Context(u)' = c /\ depth'[c] = 1
  <2>1. CASE c = c0
    BY <1>3, <1>6, <1>7, <2>1
  <2>2. CASE c # c0
    <3>1. owner[c] = u /\ depth'[c] = depth[c]
      BY <1>2, <1>7, <2>2 DEF IInv, TypeOK
    <3>2. Working(u) /\ Context(u) = c /\ depth'[c] = 1
      BY <3>1 DEF HeldByCalls
    <3>3. QED
      BY <1>3, <3>2 DEF StepOf, Working, Context
  <2>3. QED
    BY <2>1, <2>2
<1>8. QED
  BY <1>5, <1>7 DEF HeldByCalls

LEMMA UnlockHeld ==
  ASSUME IInv, HeldByCalls, NEW t \in Threads, Unlocks(t)
  PROVE  HeldByCalls'
<1>1. /\ Context(t) \in Contexts /\ owner[Context(t)] = t
  BY AtWork, UnlocksHow
<1>2. PICK c0 \in Contexts : Context(t) = c0
  BY <1>1
<1>3. depth[c0] = 1 /\ owner[c0] = t
  BY <1>1, <1>2, NullAssumption DEF HeldByCalls
<1>4. PICK p \in {"cenc_acquire", "return"} : pc' = [pc EXCEPT ![t] = p]
  BY UnlocksHow
<1>5. /\ pc[t] \in {"work", "release"}
      /\ depth' = [depth EXCEPT ![c0] = @ - 1] /\ owner' = [owner EXCEPT ![c0] = NULL]
      /\ UNCHANGED <<client_refs, call>>
  BY <1>2, <1>3, UnlocksHow
<1>6. StepOf(t) /\ pc'[t] = p
  BY <1>4, <1>5 DEF IInv, TypeOK, StepOf
<1>7. client_refs' = Cardinality(InCalls)'
  BY <1>5, <1>6, CallsCounted DEF HeldByCalls
<1>8. ASSUME NEW c \in Contexts, NEW u \in Threads, owner'[c] = u
      PROVE  Working(u)' /\ Context(u)' = c /\ depth'[c] = 1
  <2>1. c # c0 /\ owner[c] = u /\ depth'[c] = depth[c]
    BY <1>5, <1>8, NullAssumption DEF IInv, TypeOK
  <2>2. Working(u) /\ Context(u) = c /\ depth[c] = 1
    BY <2>1 DEF HeldByCalls
  <2>3. u # t
    BY <1>2, <2>1, <2>2
  <2>4. Working(u)' /\ Context(u)' = c
    BY <1>6, <2>2, <2>3 DEF StepOf, Working, Context
  <2>5. QED
    BY <2>1, <2>2, <2>4
<1>9. QED
  BY <1>7, <1>8 DEF HeldByCalls

LEMMA AddHeld ==
  ASSUME IInv, HeldByCalls, NEW t \in Threads, Adds(t)
  PROVE  HeldByCalls'
<1>1. PICK c \in Contexts, a \in Algorithms, m \in Modes, k \in Keys : Add(t, c, a, m, k)
  BY DEF Adds
<1>2. TypeOK
  BY DEF IInv
<1>3. /\ pc[t] = "init" /\ call' = [call EXCEPT ![t] = call'[t]]
      /\ IF a = "RSA_OAEP" THEN pc' = [pc EXCEPT ![t] = "oaep_acquire"]
                           ELSE pc' = [pc EXCEPT ![t] = "return"]
      /\ UNCHANGED <<owner, depth, client_refs>>
  BY <1>1, <1>2, AddHow
<1>4. PICK p \in {"oaep_acquire", "return"} : pc' = [pc EXCEPT ![t] = p]
  BY <1>3
<1>5. StepOf(t) /\ pc'[t] = p
  BY <1>2, <1>3, <1>4 DEF TypeOK, StepOf
<1>6. ~Working(t)
  BY <1>3 DEF Working
<1>7. QED
  BY <1>2, <1>3, <1>4, <1>5, <1>6, FrameHeld

LEMMA QuietHeld ==
  ASSUME IInv, HeldByCalls, NEW t \in Threads,
         \/ Begins(t) \/ Ends(t) \/ Adds(t) \/ Refers(t) \/ Handles(t)
         \/ Remove(t) \/ client_store_release(t)
  PROVE  HeldByCalls'
<1> USE DEF IInv, TypeOK, StepOf, Working
<1>1. CASE Begins(t)
  BY <1>1, FrameHeld DEF Begins, ta_sa_crypto_cipher_init, Call, MayCall, Goto
<1>2. CASE Ends(t)
  <2>1. /\ pc[t] \in {"init", "oaep_acquire", "acquire", "cenc_acquire", "remove"}
        /\ pc' = [pc EXCEPT ![t] = "return"] /\ UNCHANGED <<owner, depth, client_refs, call>>
    BY <1>2, EndsHow
  <2>2. QED
    BY <2>1, FrameHeld
<1>3. CASE Adds(t)
  BY <1>3, AddHeld
<1>4. CASE Refers(t)
  BY <1>4, FrameHeld DEF Refers, Refer, Goto
<1>5. CASE Handles(t)
  BY <1>5, FrameHeld DEF Handles, Handled, Works, WorkPoints
<1>6. CASE Remove(t)
  BY <1>6, FrameHeld DEF Remove, Goto
<1>7. CASE client_store_release(t)
  BY <1>7, FrameHeld DEF client_store_release, Goto
<1>8. QED
  BY <1>1, <1>2, <1>3, <1>4, <1>5, <1>6, <1>7

LEMMA NextHeld == ~Invalid /\ IInv /\ HeldByCalls /\ [Next]_vars => HeldByCalls'
<1> SUFFICES ASSUME ~Invalid, IInv, HeldByCalls, [Next]_vars PROVE HeldByCalls'
  OBVIOUS
<1>1. CASE UNCHANGED ciphers
  BY <1>1 DEF ciphers, HeldByCalls, InCalls, Working, Context
<1>2. ASSUME NEW t \in Threads, ThreadStep(t)
      PROVE  HeldByCalls'
  <2>1. CASE Lock(t)
    BY <2>1, LockHeld DEF Lock, LockPoints, WorkPoints
  <2>2. CASE InvalidType(t)
    BY <2>2 DEF InvalidType, IInv, TypeOK, BufferTypes
  <2>3. QED
    BY <1>2, <2>1, <2>2, UnlockHeld, QuietHeld DEF ThreadStep
<1>3. QED
  BY <1>1, <1>2, StepKinds DEF vars, RightsChange

LEMMA HeldMeans == IInv /\ HeldByCalls => NothingHeld
<1> SUFFICES ASSUME IInv, HeldByCalls PROVE NothingHeld
  OBVIOUS
<1>1. client_refs = Cardinality({t \in Threads : pc[t] # "idle"})
  BY DEF HeldByCalls, InCalls
<1>2. ASSUME NEW c \in Contexts
      PROVE  refs[c] = Cardinality({t \in Threads :
               Context(t) = c /\ (Working(t) \/ pc[t] \in {"oaep_lock", "lock", "cenc_lock"})})
  <2> DEFINE S == {t \in Threads :
               Context(t) = c /\ (Working(t) \/ pc[t] \in {"oaep_lock", "lock", "cenc_lock"})}
  <2>1. Waiting(c) \in SUBSET Threads /\ refs[c] = depth[c] + Cardinality(Waiting(c))
    BY DEF Waiting, IInv, RefsCounted
  <2>2. Cardinality(Waiting(c)) \in Nat
    BY <2>1, ThreadsAssumption, FS_Subset, FS_CardinalityType
  <2>3. CASE owner[c] = NULL
    <3>1. \A t \in Threads : Working(t) => Context(t) # c
      BY <2>3, NullAssumption DEF IInv, LocksOwned
    <3>2. S = Waiting(c)
      BY <3>1 DEF Waiting
    <3>3. depth[c] = 0
      BY <2>3 DEF IInv, LocksOwned
    <3>4. QED
      BY <2>1, <2>2, <3>2, <3>3
  <2>4. CASE owner[c] # NULL
    <3>1. PICK o \in Threads : owner[c] = o
      BY <2>4 DEF IInv, TypeOK
    <3>2. Working(o) /\ Context(o) = c /\ depth[c] = 1
      BY <2>4, <3>1 DEF HeldByCalls
    <3>3. \A t \in Threads : Working(t) /\ Context(t) = c => t = o
      BY <3>1 DEF IInv, LocksOwned
    <3>4. S = Waiting(c) \cup {o} /\ o \notin Waiting(c)
      BY <3>2, <3>3 DEF Waiting, Working
    <3>5. Cardinality(S) = Cardinality(Waiting(c)) + 1
      BY <2>1, <3>4, CountThreads
    <3>6. QED
      BY <2>1, <2>2, <3>2, <3>5
  <2>5. QED
    BY <2>3, <2>4
<1>3. \A c \in Contexts : owner[c] # NULL => Working(owner[c]) /\ Context(owner[c]) = c
  BY DEF HeldByCalls, IInv, TypeOK
<1>4. QED
  BY <1>1, <1>2, <1>3 DEF NothingHeld

(* With valid buffer types no call leaves a reference or a lock behind; the   *)
(* run cipher_store_invalid shows what the others do.                         *)
THEOREM Clean == ~Invalid => (Spec => []NothingHeld)
<1> SUFFICES ASSUME ~Invalid PROVE Spec => []NothingHeld
  OBVIOUS
<1>1. IInv /\ HeldByCalls /\ [Next]_vars => HeldByCalls'
  BY NextHeld
<1>2. QED
  BY Invariance, InitHeld, <1>1, HeldMeans, PTL DEF Spec

-----------------------------------------------------------------------------
(* With a careful application CarefulInv is inductive under IInv.            *)

LEMMA InitCareful == Init => CarefulInv
BY DEF Init, CarefulInv, ReleasedAlone, VerifiedIsKept, WantedIsComplete, LastAlone,
       BufferedIsLast, OutputFits, Nothing

(* A step that leaves the ciphers and the calls as they are: it goes on to    *)
(* use a cipher only with one that is verified.                              *)
LEMMA FrameCareful ==
  ASSUME IInv, CarefulInv, NEW t \in Threads, StepOf(t), UNCHANGED <<store, given>>,
         pc[t] # "idle", call'[t] = call[t], pc'[t] \notin {"idle", "remove"},
         pc'[t] \in {"acquire", "lock", "work"} => pc[t] \in {"acquire", "lock"},
         NEW d \in DoneRecords, done' = [done EXCEPT ![t] = d], d.written <= d.required,
         pc'[t] \in {"cenc_acquire", "cenc_lock", "cenc_work"} =>
           \/ pc[t] \in {"cenc_acquire", "cenc_lock"} /\ d = done[t]
           \/ /\ Cipher(t) # NULL /\ Verifiable(Cipher(t), call[t].out)
              /\ d.allowed = Cipher(t).key
  PROVE  CarefulInv'
<1> USE DEF CarefulInv, StepOf, Cipher, Context
<1>1. ReleasedAlone'
  BY DEF ReleasedAlone, Uses
<1>2. done'[t] = d /\ \A u \in Threads \ {t} : done'[u] = done[u]
  BY DEF IInv, TypeOK
<1>3. VerifiedIsKept'
  BY <1>2 DEF VerifiedIsKept
<1>4. WantedIsComplete'
  BY DEF WantedIsComplete
<1>5. LastAlone'
  BY DEF LastAlone, Uses
<1>6. BufferedIsLast'
  BY DEF BufferedIsLast
<1>7. OutputFits'
  BY <1>2 DEF OutputFits
<1>8. QED
  BY <1>1, <1>3, <1>4, <1>5, <1>6, <1>7

LEMMA QuietCareful ==
  ASSUME IInv, CarefulInv, NEW t \in Threads, Ends(t) \/ Refers(t) \/ Lock(t) \/ Unlocks(t)
  PROVE  CarefulInv'
<1>1. done[t] \in DoneRecords /\ done' = done => done' = [done EXCEPT ![t] = done[t]]
  BY DEF IInv, TypeOK, DoneRecords
<1>2. done[t] \in DoneRecords /\ done[t].written <= done[t].required
  BY DEF IInv, TypeOK, DoneRecords, CarefulInv, OutputFits
<1>3. CASE Ends(t)
  <2>1. PICK d \in DoneRecords : done' = [done EXCEPT ![t] = d] /\ d.written = d.required
    BY <1>3, EndsHow
  <2>2. /\ pc[t] # "idle" /\ pc' = [pc EXCEPT ![t] = "return"]
        /\ UNCHANGED <<store, given, call>>
    BY <1>3, EndsHow
  <2>3. d.written <= d.required
    BY <2>1 DEF DoneRecords
  <2>4. StepOf(t) /\ pc'[t] = "return"
    BY <2>2 DEF IInv, TypeOK, StepOf
  <2>5. QED
    BY <2>1, <2>2, <2>3, <2>4, FrameCareful
<1>4. CASE Refers(t)
  <2>1. /\ \/ pc[t] = "oaep_acquire" /\ pc' = [pc EXCEPT ![t] = "oaep_lock"]
           \/ pc[t] = "acquire" /\ pc' = [pc EXCEPT ![t] = "lock"]
           \/ pc[t] = "cenc_acquire" /\ pc' = [pc EXCEPT ![t] = "cenc_lock"]
        /\ UNCHANGED <<store, given, call, done>>
    BY <1>4 DEF Refers, Refer, Goto
  <2>2. StepOf(t) /\ done' = [done EXCEPT ![t] = done[t]]
    BY <1>1, <1>2, <2>1 DEF IInv, TypeOK, StepOf
  <2>3. \/ pc[t] = "oaep_acquire" /\ pc'[t] = "oaep_lock"
        \/ pc[t] = "acquire" /\ pc'[t] = "lock"
        \/ pc[t] = "cenc_acquire" /\ pc'[t] = "cenc_lock"
    BY <2>1 DEF IInv, TypeOK
  <2>4. QED
    BY <1>2, <2>1, <2>2, <2>3, FrameCareful
<1>5. CASE Lock(t)
  <2>1. /\ \/ pc[t] = "oaep_lock" /\ pc' = [pc EXCEPT ![t] = "oaep_set"]
           \/ pc[t] = "lock" /\ pc' = [pc EXCEPT ![t] = "work"]
           \/ pc[t] = "cenc_lock" /\ pc' = [pc EXCEPT ![t] = "cenc_work"]
        /\ UNCHANGED <<store, given, call, done>>
    BY <1>5 DEF Lock, cipher_lock, Goto
  <2>2. StepOf(t) /\ done' = [done EXCEPT ![t] = done[t]]
    BY <1>1, <1>2, <2>1 DEF IInv, TypeOK, StepOf
  <2>3. \/ pc[t] = "oaep_lock" /\ pc'[t] = "oaep_set"
        \/ pc[t] = "lock" /\ pc'[t] = "work"
        \/ pc[t] = "cenc_lock" /\ pc'[t] = "cenc_work"
    BY <2>1 DEF IInv, TypeOK
  <2>4. QED
    BY <1>2, <2>1, <2>2, <2>3, FrameCareful
<1>6. CASE Unlocks(t)
  <2>1. PICK p \in {"cenc_acquire", "return"}, d \in DoneRecords :
          /\ pc' = [pc EXCEPT ![t] = p] /\ done' = [done EXCEPT ![t] = d]
          /\ d.written = done[t].written /\ d.required = done[t].required
          /\ p = "cenc_acquire" =>
               Verifiable(Cipher(t), call[t].out) /\ d.allowed = Cipher(t).key
    BY <1>6, UnlocksDone
  <2>2. /\ pc[t] \in {"work", "release"} /\ Working(t) /\ UNCHANGED <<store, given, call>>
    BY <1>6, UnlocksHow
  <2>3. Cipher(t) # NULL
    BY <2>2, AtWork, NullAssumption
  <2>4. StepOf(t) /\ pc'[t] = p
    BY <2>1, <2>2 DEF IInv, TypeOK, StepOf
  <2>5. QED
    BY <1>2, <2>1, <2>2, <2>3, <2>4, FrameCareful
<1>7. QED
  BY <1>3, <1>4, <1>5, <1>6

LEMMA InitCallCareful ==
  ASSUME IInv, CarefulInv, NEW t \in Threads, ta_sa_crypto_cipher_init(t)
  PROVE  CarefulInv'
<1>1. PICK k : k.name = "init" /\ k.context = NULL /\ call' = [call EXCEPT ![t] = k]
  <2>1. [NoCall EXCEPT !.name = "init"].name = "init" /\ [NoCall EXCEPT !.name = "init"].context = NULL
    BY DEF NoCall
  <2>2. QED
    BY <2>1 DEF ta_sa_crypto_cipher_init
<1>2. /\ pc[t] = "idle" /\ pc' = [pc EXCEPT ![t] = "init"]
      /\ UNCHANGED <<store, given, done>>
  BY DEF ta_sa_crypto_cipher_init, Goto
<1>3. StepOf(t) /\ pc'[t] = "init" /\ call'[t].name = "init" /\ call'[t].context = NULL
  BY <1>1, <1>2 DEF IInv, TypeOK, StepOf
<1>4. \A u \in Threads : pc[u] = "remove" => Context(u) # NULL
  BY NullAssumption DEF IInv, ControlOK
<1> USE DEF CarefulInv, StepOf, Cipher, Context
<1>5. ReleasedAlone'
  BY <1>2, <1>3, <1>4 DEF ReleasedAlone, Uses
<1>6. VerifiedIsKept'
  BY <1>2, <1>3 DEF VerifiedIsKept
<1>7. WantedIsComplete'
  BY <1>2, <1>3 DEF WantedIsComplete
<1>8. LastAlone'
  BY <1>2, <1>3 DEF LastAlone, Uses
<1>9. BufferedIsLast' /\ OutputFits'
  BY <1>2 DEF BufferedIsLast, OutputFits
<1>10. QED
  BY <1>5, <1>6, <1>7, <1>8, <1>9

LEMMA CallCareful ==
  ASSUME Careful, IInv, CarefulInv, NEW t \in Threads, NEW name \in Names \ {"init"},
         NEW c \in Contexts, NEW o \in BufferTypes, Call(t, name, c, o)
  PROVE  CarefulInv'
<1>1. /\ pc[t] = "idle" /\ c \in given
      /\ name = "release" => \A u \in Threads : ~Uses(u, c)
      /\ name = "process_last" =>
           ~store[c].last /\ \A u \in Threads : Uses(u, c) => call[u].name # "process_last"
      /\ given' = IF name = "release" THEN given \ {c} ELSE given
      /\ UNCHANGED <<store, done>>
  BY DEF Call, MayCall
<1>2. /\ call' = [call EXCEPT ![t] = [name |-> name, context |-> c, out |-> o]]
      /\ pc' = [pc EXCEPT ![t] = IF name = "release" THEN "remove" ELSE "acquire"]
  BY DEF Call, Goto
<1>3. /\ StepOf(t) /\ call'[t].name = name /\ call'[t].context = c
      /\ pc'[t] = IF name = "release" THEN "remove" ELSE "acquire"
  BY <1>2 DEF IInv, TypeOK, StepOf
<1>4. store[c] # NULL /\ Complete(store[c])
  BY <1>1 DEF IInv, GivenIsStored, GivenComplete, Complete
<1>5. ReleasedAlone'
  <2> SUFFICES ASSUME NEW u \in Threads, pc'[u] = "remove"
               PROVE  /\ store'[call'[u].context] # NULL
                      /\ call'[u].context \notin given'
                      /\ \A v \in Threads \ {u} : ~(pc'[v] # "idle" /\ call'[v].context = call'[u].context)
    BY DEF ReleasedAlone, Uses, Cipher, Context
  <2>1. CASE u = t
    BY <1>1, <1>3, <1>4, <2>1 DEF StepOf, Uses
  <2>2. CASE u # t
    <3>1. pc[u] = "remove" /\ call'[u] = call[u]
      BY <1>3, <2>2 DEF StepOf
    <3>2. /\ store[call[u].context] # NULL /\ call[u].context \notin given
          /\ \A v \in Threads \ {u} : ~(pc[v] # "idle" /\ call[v].context = call[u].context)
      BY <3>1 DEF CarefulInv, ReleasedAlone, Uses, Cipher, Context
    <3>3. call[u].context # c
      BY <1>1, <3>2
    <3>4. QED
      BY <1>1, <1>3, <2>2, <3>1, <3>2, <3>3 DEF StepOf
  <2>3. QED
    BY <2>1, <2>2
<1> USE DEF CarefulInv, StepOf, Cipher, Context
<1>6. VerifiedIsKept'
  BY <1>1, <1>3 DEF VerifiedIsKept
<1>7. WantedIsComplete'
  BY <1>1, <1>3, <1>4 DEF WantedIsComplete
<1>8. LastAlone'
  BY <1>1, <1>3, <1>4 DEF LastAlone, Uses
<1>9. BufferedIsLast' /\ OutputFits'
  BY <1>1 DEF BufferedIsLast, OutputFits
<1>10. QED
  BY <1>5, <1>6, <1>7, <1>8, <1>9

LEMMA AddCareful ==
  ASSUME IInv, CarefulInv, NEW t \in Threads, Adds(t)
  PROVE  CarefulInv'
<1>1. PICK c \in Contexts, a \in Algorithms, m \in Modes, k \in Keys : Add(t, c, a, m, k)
  BY DEF Adds
<1> DEFINE x == NewCipher(a, m, k)
<1>2. /\ pc[t] = "init" /\ store[c] = NULL /\ store' = [store EXCEPT ![c] = x]
      /\ call'[t].context = c /\ call'[t].name = call[t].name
      /\ \A u \in Threads \ {t} : call'[u] = call[u]
      /\ given' \subseteq given \cup {c} /\ UNCHANGED done
  <2>1. TypeOK
    BY DEF IInv
  <2>2. /\ pc[t] = "init" /\ store[c] = NULL /\ store' = [store EXCEPT ![c] = x]
        /\ call' = [call EXCEPT ![t] = call'[t]]
        /\ call'[t].context = c /\ call'[t].name = call[t].name
        /\ IF a = "RSA_OAEP" THEN given' = given ELSE given' = given \cup {c}
        /\ UNCHANGED done
    BY <1>1, <2>1, AddHow
  <2>3. \A u \in Threads \ {t} : call'[u] = call[u]
    BY <2>1, <2>2 DEF TypeOK
  <2>4. QED
    BY <2>2, <2>3
<1>3. PICK p \in {"oaep_acquire", "return"} : pc' = [pc EXCEPT ![t] = p]
  BY <1>1, AddHow DEF IInv
<1>4. x.buffered = 0
  BY NewCipherType
<1> HIDE DEF x
<1>5. StepOf(t) /\ pc'[t] = p /\ call'[t].name = "init"
  BY <1>2, <1>3 DEF IInv, TypeOK, ControlOK, StepOf
<1>6. store'[c] = x /\ \A e \in Contexts \ {c} : store'[e] = store[e]
  BY <1>2 DEF IInv, TypeOK
<1>7. \A u \in Threads : pc[u] \notin {"idle", "init", "return"} => Context(u) \in Contexts
  BY DEF IInv, ControlOK
<1> USE DEF CarefulInv, StepOf, Cipher, Context
<1>8. ReleasedAlone'
  BY <1>2, <1>5, <1>6, <1>7 DEF ReleasedAlone, Uses
<1>9. VerifiedIsKept'
  BY <1>2, <1>5, <1>6, <1>7 DEF VerifiedIsKept
<1>10. LastAlone'
  BY <1>2, <1>5, <1>6, <1>7 DEF LastAlone, Uses
<1>11. BufferedIsLast'
  BY <1>4, <1>6 DEF BufferedIsLast
<1>12. OutputFits'
  BY <1>2 DEF OutputFits
<1>13. WantedIsComplete'
  BY <1>2, <1>5, <1>6, <1>7 DEF WantedIsComplete, Complete
<1>14. QED
  BY <1>8, <1>9, <1>10, <1>11, <1>12, <1>13

LEMMA HandledCareful ==
  ASSUME IInv, CarefulInv, NEW t \in Threads, Handles(t)
  PROVE  CarefulInv'
<1>1. PICK x \in cipher_s, d \in DoneRecords : Handled(t, x, d) /\ Fits(t, x, d)
  BY DEF Handles
<1>2. Working(t)
  BY <1>1 DEF Handled, Works, Working, WorkPoints
<1>3. PICK c \in Contexts : Context(t) = c /\ store[c] \in cipher_s
  BY <1>2, AtWork DEF Cipher
<1>4. /\ pc' = [pc EXCEPT ![t] = "release"] /\ call' = call
      /\ store' = [store EXCEPT ![c] = x] /\ done' = [done EXCEPT ![t] = d]
      /\ given' \subseteq given \cup {c}
  BY <1>1, <1>3 DEF Handled, Works
<1>5. /\ SameCipher(x, store[c])
      /\ x.last => store[c].last \/ (pc[t] = "work" /\ call[t].name = "process_last")
  BY <1>1, <1>3 DEF Handled, Cipher
<1>6. (x.last \/ x.buffered = 0) /\ d.written <= d.required
  BY <1>1 DEF Fits, CarefulInv
<1>7. StepOf(t) /\ pc'[t] = "release" /\ Uses(t, c)
  BY <1>2, <1>3, <1>4 DEF IInv, TypeOK, StepOf, Uses, Working, Context
<1>8. store'[c] = x /\ x # NULL /\ store[c] # NULL /\ \A k \in Contexts \ {c} : store'[k] = store[k]
  BY <1>3, <1>4, NullAssumption DEF IInv, TypeOK
<1>9. \A u \in Threads : pc[u] \notin {"idle", "init", "return"} => Context(u) \in Contexts
  BY DEF IInv, ControlOK
<1>10. ReleasedAlone'
  <2> SUFFICES ASSUME NEW u \in Threads, pc'[u] = "remove"
               PROVE  /\ store'[call'[u].context] # NULL
                      /\ call'[u].context \notin given'
                      /\ \A v \in Threads \ {u} : ~(pc'[v] # "idle" /\ call'[v].context = call'[u].context)
    BY DEF ReleasedAlone, Uses, Cipher, Context
  <2>1. u # t /\ pc[u] = "remove"
    BY <1>7 DEF StepOf
  <2>2. /\ store[call[u].context] # NULL /\ call[u].context \notin given
        /\ \A v \in Threads \ {u} : ~(pc[v] # "idle" /\ call[v].context = call[u].context)
    BY <2>1 DEF CarefulInv, ReleasedAlone, Uses, Cipher, Context
  <2>3. call[u].context # c /\ call[u].context \in Contexts
    BY <1>7, <1>9, <2>1, <2>2 DEF Uses, Context
  <2>4. QED
    BY <1>4, <1>7, <1>8, <2>1, <2>2, <2>3 DEF StepOf, Uses
<1>11. VerifiedIsKept'
  <2> SUFFICES ASSUME NEW u \in Threads, pc'[u] \in {"cenc_acquire", "cenc_lock", "cenc_work"}
               PROVE  /\ store'[call'[u].context] # NULL
                      /\ Verifiable(store'[call'[u].context], call'[u].out)
                      /\ done'[u].allowed = store'[call'[u].context].key
    BY DEF VerifiedIsKept, Cipher, Context
  <2>1. /\ u # t /\ pc[u] = pc'[u] /\ call[u].context \in Contexts
        /\ store[call[u].context] # NULL /\ Verifiable(store[call[u].context], call[u].out)
        /\ done[u].allowed = store[call[u].context].key /\ done'[u] = done[u]
    BY <1>4, <1>7, <1>9 DEF StepOf, CarefulInv, VerifiedIsKept, Cipher, Context, IInv, TypeOK
  <2>2. CASE call[u].context = c
    <3>1. Verifiable(x, call[u].out) /\ x.key = store[c].key
      BY <1>5, <2>1, <2>2 DEF SameCipher, Verifiable
    <3>2. QED
      BY <1>4, <1>8, <2>1, <2>2, <3>1
  <2>3. CASE call[u].context # c
    BY <1>4, <1>8, <2>1, <2>3
  <2>4. QED
    BY <2>2, <2>3
<1>12. LastAlone'
  <2> SUFFICES ASSUME NEW u \in Threads, pc'[u] # "idle", call'[u].name = "process_last"
               PROVE  /\ pc'[u] \in {"acquire", "lock", "work"} =>
                           store'[call'[u].context] # NULL /\ ~store'[call'[u].context].last
                      /\ \A v \in Threads \ {u} :
                           pc'[v] # "idle" /\ call'[v].context = call'[u].context =>
                             call'[v].name # "process_last"
    BY DEF LastAlone, Uses, Cipher, Context
  <2>1. pc[u] # "idle" /\ call[u].name = "process_last"
    BY <1>4, <1>7 DEF StepOf, Uses
  <2>2. \A v \in Threads \ {u} :
          pc[v] # "idle" /\ call[v].context = call[u].context => call[v].name # "process_last"
    BY <2>1 DEF CarefulInv, LastAlone, Uses, Context
  <2>3. ASSUME pc'[u] \in {"acquire", "lock", "work"}
        PROVE  store'[call'[u].context] # NULL /\ ~store'[call'[u].context].last
    <3>1. u # t /\ pc[u] = pc'[u] /\ call[u].context \in Contexts
      BY <1>7, <1>9, <2>3 DEF StepOf, Context
    <3>2. store[call[u].context] # NULL /\ ~store[call[u].context].last
      BY <2>1, <2>3, <3>1 DEF CarefulInv, LastAlone, Cipher, Context
    <3>3. CASE call[u].context = c
      <4>1. call[t].name # "process_last"
        BY <1>7, <2>2, <3>1, <3>3 DEF Uses
      <4>2. ~x.last
        BY <1>5, <3>2, <3>3, <4>1
      <4>3. QED
        BY <1>4, <1>8, <3>3, <4>2
    <3>4. CASE call[u].context # c
      BY <1>4, <1>8, <3>1, <3>2, <3>4
    <3>5. QED
      BY <3>3, <3>4
  <2>4. \A v \in Threads \ {u} :
          pc'[v] # "idle" /\ call'[v].context = call'[u].context => call'[v].name # "process_last"
    BY <1>4, <1>7, <2>2 DEF StepOf, Uses
  <2>5. QED
    BY <2>3, <2>4
<1>13. BufferedIsLast'
  BY <1>6, <1>8 DEF CarefulInv, BufferedIsLast
<1>14. OutputFits'
  BY <1>4, <1>6 DEF CarefulInv, OutputFits, IInv, TypeOK
<1>15. WantedIsComplete'
  <2> SUFFICES ASSUME NEW u \in Threads, pc'[u] \in {"acquire", "lock", "work"}
               PROVE  Complete(store'[call'[u].context])
    BY DEF WantedIsComplete, Cipher, Context
  <2>1. u # t /\ call[u].context \in Contexts /\ Complete(store[call[u].context])
    BY <1>7, <1>9 DEF StepOf, CarefulInv, WantedIsComplete, Cipher, Context
  <2>2. Complete(store[c]) => Complete(x)
    BY <1>5, <1>8 DEF SameCipher, Complete
  <2>3. QED
    BY <1>4, <1>8, <2>1, <2>2
<1>16. QED
  BY <1>10, <1>11, <1>12, <1>13, <1>14, <1>15 DEF CarefulInv

LEMMA InvalidTypeCareful ==
  ASSUME IInv, CarefulInv, NEW t \in Threads, InvalidType(t)
  PROVE  CarefulInv'
<1>1. /\ pc[t] = "work" /\ pc' = [pc EXCEPT ![t] = "idle"] /\ call' = [call EXCEPT ![t] = NoCall]
      /\ UNCHANGED <<store, given, done>>
  BY DEF InvalidType, Goto
<1>2. StepOf(t) /\ pc'[t] = "idle"
  BY <1>1 DEF IInv, TypeOK, StepOf
<1> USE DEF CarefulInv, StepOf, Cipher, Context
<1>3. ReleasedAlone'
  BY <1>1, <1>2 DEF ReleasedAlone, Uses
<1>4. VerifiedIsKept'
  BY <1>1, <1>2 DEF VerifiedIsKept
<1>5. LastAlone'
  BY <1>1, <1>2 DEF LastAlone, Uses
<1>6. BufferedIsLast' /\ OutputFits'
  BY <1>1 DEF BufferedIsLast, OutputFits
<1>7. WantedIsComplete'
  BY <1>1, <1>2 DEF WantedIsComplete
<1>8. QED
  BY <1>3, <1>4, <1>5, <1>6, <1>7

LEMMA RemoveCareful ==
  ASSUME IInv, CarefulInv, NEW t \in Threads, Remove(t)
  PROVE  CarefulInv'
<1>1. PICK c \in Contexts : Context(t) = c
  BY DEF Remove, IInv, ControlOK
<1>2. /\ pc[t] = "remove" /\ store' = [store EXCEPT ![c] = NULL] /\ given' = given \ {c}
      /\ pc' = [pc EXCEPT ![t] = "return"] /\ UNCHANGED <<call, done>>
  BY <1>1 DEF Remove, Goto
<1>3. StepOf(t) /\ pc'[t] = "return"
  BY <1>2 DEF IInv, TypeOK, StepOf
<1>4. \A u \in Threads \ {t} : pc[u] # "idle" => Context(u) # c
  BY <1>1, <1>2 DEF CarefulInv, ReleasedAlone, Uses, Context
<1>5. store'[c] = NULL /\ \A k \in Contexts \ {c} : store'[k] = store[k]
  BY <1>2 DEF IInv, TypeOK
<1>6. \A u \in Threads : pc[u] \notin {"idle", "init", "return"} => Context(u) \in Contexts
  BY DEF IInv, ControlOK
<1> USE DEF CarefulInv, StepOf, Cipher, Context
<1>7. ReleasedAlone'
  BY <1>2, <1>3, <1>4, <1>5, <1>6 DEF ReleasedAlone, Uses
<1>8. VerifiedIsKept'
  BY <1>2, <1>3, <1>4, <1>5, <1>6 DEF VerifiedIsKept
<1>9. LastAlone'
  BY <1>2, <1>3, <1>4, <1>5, <1>6 DEF LastAlone, Uses
<1>10. BufferedIsLast' /\ OutputFits'
  BY <1>2, <1>5 DEF BufferedIsLast, OutputFits
<1>11. WantedIsComplete'
  BY <1>2, <1>3, <1>4, <1>5, <1>6 DEF WantedIsComplete
<1>12. QED
  BY <1>7, <1>8, <1>9, <1>10, <1>11

LEMMA ReturnCareful ==
  ASSUME IInv, CarefulInv, NEW t \in Threads, client_store_release(t)
  PROVE  CarefulInv'
<1>1. /\ pc[t] = "return" /\ pc' = [pc EXCEPT ![t] = "idle"]
      /\ call' = [call EXCEPT ![t] = NoCall] /\ done' = [done EXCEPT ![t] = Nothing]
      /\ UNCHANGED given
      /\ \/ UNCHANGED store
         \/ /\ Context(t) \in Contexts /\ Cipher(t) \in cipher_s
            /\ \E x \in cipher_s : KeyFreed(t, x)
  BY ReturnHow
<1>2. StepOf(t) /\ pc'[t] = "idle"
  BY <1>1 DEF IInv, TypeOK, StepOf
<1>3. \A c \in Contexts :
        \/ store'[c] = store[c]
        \/ /\ store[c] # NULL /\ store'[c] # NULL /\ SameCipher(store'[c], store[c])
           /\ store'[c].buffered = store[c].buffered /\ store'[c].last = store[c].last
  BY <1>1, NullAssumption DEF IInv, TypeOK, KeyFreed, Cipher
<1>4. \A u \in Threads : pc[u] \notin {"idle", "init", "return"} => Context(u) \in Contexts
  BY DEF IInv, ControlOK
<1> USE DEF CarefulInv, StepOf, Cipher, Context
<1>5. ReleasedAlone'
  BY <1>1, <1>2, <1>3, <1>4 DEF ReleasedAlone, Uses
<1>6. VerifiedIsKept'
  <2>1. \A u \in Threads \ {t} : done'[u] = done[u]
    BY <1>1 DEF IInv, TypeOK
  <2>2. QED
    BY <1>1, <1>2, <1>3, <1>4, <2>1 DEF VerifiedIsKept, SameCipher, Verifiable
<1>7. LastAlone'
  BY <1>1, <1>2, <1>3, <1>4 DEF LastAlone, Uses
<1>8. BufferedIsLast'
  BY <1>3 DEF BufferedIsLast
<1>9. OutputFits'
  BY <1>1 DEF OutputFits, IInv, TypeOK, Nothing
<1>10. WantedIsComplete'
  BY <1>1, <1>2, <1>3, <1>4 DEF WantedIsComplete, SameCipher, Complete
<1>11. QED
  BY <1>5, <1>6, <1>7, <1>8, <1>9, <1>10

LEMMA NextCareful == Careful /\ IInv /\ CarefulInv /\ [Next]_vars => CarefulInv'
<1> SUFFICES ASSUME Careful, IInv, CarefulInv, [Next]_vars PROVE CarefulInv'
  OBVIOUS
<1>1. CASE UNCHANGED ciphers
  BY <1>1 DEF ciphers, CarefulInv, ReleasedAlone, VerifiedIsKept, WantedIsComplete, LastAlone,
              BufferedIsLast, OutputFits, Uses, Cipher, Context
<1>2. ASSUME NEW t \in Threads, ThreadStep(t)
      PROVE  CarefulInv'
  <2>1. CASE Begins(t)
    BY <2>1, InitCallCareful, CallCareful DEF Begins
  <2>2. QED
    BY <1>2, <2>1, QuietCareful, AddCareful, HandledCareful, InvalidTypeCareful, RemoveCareful,
       ReturnCareful DEF ThreadStep
<1>3. QED
  BY <1>1, <1>2, StepKinds DEF vars, RightsChange

(* With a careful application a sample is decrypted with a cipher that        *)
(* verify_sample accepts for the output buffer, and whose key it has found in *)
(* this call to allow decryption, though it gives the cipher back in between. *)
THEOREM Verified == Careful => (Spec => []UseIsVerified)
<1> SUFFICES ASSUME Careful PROVE Spec => []UseIsVerified
  OBVIOUS
<1>1. IInv /\ CarefulInv /\ [Next]_vars => CarefulInv'
  BY NextCareful
<1>2. CarefulInv => UseIsVerified
  BY DEF CarefulInv, VerifiedIsKept, UseIsVerified
<1>3. QED
  BY Invariance, InitCareful, <1>1, <1>2, PTL DEF Spec

(* With a careful application no handler works on a cipher between its add to *)
(* the store and the setting of its parameters for RSA-OAEP.                 *)
THEOREM CompleteUse == Careful => (Spec => []UsedIsComplete)
<1> SUFFICES ASSUME Careful PROVE Spec => []UsedIsComplete
  OBVIOUS
<1>1. IInv /\ CarefulInv /\ [Next]_vars => CarefulInv'
  BY NextCareful
<1>2. CarefulInv => UsedIsComplete
  BY DEF CarefulInv, WantedIsComplete, UsedIsComplete
<1>3. QED
  BY Invariance, InitCareful, <1>1, <1>2, PTL DEF Spec

(* With a careful application OpenSSL writes no more than the output buffer    *)
(* was checked for, for every block size and whatever chunks came before: an  *)
(* incomplete block is left by a last chunk only, and that is the last.       *)
THEOREM OutputChecked == Careful => (Spec => []OutputFits)
<1> SUFFICES ASSUME Careful PROVE Spec => []OutputFits
  OBVIOUS
<1>1. IInv /\ CarefulInv /\ [Next]_vars => CarefulInv'
  BY NextCareful
<1>2. CarefulInv => OutputFits
  BY DEF CarefulInv
<1>3. QED
  BY Invariance, InitCareful, <1>1, <1>2, PTL DEF Spec
=============================================================================
