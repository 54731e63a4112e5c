----------------------------- MODULE CencProofs -----------------------------
(***************************************************************************)
(* Proofs about Cenc, for every size of blocks and of words, every counter *)
(* and pattern, and any number and size of subsamples: the output never    *)
(* runs past the sample, and it is what the mode asks for when ranges are  *)
(* divided at blocks or no rollover is near.                               *)
(***************************************************************************)
EXTENDS Cenc, FiniteSetTheorems, SequenceTheorems, WellFoundedInduction, TLAPS

\* The steps that name no prover: SMT first, then Zenon, with time to spare.
USE SMTT(60), ZenonT(60)

-----------------------------------------------------------------------------
(* Quotients and remainders *)

LEMMA QuotientOf ==
  ASSUME NEW b \in Nat \ {0}, NEW a \in Nat
  PROVE  /\ a \div b \in Nat
         /\ a % b \in 0 .. b - 1
         /\ a = ((a \div b) * b) + (a % b)
BY Z3

LEMMA QuotientIs ==
  ASSUME NEW b \in Nat \ {0}, NEW q \in Nat, NEW r \in 0 .. b - 1
  PROVE  /\ ((q * b) + r) \div b = q
         /\ ((q * b) + r) % b = r
BY Z3

LEMMA SmallRemainder ==
  ASSUME NEW b \in Nat \ {0}, NEW a \in 0 .. b - 1
  PROVE  a % b = a /\ a \div b = 0
BY Z3

LEMMA Products ==
  ASSUME NEW b \in Nat, NEW p \in Nat, NEW q \in Nat
  PROVE  /\ p * b \in Nat
         /\ b * p = p * b
         /\ (p + q) * b = (p * b) + (q * b)
BY Z3

LEMMA Cancel ==
  ASSUME NEW b \in Nat, NEW p \in Nat, NEW q \in Nat, p * b < q * b
  PROVE  p < q
BY Z3

LEMMA LessProduct ==
  ASSUME NEW b \in Nat, NEW p \in Nat, NEW q \in Nat, p <= q
  PROVE  p * b <= q * b
BY Z3

(* A remainder may be taken before a sum. *)
LEMMA RemainderOfSum ==
  ASSUME NEW b \in Nat \ {0}, NEW a \in Nat, NEW c \in Nat
  PROVE  ((a % b) + c) % b = (a + c) % b
<1> DEFINE z == a \div b
           m == a % b
           y == (m + c) \div b
           r == (m + c) % b
<1>1. z \in Nat /\ m \in 0 .. b - 1 /\ a = (z * b) + m
  BY QuotientOf
<1>2. y \in Nat /\ r \in 0 .. b - 1 /\ m + c = (y * b) + r
  <2>1. m + c \in Nat
    BY <1>1
  <2>2. QED
    BY <2>1, QuotientOf
<1> HIDE DEF z, m, y, r
<1>3. a + c = ((z + y) * b) + r
  <2>1. (z + y) * b = (z * b) + (y * b) /\ z * b \in Nat /\ y * b \in Nat
    BY <1>1, <1>2, Products
  <2>2. QED
    BY <1>1, <1>2, <2>1
<1>4. (((z + y) * b) + r) % b = r
  <2>1. z + y \in Nat
    BY <1>1, <1>2
  <2>2. QED
    BY <1>2, <2>1, QuotientIs
<1>5. QED
  BY <1>3, <1>4 DEF m, r

(* After e bytes, m more complete k blocks and leave y bytes of another. *)
Completes(e, m, k, y) ==
  /\ e \in Nat /\ m \in Nat /\ k \in Nat /\ y \in 0 .. BLOCK - 1
  /\ (e % BLOCK) + m = (k * BLOCK) + y

LEMMA MoreBytes ==
  ASSUME NEW e, NEW m, NEW k, NEW y, Completes(e, m, k, y)
  PROVE  (e + m) \div BLOCK = (e \div BLOCK) + k /\ (e + m) % BLOCK = y
<1> DEFINE q == e \div BLOCK
           x == e % BLOCK
<1>1. /\ BLOCK \in Nat \ {0} /\ e \in Nat /\ m \in Nat /\ k \in Nat
      /\ y \in 0 .. BLOCK - 1 /\ x + m = (k * BLOCK) + y
  BY SizesAssumption DEF Completes
<1>2. q \in Nat /\ x \in 0 .. BLOCK - 1 /\ e = (q * BLOCK) + x
  BY <1>1, QuotientOf
<1> HIDE DEF q, x
<1>3. (q + k) * BLOCK = (q * BLOCK) + (k * BLOCK) /\ q * BLOCK \in Nat /\ k * BLOCK \in Nat
  BY <1>1, <1>2, Products
<1>4. e + m = ((q + k) * BLOCK) + y
  BY <1>1, <1>2, <1>3
<1>5. (((q + k) * BLOCK) + y) \div BLOCK = q + k /\ (((q + k) * BLOCK) + y) % BLOCK = y
  <2>1. q + k \in Nat
    BY <1>1, <1>2
  <2>2. QED
    BY <1>1, <2>1, QuotientIs
<1>6. QED
  BY <1>4, <1>5 DEF q

-----------------------------------------------------------------------------
(* The constants, and what a sample is *)

LEMMA Constants ==
  ASSUME start \in Counters
  PROVE  /\ BLOCK \in Nat \ {0}
         /\ WORD \in Nat \ {0}
         /\ start \in 0 .. WORD - 1
BY SizesAssumption

LEMMA InBlocks ==
  ASSUME NEW a \in Nat
  PROVE  /\ BLOCK \in Nat \ {0}
         /\ a \div BLOCK \in Nat
         /\ a % BLOCK \in 0 .. BLOCK - 1
         /\ a = ((a \div BLOCK) * BLOCK) + (a % BLOCK)
<1>1. BLOCK \in Nat \ {0}
  BY SizesAssumption
<1>2. QED
  BY <1>1, QuotientOf

LEMMA SizeIsWord ==
  ASSUME NEW n \in ClearSizes \cup Sizes
  PROVE  n \in Nat /\ n < WORD /\ WORD \in Nat \ {0}
BY SizesAssumption

LEMMA PatternIs ==
  ASSUME <<crypt, skip>> \in Patterns
  PROVE  crypt \in Nat /\ skip \in Nat /\ (crypt = 0 => skip = 0)
BY PatternsAssumption

(* A block that was begun, and the blocks after it *)
LEMMA Leads ==
  ASSUME NEW e \in Nat
  PROVE  /\ Leading(e) \in 0 .. BLOCK - 1
         /\ PartialBlocks(e) \in {0, 1}
         /\ e % BLOCK = 0 => Leading(e) = 0 /\ PartialBlocks(e) = 0
         /\ e % BLOCK # 0 => Leading(e) = BLOCK - (e % BLOCK) /\ PartialBlocks(e) = 1
         /\ (e % BLOCK) + Leading(e) = PartialBlocks(e) * BLOCK
<1>1. BLOCK \in Nat \ {0} /\ e % BLOCK \in 0 .. BLOCK - 1
  BY InBlocks
<1> DEFINE x == e % BLOCK
<1> HIDE DEF x
<1>2. Leading(e) = IF x = 0 THEN 0 ELSE BLOCK - x
  BY DEF x, Leading
<1>3. CASE x = 0
  BY <1>1, <1>2, <1>3 DEF PartialBlocks, x
<1>4. CASE x # 0
  BY <1>1, <1>2, <1>4 DEF PartialBlocks, x
<1>5. QED
  BY <1>3, <1>4

LEMMA Fulls ==
  ASSUME start \in Counters, NEW e \in Nat, NEW bytes \in 0 .. WORD - 1,
         Leading(e) <= bytes
  PROVE  LET rest == bytes - Leading(e) IN
         /\ FullBlocks(bytes, e) \in Nat
         /\ FullBlocks(bytes, e) = rest \div BLOCK
         /\ rest \in Nat
         /\ rest % BLOCK \in 0 .. BLOCK - 1
         /\ rest = (FullBlocks(bytes, e) * BLOCK) + (rest % BLOCK)
<1> DEFINE rest == bytes - Leading(e)
<1>1. rest \in 0 .. WORD - 1 /\ BLOCK \in Nat \ {0} /\ WORD \in Nat \ {0}
  <2>1. BLOCK \in Nat \ {0} /\ WORD \in Nat \ {0}
    BY Constants
  <2>2. Leading(e) \in 0 .. BLOCK - 1
    BY Leads
  <2>3. QED
    BY <2>1, <2>2
<1> HIDE DEF rest
<1>2. rest % WORD = rest
  BY <1>1, SmallRemainder
<1>3. FullBlocks(bytes, e) = rest \div BLOCK
  BY <1>2 DEF FullBlocks, rest
<1>4. /\ rest \div BLOCK \in Nat
      /\ rest % BLOCK \in 0 .. BLOCK - 1
      /\ rest = ((rest \div BLOCK) * BLOCK) + (rest % BLOCK)
  <2>1. rest \in Nat
    BY <1>1
  <2>2. QED
    BY <2>1, InBlocks
<1>5. QED
  BY <1>1, <1>3, <1>4 DEF rest

(* The blocks that a decryption counts are those that it completes. *)
LEMMA BlocksCounted ==
  ASSUME start \in Counters, NEW e \in Nat, NEW bytes \in 0 .. WORD - 1,
         Leading(e) <= bytes
  PROVE  /\ (e + bytes) \div BLOCK =
              (e \div BLOCK) + (FullBlocks(bytes, e) + PartialBlocks(e))
         /\ (e + bytes) % BLOCK = (bytes - Leading(e)) % BLOCK
         /\ (e % BLOCK) + bytes =
              ((FullBlocks(bytes, e) + PartialBlocks(e)) * BLOCK) + ((bytes - Leading(e)) % BLOCK)
<1> DEFINE rest == bytes - Leading(e)
           full == FullBlocks(bytes, e)
           y == rest % BLOCK
           x == e % BLOCK
           part == PartialBlocks(e)
<1>1. /\ BLOCK \in Nat \ {0} /\ full \in Nat /\ rest \in Nat /\ y \in 0 .. BLOCK - 1
      /\ rest = (full * BLOCK) + y
  BY Constants, Fulls
<1>2. x \in 0 .. BLOCK - 1 /\ part \in {0, 1} /\ Leading(e) \in Nat /\ x + Leading(e) = part * BLOCK
  BY <1>1, Leads, QuotientOf
<1>3. bytes = rest + Leading(e)
  BY <1>2
<1> HIDE DEF rest, full, y, x, part
<1>4. x + bytes = ((full + part) * BLOCK) + y
  <2>1. (full + part) * BLOCK = (full * BLOCK) + (part * BLOCK)
    BY <1>1, <1>2, Products
  <2>2. full * BLOCK \in Nat /\ part * BLOCK \in Nat
    BY <1>1, <1>2, Products
  <2>3. QED
    BY <1>1, <1>2, <1>3, <2>1, <2>2
<1>5. (e + bytes) \div BLOCK = (e \div BLOCK) + (full + part) /\ (e + bytes) % BLOCK = y
  <2> DEFINE k == full + part
  <2>1. k \in Nat /\ bytes \in Nat /\ BLOCK \in Nat \ {0} /\ y \in 0 .. BLOCK - 1
    BY <1>1, <1>2
  <2>2. (e % BLOCK) + bytes = (k * BLOCK) + y
    BY <1>4 DEF x
  <2> HIDE DEF k
  <2>3. Completes(e, bytes, k, y)
    BY <2>1, <2>2 DEF Completes
  <2>4. (e + bytes) \div BLOCK = (e \div BLOCK) + k /\ (e + bytes) % BLOCK = y
    BY <2>3, MoreBytes
  <2>5. QED
    BY <2>4 DEF k
<1>6. QED
  BY <1>4, <1>5 DEF full, part, x, y, rest

(* Decrypting exactly the rest of a block *)
LEMMA LeadCounted ==
  ASSUME NEW e \in Nat, Leading(e) > 0
  PROVE  /\ (e + Leading(e)) \div BLOCK = (e \div BLOCK) + 1
         /\ (e + Leading(e)) % BLOCK = 0
<1> DEFINE lead == Leading(e)
<1>1. BLOCK \in Nat \ {0} /\ lead \in Nat /\ 0 \in 0 .. BLOCK - 1 /\ 1 \in Nat
  BY Leads, InBlocks
<1>2. (e % BLOCK) + lead = (1 * BLOCK) + 0
  <2>1. e % BLOCK # 0 /\ e % BLOCK \in 0 .. BLOCK - 1
    BY Leads, InBlocks
  <2>2. lead = BLOCK - (e % BLOCK)
    BY <2>1, Leads
  <2>3. QED
    BY <1>1, <2>1, <2>2
<1> HIDE DEF lead
<1>3. Completes(e, lead, 1, 0)
  BY <1>1, <1>2 DEF Completes
<1>4. (e + lead) \div BLOCK = (e \div BLOCK) + 1 /\ (e + lead) % BLOCK = 0
  BY <1>3, MoreBytes
<1>5. QED
  BY <1>4 DEF lead

(* Decrypting whole blocks *)
LEMMA WholeCounted ==
  ASSUME NEW e \in Nat, e % BLOCK = 0, NEW n \in Nat
  PROVE  /\ n * BLOCK \in Nat
         /\ (e + (n * BLOCK)) \div BLOCK = (e \div BLOCK) + n
         /\ (e + (n * BLOCK)) % BLOCK = 0
<1> DEFINE m == n * BLOCK
<1>1. BLOCK \in Nat \ {0} /\ m \in Nat /\ 0 \in 0 .. BLOCK - 1
  BY Products, InBlocks
<1>2. (e % BLOCK) + m = (n * BLOCK) + 0
  BY <1>1
<1> HIDE DEF m
<1>3. Completes(e, m, n, 0)
  BY <1>1, <1>2 DEF Completes
<1>4. (e + m) \div BLOCK = (e \div BLOCK) + n /\ (e + m) % BLOCK = 0
  BY <1>3, MoreBytes
<1>5. QED
  BY <1>1, <1>4 DEF m

-----------------------------------------------------------------------------
(* The position that belongs to an encrypted byte of a sample of AES-CTR     *)

LEMMA CounterIs ==
  ASSUME start \in Counters, NEW e \in Nat
  PROVE  Counter(e) \in 0 .. WORD - 1
<1> DEFINE c == start + (e \div BLOCK)
<1>1. c \in Nat /\ WORD \in Nat \ {0}
  <2>1. e \div BLOCK \in Nat
    BY InBlocks
  <2>2. start \in 0 .. WORD - 1 /\ WORD \in Nat \ {0}
    BY Constants
  <2>3. QED
    BY <2>1, <2>2
<1> HIDE DEF c
<1>2. c % WORD \in 0 .. WORD - 1
  BY <1>1, QuotientOf
<1>3. QED
  BY <1>2 DEF Counter, c

LEMMA WantedIs ==
  ASSUME start \in Counters, NEW e \in Nat
  PROVE  /\ WantedPosition(e) \in Nat
         /\ alg = "CTR" => WantedPosition(e) = (Counter(e) * BLOCK) + (e % BLOCK)
         /\ alg # "CTR" => WantedPosition(e) = e
<1>1. Counter(e) \in Nat /\ BLOCK \in Nat \ {0} /\ e % BLOCK \in Nat
  <2>1. Counter(e) \in 0 .. WORD - 1 /\ WORD \in Nat
    BY Constants, CounterIs
  <2>2. BLOCK \in Nat \ {0} /\ e % BLOCK \in 0 .. BLOCK - 1
    BY InBlocks
  <2>3. QED
    BY <2>1, <2>2
<1>2. Counter(e) * BLOCK \in Nat /\ BLOCK * Counter(e) = Counter(e) * BLOCK
  BY <1>1, Products
<1>3. WantedPosition(e) = IF alg = "CTR" THEN (BLOCK * Counter(e)) + (e % BLOCK) ELSE e
  BY DEF WantedPosition, Counter
<1> HIDE DEF Counter
<1>4. QED
  BY <1>1, <1>2, <1>3

LEMMA CounterMoves ==
  ASSUME start \in Counters, NEW e \in Nat, NEW m \in Nat, NEW k \in Nat,
         (e + m) \div BLOCK = (e \div BLOCK) + k
  PROVE  Counter(e + m) = (Counter(e) + k) % WORD
<1> DEFINE q == e \div BLOCK
<1>1. q \in Nat /\ start \in Nat /\ WORD \in Nat \ {0}
  BY Constants, InBlocks
<1>2. Counter(e) = (start + q) % WORD /\ Counter(e + m) = (start + (q + k)) % WORD
  BY DEF Counter
<1> HIDE DEF q
<1>3. start + (q + k) = (start + q) + k /\ start + q \in Nat
  BY <1>1
<1> DEFINE a == start + q
<1>4. a \in Nat /\ Counter(e) = a % WORD /\ Counter(e + m) = (a + k) % WORD
  BY <1>1, <1>2, <1>3
<1> HIDE DEF a
<1>5. ((a % WORD) + k) % WORD = (a + k) % WORD
  BY <1>1, <1>4, RemainderOfSum
<1>6. QED
  BY <1>4, <1>5

(* Without a rollover positions go on, *)
LEMMA WantedGoesOn ==
  ASSUME start \in Counters, alg = "CTR", NEW e \in Nat, NEW m \in Nat,
         WantedPosition(e) + m < WORD * BLOCK
  PROVE  WantedPosition(e + m) = WantedPosition(e) + m
<1> DEFINE x == e % BLOCK
           c == Counter(e)
           k == (x + m) \div BLOCK
           y == (x + m) % BLOCK
<1>1. BLOCK \in Nat \ {0} /\ WORD \in Nat \ {0} /\ c \in 0 .. WORD - 1 /\ x \in 0 .. BLOCK - 1
  BY Constants, CounterIs, InBlocks
<1>2. k \in Nat /\ y \in 0 .. BLOCK - 1 /\ x + m = (k * BLOCK) + y
  <2> DEFINE z == x + m
  <2>1. z \in Nat
    BY <1>1
  <2> HIDE DEF z
  <2>2. /\ z \div BLOCK \in Nat /\ z % BLOCK \in 0 .. BLOCK - 1
        /\ z = ((z \div BLOCK) * BLOCK) + (z % BLOCK)
    BY <2>1, InBlocks
  <2>3. QED
    BY <2>2 DEF z
<1>3. WantedPosition(e) = (c * BLOCK) + x
  BY WantedIs
<1>4. (e + m) \div BLOCK = (e \div BLOCK) + k /\ (e + m) % BLOCK = y
  <2>1. (e % BLOCK) + m = (k * BLOCK) + y
    BY <1>2
  <2> HIDE DEF k, y
  <2>2. Completes(e, m, k, y)
    BY <1>2, <2>1 DEF Completes
  <2>3. QED
    BY <2>2, MoreBytes
<1>5. Counter(e + m) = (c + k) % WORD
  BY <1>2, <1>4, CounterMoves
<1>6. WantedPosition(e + m) = (Counter(e + m) * BLOCK) + y
  BY <1>4, WantedIs
<1> HIDE DEF x, c, k, y
<1>7. (c + k) * BLOCK = (c * BLOCK) + (k * BLOCK) /\ c * BLOCK \in Nat /\ k * BLOCK \in Nat
  BY <1>1, <1>2, Products
<1>8. WORD * BLOCK \in Nat
  BY <1>1, Products
<1>9. (c + k) * BLOCK < WORD * BLOCK
  BY <1>1, <1>2, <1>3, <1>7, <1>8
<1>10. c + k \in Nat /\ c + k < WORD
  BY <1>1, <1>2, <1>9, Cancel
<1>11. (c + k) % WORD = c + k
  BY <1>1, <1>10, SmallRemainder
<1>12. QED
  BY <1>1, <1>2, <1>3, <1>5, <1>6, <1>7, <1>11

-----------------------------------------------------------------------------
(* Sequences of bytes, and the least and the largest of some numbers         *)

LEMMA Joined ==
  ASSUME NEW s \in Seq(Int), NEW t \in Seq(Int)
  PROVE  /\ s \o t \in Seq(Int)
         /\ Len(s) \in Nat /\ Len(t) \in Nat
         /\ Len(s \o t) = Len(s) + Len(t)
         /\ \A i \in 1 .. Len(s) : (s \o t)[i] = s[i]
         /\ \A i \in 1 .. Len(t) : (s \o t)[Len(s) + i] = t[i]
<1>1. Len(s) \in Nat /\ Len(t) \in Nat
  BY LenProperties
<1>2. /\ s \o t \in Seq(Int)
      /\ Len(s \o t) = Len(s) + Len(t)
      /\ \A i \in 1 .. Len(s) + Len(t) :
           (s \o t)[i] = IF i <= Len(s) THEN s[i] ELSE t[i - Len(s)]
  BY ConcatProperties
<1>3. ASSUME NEW i \in 1 .. Len(s)
      PROVE  (s \o t)[i] = s[i]
  BY <1>1, <1>2
<1>4. ASSUME NEW i \in 1 .. Len(t)
      PROVE  (s \o t)[Len(s) + i] = t[i]
  <2> DEFINE k == Len(s) + i
  <2>1. k \in 1 .. Len(s) + Len(t) /\ ~(k <= Len(s)) /\ k - Len(s) = i
    BY <1>1
  <2> HIDE DEF k
  <2>2. (s \o t)[k] = t[k - Len(s)]
    BY <1>2, <2>1
  <2>3. QED
    BY <2>1, <2>2 DEF k
<1>5. QED
  BY <1>1, <1>2, <1>3, <1>4

LEMMA Regroup ==
  ASSUME NEW s \in Seq(Int), NEW t \in Seq(Int), NEW u \in Seq(Int)
  PROVE  (s \o t) \o u = s \o (t \o u)
BY ConcatAssociative

LEMMA ClearIs ==
  ASSUME NEW n \in Nat
  PROVE  /\ ClearBytes(n) \in Seq(Int)
         /\ Len(ClearBytes(n)) = n
         /\ \A i \in 1 .. n : ClearBytes(n)[i] = Clear
<1>1. ClearBytes(n) \in [1 .. n -> Int]
  BY DEF ClearBytes, Clear
<1>2. ClearBytes(n) \in Seq(Int)
  BY <1>1, SeqDef
<1>3. DOMAIN ClearBytes(n) = 1 .. n
  BY DEF ClearBytes
<1>4. Len(ClearBytes(n)) = n
  BY <1>2, <1>3, LenProperties
<1>5. QED
  BY <1>2, <1>4 DEF ClearBytes

LEMMA PositionsAre ==
  ASSUME NEW p \in Nat, NEW n \in Nat
  PROVE  /\ Positions(p, n) \in Seq(Int)
         /\ Len(Positions(p, n)) = n
         /\ \A i \in 1 .. n : Positions(p, n)[i] = p + i - 1
<1>1. Positions(p, n) \in [1 .. n -> Int]
  BY DEF Positions
<1>2. Positions(p, n) \in Seq(Int)
  BY <1>1, SeqDef
<1>3. DOMAIN Positions(p, n) = 1 .. n
  BY DEF Positions
<1>4. Len(Positions(p, n)) = n
  BY <1>2, <1>3, LenProperties
<1>5. QED
  BY <1>2, <1>4 DEF Positions

LEMMA MinPair ==
  ASSUME NEW a \in Nat, NEW b \in Nat
  PROVE  /\ Min({a, b}) \in Nat
         /\ Min({a, b}) = a \/ Min({a, b}) = b
         /\ Min({a, b}) <= a /\ Min({a, b}) <= b
<1>1. \E x \in {a, b} : \A y \in {a, b} : x =< y
  <2>1. CASE a <= b
    BY <2>1
  <2>2. CASE b < a
    BY <2>2
  <2>3. QED
    BY <2>1, <2>2
<1> DEFINE m == CHOOSE x \in {a, b} : \A y \in {a, b} : x =< y
<1>2. m \in {a, b} /\ \A y \in {a, b} : m =< y
  BY <1>1
<1>3. Min({a, b}) = m
  BY DEF Min
<1> HIDE DEF m
<1>4. QED
  BY <1>2, <1>3

LEMMA LeastNatural ==
  ASSUME NEW T \in SUBSET Nat, T # {}
  PROVE  \E x \in T : \A y \in T : x <= y
<1> DEFINE R == OpToRel(<, Nat)
<1>1. IsWellFoundedOn(R, Nat)
  BY NatLessThanWellFounded
<1>2. \A y, z : <<y, z>> \in R <=> <<y, z>> \in Nat \X Nat /\ <<y, z>>[1] < <<y, z>>[2]
  BY Zenon DEF OpToRel
<1> HIDE DEF R
<1>3. \A y, z \in Nat : <<y, z>> \in R <=> y < z
  BY <1>2
<1>4. PICK x \in T : \A y \in T : ~ (<<y, x>> \in R)
  BY <1>1, WFMin, Zenon
<1>5. \A y \in T : y \in Nat /\ x \in Nat /\ ~ (y < x)
  BY <1>3, <1>4
<1>6. QED
  BY <1>5

(* Sizes are words, so that there is a largest one. *)
LEMMA LargestSize ==
  ASSUME NEW n \in Sizes
  PROVE  Max(Sizes) \in Nat /\ n <= Max(Sizes)
<1>1. \A m \in Sizes : m \in Nat /\ m < WORD /\ WORD \in Nat
  BY SizeIsWord
<1> DEFINE T == {x \in Nat : \E m \in Sizes : x = WORD - m}
<1>2. T \in SUBSET Nat /\ T # {}
  <2>1. WORD - n \in T
    BY <1>1
  <2>2. QED
    BY <2>1
<1>3. PICK x \in T : \A y \in T : x <= y
  BY <1>2, LeastNatural
<1>4. PICK m \in Sizes : x = WORD - m
  BY <1>3
<1>5. ASSUME NEW k \in Sizes PROVE m >= k
  <2>1. WORD - k \in T
    BY <1>1
  <2>2. x <= WORD - k
    BY <1>3, <2>1
  <2>3. QED
    BY <1>1, <1>4, <2>2
<1>6. \E z \in Sizes : \A y \in Sizes : z >= y
  BY <1>5
<1> DEFINE largest == CHOOSE z \in Sizes : \A y \in Sizes : z >= y
<1>7. largest \in Sizes /\ \A y \in Sizes : largest >= y
  BY <1>6
<1>8. Max(Sizes) = largest
  BY DEF Max
<1> HIDE DEF largest
<1>9. QED
  BY <1>1, <1>7, <1>8

-----------------------------------------------------------------------------
(* What decrypt() writes                                                     *)

(* w is a state of decrypt() after n of the bytes that follow e bytes. *)
Wrote(w, e, n) ==
  /\ e \in Nat /\ n \in Nat
  /\ w.iv \in 0 .. WORD - 1 /\ w.enc = e + n /\ w.pos \in Nat
  /\ w.out \in Seq(Int) /\ Len(w.out) = n

LEMMA WorkWrote ==
  ASSUME TypeOK
  PROVE  Wrote(Work, enc, 0) /\ Work.iv = iv /\ Work.enc = enc /\ Work.pos = pos /\ Work.out = <<>>
<1>1. Work.iv = iv /\ Work.enc = enc /\ Work.pos = pos /\ Work.out = <<>>
  BY DEF Work
<1>2. <<>> \in Seq(Int) /\ Len(<<>>) = 0
  BY EmptySeq
<1>3. QED
  BY <1>1, <1>2 DEF Wrote, TypeOK

LEMMA SetIvIs ==
  ASSUME NEW c \in Nat
  PROVE  /\ SetIv(alg, c) \in Nat
         /\ alg = "CTR" => SetIv(alg, c) = c * BLOCK
<1>1. BLOCK \in Nat
  BY SizesAssumption
<1>2. BLOCK * c = c * BLOCK /\ c * BLOCK \in Nat
  BY <1>1, Products
<1>3. QED
  BY <1>2 DEF SetIv

LEMMA DecryptedIs ==
  ASSUME NEW w, NEW e, NEW n, Wrote(w, e, n),
         NEW m \in Nat, NEW k \in Nat, start \in Counters,
         NEW d, d = Decrypted(w, m, k) \/ d = DecryptedAndSet(w, m, k)
  PROVE  /\ Wrote(d, e, n + m)
         /\ d.iv = (w.iv + k) % WORD
         /\ \A i \in 1 .. n : d.out[i] = w.out[i]
         /\ \A i \in 1 .. m : d.out[n + i] = w.pos + i - 1
<1>1. /\ e \in Nat /\ n \in Nat /\ w.iv \in 0 .. WORD - 1 /\ w.enc = e + n
      /\ w.pos \in Nat /\ w.out \in Seq(Int) /\ Len(w.out) = n
  BY DEF Wrote
<1> DEFINE p == Positions(w.pos, m)
<1>2. /\ p \in Seq(Int) /\ Len(p) = m
      /\ \A i \in 1 .. m : p[i] = w.pos + i - 1
  BY <1>1, PositionsAre
<1>3. /\ d.iv = (w.iv + k) % WORD /\ d.enc = w.enc + m /\ d.out = w.out \o p
      /\ d.pos = w.pos + m \/ d.pos = SetIv(alg, d.iv)
  <2>1. CASE d = Decrypted(w, m, k)
    BY <2>1 DEF Decrypted
  <2>2. CASE d = DecryptedAndSet(w, m, k)
    BY <2>2 DEF Decrypted, DecryptedAndSet
  <2>3. QED
    BY <2>1, <2>2
<1> HIDE DEF p
<1>4. d.iv \in 0 .. WORD - 1
  <2> DEFINE c == w.iv + k
  <2>1. c \in Nat /\ WORD \in Nat \ {0}
    BY <1>1, Constants
  <2> HIDE DEF c
  <2>2. c % WORD \in 0 .. WORD - 1
    BY <2>1, QuotientOf
  <2>3. QED
    BY <1>3, <2>2 DEF c
<1>5. d.pos \in Nat
  <2>1. d.iv \in Nat
    BY <1>4, Constants
  <2>2. SetIv(alg, d.iv) \in Nat
    BY <2>1, SetIvIs
  <2>3. QED
    BY <1>1, <1>3, <2>2
<1>6. /\ d.out \in Seq(Int) /\ Len(d.out) = n + m
      /\ \A i \in 1 .. n : d.out[i] = w.out[i]
      /\ \A i \in 1 .. m : d.out[n + i] = p[i]
  <2>1. /\ w.out \o p \in Seq(Int)
        /\ Len(w.out \o p) = n + m
        /\ \A i \in 1 .. n : (w.out \o p)[i] = w.out[i]
        /\ \A i \in 1 .. m : (w.out \o p)[n + i] = p[i]
    BY <1>1, <1>2, Joined
  <2>2. QED
    BY <1>3, <2>1
<1>7. d.enc = e + (n + m) /\ n + m \in Nat
  BY <1>1, <1>3
<1>8. Wrote(d, e, n + m)
  BY <1>1, <1>4, <1>5, <1>6, <1>7 DEF Wrote
<1>9. QED
  BY <1>2, <1>3, <1>6, <1>8

(* A decryption of CTR that is so far as the mode asks for *)
Right(w, e, n) ==
  /\ Wrote(w, e, n)
  /\ w.iv = Counter(w.enc)
  /\ w.pos = WantedPosition(w.enc)
  /\ \A i \in 1 .. n : w.out[i] = WantedPosition(e + (i - 1))

(* It stays so when the blocks that are counted are those that are completed *)
(* and the counter of OpenSSL does not pass the rollover, where it is set.   *)
LEMMA DecryptedRight ==
  ASSUME start \in Counters, alg = "CTR",
         NEW w, NEW e, NEW n, Right(w, e, n), NEW m \in Nat, NEW k \in Nat,
         (w.enc + m) \div BLOCK = (w.enc \div BLOCK) + k,
         NEW d,
         \/ d = Decrypted(w, m, k) /\ w.pos + m < WORD * BLOCK
         \/ /\ d = DecryptedAndSet(w, m, k) /\ w.pos + m <= WORD * BLOCK
            /\ (w.enc + m) % BLOCK = 0
  PROVE  Right(d, e, n + m)
<1>1. /\ Wrote(w, e, n) /\ w.iv = Counter(w.enc) /\ w.pos = WantedPosition(w.enc)
      /\ \A i \in 1 .. n : w.out[i] = WantedPosition(e + (i - 1))
  BY DEF Right
<1>2. /\ e \in Nat /\ n \in Nat /\ w.enc = e + n /\ w.pos \in Nat /\ w.enc \in Nat
  BY <1>1 DEF Wrote
<1>3. /\ Wrote(d, e, n + m)
      /\ d.iv = (w.iv + k) % WORD
      /\ \A i \in 1 .. n : d.out[i] = w.out[i]
      /\ \A i \in 1 .. m : d.out[n + i] = w.pos + i - 1
  BY <1>1, DecryptedIs
<1>4. d.enc = w.enc + m /\ d.enc \in Nat
  BY <1>2, <1>3 DEF Wrote
<1>5. d.iv = Counter(d.enc)
  <2>1. Counter(w.enc + m) = (Counter(w.enc) + k) % WORD
    BY <1>2, CounterMoves
  <2>2. QED
    BY <1>1, <1>3, <1>4, <2>1
<1>6. w.pos + m <= WORD * BLOCK /\ WORD * BLOCK \in Nat
  <2>1. WORD * BLOCK \in Nat
    BY Constants, Products
  <2>2. QED
    BY <1>2, <2>1
<1>7. ASSUME NEW i \in 1 .. m
      PROVE  d.out[n + i] = WantedPosition(e + ((n + i) - 1))
  <2> DEFINE j == i - 1
  <2>1. j \in Nat /\ w.pos + j < WORD * BLOCK
    BY <1>2, <1>6
  <2>2. e + ((n + i) - 1) = w.enc + j /\ w.pos + i - 1 = w.pos + j
    BY <1>2
  <2> HIDE DEF j
  <2>3. WantedPosition(w.enc + j) = w.pos + j
    BY <1>1, <1>2, <2>1, WantedGoesOn
  <2>4. QED
    BY <1>3, <2>2, <2>3
<1>8. ASSUME NEW i \in 1 .. n + m
      PROVE  d.out[i] = WantedPosition(e + (i - 1))
  <2>1. CASE i <= n
    BY <1>1, <1>2, <1>3, <2>1
  <2>2. CASE i > n
    <3> DEFINE j == i - n
    <3>1. j \in 1 .. m /\ n + j = i
      BY <1>2, <2>2
    <3> HIDE DEF j
    <3>2. QED
      BY <1>7, <3>1
  <2>3. QED
    BY <1>2, <2>1, <2>2
<1>9. d.pos = WantedPosition(d.enc)
  <2>1. CASE d = Decrypted(w, m, k) /\ w.pos + m < WORD * BLOCK
    <3>1. d.pos = w.pos + m
      BY <2>1 DEF Decrypted
    <3>2. WantedPosition(w.enc + m) = w.pos + m
      BY <1>1, <1>2, <2>1, WantedGoesOn
    <3>3. QED
      BY <1>4, <3>1, <3>2
  <2>2. CASE d = DecryptedAndSet(w, m, k) /\ (w.enc + m) % BLOCK = 0
    <3>1. d.pos = SetIv(alg, d.iv)
      BY <2>2 DEF Decrypted, DecryptedAndSet
    <3>2. d.iv \in Nat
      BY <1>3, Constants DEF Wrote
    <3>3. d.pos = d.iv * BLOCK /\ d.iv * BLOCK \in Nat
      <4>1. BLOCK \in Nat
        BY Constants
      <4>2. d.iv * BLOCK \in Nat
        BY <3>2, <4>1, Products
      <4>3. QED
        BY <3>1, <3>2, <4>2, SetIvIs
    <3>4. WantedPosition(d.enc) = (Counter(d.enc) * BLOCK) + (d.enc % BLOCK)
      BY <1>4, WantedIs
    <3>5. d.enc % BLOCK = 0
      BY <1>4, <2>2
    <3>6. WantedPosition(d.enc) = (d.iv * BLOCK) + 0
      BY <1>5, <3>4, <3>5
    <3>7. QED
      BY <3>3, <3>6
  <2>3. QED
    BY <2>1, <2>2
<1>10. QED
  BY <1>3, <1>5, <1>8, <1>9 DEF Right

-----------------------------------------------------------------------------
(* What decrypt() writes, with and without a rollover                        *)

LEMMA BeforeRollover ==
  ASSUME NEW c \in 0 .. WORD - 1, start \in Counters
  PROVE  /\ BlocksBeforeRollover(c) \in Nat
         /\ c = 0 => BlocksBeforeRollover(c) = 0
         /\ c # 0 => BlocksBeforeRollover(c) = WORD - c
<1>1. WORD \in Nat \ {0} /\ c \in Nat
  BY Constants
<1>2. CASE c = 0
  <2>1. WORD % WORD = 0
    <3>1. ((1 * WORD) + 0) % WORD = 0
      BY <1>1, QuotientIs
    <3>2. (1 * WORD) + 0 = WORD
      BY <1>1
    <3>3. QED
      BY <3>1, <3>2
  <2>2. WORD - c = WORD
    BY <1>1, <1>2
  <2>3. QED
    BY <1>2, <2>1, <2>2 DEF BlocksBeforeRollover
<1>3. CASE c # 0
  <2> DEFINE z == WORD - c
  <2>1. z \in 0 .. WORD - 1
    BY <1>1, <1>3
  <2> HIDE DEF z
  <2>2. z % WORD = z
    BY <1>1, <2>1, SmallRemainder
  <2>3. z \in Nat
    BY <2>1
  <2>4. QED
    BY <1>3, <2>2, <2>3 DEF BlocksBeforeRollover, z
<1>4. QED
  BY <1>2, <1>3

(* The blocks that are decrypted before a rollover fit into the range. *)
LEMMA BlocksFit ==
  ASSUME TypeOK, NEW bytes \in 0 .. WORD - 1, Leading(enc) <= bytes,
         NEW n, n = Min({BlocksBeforeRollover(iv), FullBlocks(bytes, enc)})
  PROVE  /\ n \in Nat /\ n <= FullBlocks(bytes, enc)
         /\ n <= BlocksBeforeRollover(iv)
         /\ n = BlocksBeforeRollover(iv) \/ n = FullBlocks(bytes, enc)
         /\ FullBlocks(bytes, enc) - n \in Nat
         /\ n * BLOCK \in Nat
         /\ Leading(enc) \in Nat
         /\ Leading(enc) + (n * BLOCK) <= bytes
<1> DEFINE full == FullBlocks(bytes, enc)
           lead == Leading(enc)
           rest == bytes - lead
<1>1. start \in Counters /\ enc \in Nat /\ iv \in 0 .. WORD - 1
  BY DEF TypeOK
<1>2. /\ full \in Nat /\ rest \in Nat /\ rest % BLOCK \in 0 .. BLOCK - 1
      /\ rest = (full * BLOCK) + (rest % BLOCK)
  BY <1>1, Fulls
<1>3. lead \in 0 .. BLOCK - 1 /\ BLOCK \in Nat \ {0}
  BY <1>1, Leads, Constants
<1>4. BlocksBeforeRollover(iv) \in Nat
  BY <1>1, BeforeRollover
<1>5. n \in Nat /\ n <= full /\ n <= BlocksBeforeRollover(iv)
      /\ (n = BlocksBeforeRollover(iv) \/ n = full)
  BY <1>2, <1>4, MinPair
<1> HIDE DEF full
<1>6. n * BLOCK \in Nat /\ full * BLOCK \in Nat /\ n * BLOCK <= full * BLOCK
  BY <1>2, <1>3, <1>5, Products, LessProduct
<1>7. lead + (n * BLOCK) <= bytes
  <2> DEFINE y == rest % BLOCK
  <2>1. y \in Nat /\ bytes - lead = (full * BLOCK) + y
    BY <1>2, <1>3
  <2> HIDE DEF y, lead
  <2>2. QED
    BY <1>3, <1>6, <2>1
<1>8. full - n \in Nat /\ lead \in Nat
  BY <1>2, <1>3, <1>5
<1>9. QED
  BY <1>5, <1>6, <1>7, <1>8 DEF full

LEMMA AroundWrote ==
  ASSUME TypeOK, NEW bytes \in 0 .. WORD - 1, Leading(enc) <= bytes
  PROVE  Wrote(DecryptAround(Work, bytes), enc, bytes)
<1> DEFINE w == Work
           full == FullBlocks(bytes, w.enc)
           lead == Leading(w.enc)
           w1 == IF lead > 0 THEN DecryptedAndSet(w, lead, 1) ELSE w
           n == Min({BlocksBeforeRollover(w.iv), full})
           m == n * BLOCK
           w2 == IF n > 0 THEN DecryptedAndSet(w1, m, n) ELSE w1
           done == lead + m
           d == IF done < bytes THEN Decrypted(w2, bytes - done, full - n) ELSE w2
<1>1. DecryptAround(w, bytes) = d
  BY DEF DecryptAround
<1>2. Wrote(w, enc, 0) /\ w.iv = iv /\ w.enc = enc
  BY WorkWrote
<1>3. start \in Counters /\ enc \in Nat /\ BLOCK \in Nat
  BY SizesAssumption DEF TypeOK
<1>4. /\ n \in Nat /\ full - n \in Nat /\ m \in Nat /\ lead \in Nat /\ done <= bytes
  BY <1>2, BlocksFit
<1>5. n = 0 => m = 0
  BY <1>3
<1> HIDE DEF w, full, lead, n, m
<1>6. Wrote(w1, enc, lead)
  <2>1. CASE lead > 0
    <3>1. w1 = DecryptedAndSet(w, lead, 1)
      BY <2>1
    <3>2. Wrote(w1, enc, 0 + lead)
      BY <1>2, <1>3, <1>4, <3>1, DecryptedIs
    <3>3. 0 + lead = lead
      BY <1>4
    <3>4. QED
      BY <3>2, <3>3
  <2>2. CASE ~(lead > 0)
    BY <1>2, <1>4, <2>2
  <2>3. QED
    BY <2>1, <2>2
<1> HIDE DEF w1
<1>7. Wrote(w2, enc, done)
  <2>1. CASE n > 0
    <3>1. w2 = DecryptedAndSet(w1, m, n)
      BY <2>1
    <3>2. start \in Counters /\ m \in Nat /\ n \in Nat
      BY <1>3, <1>4
    <3> HIDE DEF w2, done
    <3>3. Wrote(w2, enc, lead + m)
      BY <1>6, <3>1, <3>2, DecryptedIs
    <3>4. QED
      BY <3>3 DEF done
  <2>2. CASE ~(n > 0)
    <3>1. w2 = w1 /\ done = lead
      BY <1>4, <1>5, <2>2
    <3>2. QED
      BY <1>6, <3>1
  <2>3. QED
    BY <2>1, <2>2
<1>8. done \in Nat
  BY <1>4
<1> HIDE DEF w2, done
<1>9. Wrote(d, enc, bytes)
  <2>1. CASE done < bytes
    <3> DEFINE k == bytes - done
    <3>1. d = Decrypted(w2, k, full - n)
      BY <2>1
    <3>2. k \in Nat /\ done + k = bytes
      BY <1>8, <2>1
    <3> HIDE DEF k
    <3>3. Wrote(d, enc, done + k)
      BY <1>3, <1>4, <1>7, <3>1, <3>2, DecryptedIs
    <3>4. QED
      BY <3>2, <3>3
  <2>2. CASE ~(done < bytes)
    <3>1. d = w2 /\ done = bytes
      BY <1>4, <1>8, <2>2
    <3>2. QED
      BY <1>7, <3>1
  <2>3. QED
    BY <2>1, <2>2
<1>10. QED
  BY <1>1, <1>9 DEF w

LEMMA RestWrote ==
  ASSUME TypeOK, NEW bytes \in 0 .. WORD - 1, Leading(enc) <= bytes
  PROVE  /\ Wrote(DecryptRest(Work, bytes), enc, bytes)
         /\ \A i \in 1 .. bytes : DecryptRest(Work, bytes).out[i] = pos + i - 1
         /\ DecryptRest(Work, bytes).pos = pos + bytes
<1> DEFINE w == Work
           k == FullBlocks(bytes, w.enc) + PartialBlocks(w.enc)
           d == DecryptRest(w, bytes)
<1>1. Wrote(w, enc, 0) /\ w.enc = enc /\ w.pos = pos
  BY WorkWrote
<1>2. start \in Counters /\ enc \in Nat /\ bytes \in Nat /\ pos \in Nat
  BY DEF TypeOK
<1>3. k \in Nat
  <2>1. FullBlocks(bytes, enc) \in Nat
    BY <1>2, Fulls
  <2>2. PartialBlocks(enc) \in Nat
    BY <1>2, Leads
  <2>3. QED
    BY <1>1, <2>1, <2>2
<1>4. d = Decrypted(w, bytes, k)
  BY DEF DecryptRest
<1> HIDE DEF w, k, d
<1>5. Wrote(d, enc, 0 + bytes) /\ \A i \in 1 .. bytes : d.out[0 + i] = w.pos + i - 1
  BY <1>1, <1>2, <1>3, <1>4, DecryptedIs
<1>6. Wrote(d, enc, bytes) /\ \A i \in 1 .. bytes : d.out[i] = pos + i - 1
  <2>1. 0 + bytes = bytes /\ \A i \in 1 .. bytes : 0 + i = i
    BY <1>2
  <2>2. QED
    BY <1>1, <1>5, <2>1
<1>7. d.pos = pos + bytes
  BY <1>1, <1>4 DEF Decrypted
<1>8. QED
  BY <1>6, <1>7 DEF d, w

(* decrypt() writes as much as it is given, and counts it. *)
LEMMA DecryptWrote ==
  ASSUME TypeOK, NEW bytes \in 0 .. WORD - 1, bytes = 0 \/ Leading(enc) <= bytes
  PROVE  Wrote(decrypt(bytes), enc, bytes)
<1>1. CASE bytes = 0
  BY <1>1, WorkWrote DEF decrypt
<1>2. CASE bytes # 0 /\ counter_rollover(bytes, enc, iv)
  BY <1>2, AroundWrote DEF decrypt
<1>3. CASE bytes # 0 /\ ~counter_rollover(bytes, enc, iv)
  BY <1>3, RestWrote DEF decrypt
<1>4. QED
  BY <1>1, <1>2, <1>3

-----------------------------------------------------------------------------
(* What decrypt() writes for AES-CTR is what the mode asks for               *)

LEMMA BeforeEnd ==
  ASSUME start \in Counters, NEW c \in Nat, NEW k \in Nat, NEW y \in 0 .. BLOCK - 1, c + k < WORD
  PROVE  (c * BLOCK) + ((k * BLOCK) + y) < WORD * BLOCK
<1>1. BLOCK \in Nat \ {0} /\ WORD \in Nat
  BY Constants
<1> DEFINE z == c + k
<1>2. z \in Nat /\ z + 1 <= WORD /\ z + 1 \in Nat /\ 1 \in Nat
  BY <1>1
<1>3. z * BLOCK = (c * BLOCK) + (k * BLOCK) /\ c * BLOCK \in Nat /\ k * BLOCK \in Nat
  BY <1>1, Products
<1> HIDE DEF z
<1>4. (z + 1) * BLOCK = (z * BLOCK) + (1 * BLOCK) /\ (z + 1) * BLOCK <= WORD * BLOCK
  BY <1>1, <1>2, Products, LessProduct
<1>5. 1 * BLOCK = BLOCK /\ y \in Nat /\ y < BLOCK /\ WORD * BLOCK \in Nat
  BY <1>1, Products
<1>6. QED
  BY <1>1, <1>3, <1>4, <1>5

LEMMA FewerThanBytes ==
  ASSUME NEW k \in Nat, NEW y \in Nat, NEW m \in Nat, m = (k * BLOCK) + y
  PROVE  k <= m
<1>1. BLOCK \in Nat \ {0}
  BY SizesAssumption
<1>2. k * 1 <= k * BLOCK /\ k * 1 = k
  <2>1. 1 * k <= BLOCK * k
    BY <1>1, LessProduct
  <2>2. QED
    BY <1>1, <2>1, Products
<1>3. k * BLOCK \in Nat
  BY <1>1, Products
<1>4. QED
  BY <1>2, <1>3

(* OpenSSL is where the bytes that were decrypted so far end. *)
InPlace ==
  /\ TypeOK
  /\ alg = "CTR"
  /\ iv = Counter(enc)
  /\ pos = WantedPosition(enc)

LEMMA WorkRight ==
  ASSUME InPlace
  PROVE  Right(Work, enc, 0)
<1>1. Wrote(Work, enc, 0) /\ Work.iv = iv /\ Work.enc = enc /\ Work.pos = pos
  BY WorkWrote DEF InPlace
<1>2. \A i \in 1 .. 0 : Work.out[i] = WantedPosition(enc + (i - 1))
  OBVIOUS
<1>3. QED
  BY <1>1, <1>2 DEF Right, InPlace

LEMMA RestRight ==
  ASSUME InPlace, NEW bytes \in 0 .. WORD - 1, Leading(enc) <= bytes,
         iv + (FullBlocks(bytes, enc) + PartialBlocks(enc)) < WORD
  PROVE  Right(DecryptRest(Work, bytes), enc, bytes)
<1> DEFINE w == Work
           k == FullBlocks(bytes, w.enc) + PartialBlocks(w.enc)
           x == enc % BLOCK
           y == (bytes - Leading(enc)) % BLOCK
           d == DecryptRest(w, bytes)
<1>1. Right(w, enc, 0) /\ w.enc = enc /\ w.pos = pos
  BY WorkRight, WorkWrote DEF InPlace
<1>2. start \in Counters /\ alg = "CTR" /\ enc \in Nat /\ bytes \in Nat /\ pos \in Nat /\ iv \in Nat
  BY Constants DEF TypeOK, InPlace
<1>3. k \in Nat /\ y \in 0 .. BLOCK - 1 /\ iv + k < WORD
  <2>1. FullBlocks(bytes, enc) \in Nat /\ y \in 0 .. BLOCK - 1
    BY <1>2, Fulls
  <2>2. PartialBlocks(enc) \in Nat
    BY <1>2, Leads
  <2>3. QED
    BY <1>1, <2>1, <2>2
<1>4. (enc + bytes) \div BLOCK = (enc \div BLOCK) + k /\ x + bytes = (k * BLOCK) + y
  BY <1>1, <1>2, BlocksCounted
<1>5. pos = (iv * BLOCK) + x
  BY <1>2, WantedIs DEF InPlace
<1>6. x \in Nat
  BY <1>2, InBlocks
<1>7. d = Decrypted(w, bytes, k)
  BY DEF DecryptRest
<1> HIDE DEF w, k, x, y, d
<1>8. pos + bytes < WORD * BLOCK
  <2>1. (iv * BLOCK) + ((k * BLOCK) + y) < WORD * BLOCK
    BY <1>2, <1>3, BeforeEnd
  <2>2. iv * BLOCK \in Nat
    BY <1>2, Constants, Products
  <2>3. (iv * BLOCK) + (x + bytes) = pos + bytes
    BY <1>2, <1>5, <1>6, <2>2
  <2>4. QED
    BY <1>4, <2>1, <2>3
<1>9. Right(d, enc, 0 + bytes)
  BY <1>1, <1>2, <1>3, <1>4, <1>7, <1>8, DecryptedRight
<1>10. 0 + bytes = bytes
  BY <1>2
<1>11. QED
  BY <1>9, <1>10 DEF w, d

(* With a rollover, the rest of a block comes first, ... *)
LEMMA LeadRight ==
  ASSUME InPlace, NEW w1,
         w1 = IF Leading(enc) > 0 THEN DecryptedAndSet(Work, Leading(enc), 1) ELSE Work
  PROVE  /\ Right(w1, enc, Leading(enc))
         /\ w1.enc % BLOCK = 0
         /\ w1.iv = (iv + PartialBlocks(enc)) % WORD
<1> DEFINE w == Work
           lead == Leading(enc)
           x == enc % BLOCK
<1>1. Right(w, enc, 0) /\ w.enc = enc /\ w.pos = pos /\ w.iv = iv
  BY WorkRight, WorkWrote DEF InPlace
<1>2. /\ start \in Counters /\ alg = "CTR" /\ enc \in Nat /\ pos \in Nat
      /\ iv \in 0 .. WORD - 1 /\ iv \in Nat /\ BLOCK \in Nat \ {0} /\ WORD \in Nat \ {0}
  BY Constants DEF TypeOK, InPlace
<1>3. lead \in Nat
  BY <1>2, Leads
<1>4. CASE lead > 0
  <2>1. w1 = DecryptedAndSet(w, lead, 1)
    BY <1>4
  <2>2. x # 0 /\ x + lead = BLOCK /\ PartialBlocks(enc) = 1 /\ x \in Nat
    <3>1. x \in 0 .. BLOCK - 1 /\ (x = 0 => lead = 0)
      BY <1>2, InBlocks, Leads
    <3>2. x # 0
      BY <1>4, <3>1
    <3>3. lead = BLOCK - x /\ PartialBlocks(enc) = 1
      BY <1>2, <3>2, Leads
    <3>4. QED
      BY <1>2, <3>1, <3>2, <3>3
  <2>3. (enc + lead) \div BLOCK = (enc \div BLOCK) + 1 /\ (enc + lead) % BLOCK = 0
    BY <1>2, <1>4, LeadCounted
  <2>4. pos = (iv * BLOCK) + x
    BY <1>2, WantedIs DEF InPlace
  <2> HIDE DEF w, lead, x
  <2>5. pos + lead <= WORD * BLOCK
    <3>1. iv + 1 <= WORD /\ iv + 1 \in Nat /\ 1 \in Nat
      BY <1>2
    <3>2. (iv + 1) * BLOCK = (iv * BLOCK) + (1 * BLOCK) /\ (iv + 1) * BLOCK <= WORD * BLOCK
      BY <1>2, <3>1, Products, LessProduct
    <3>3. iv * BLOCK \in Nat /\ 1 * BLOCK = BLOCK
      BY <1>2, Products
    <3>4. pos + lead = (iv * BLOCK) + BLOCK
      BY <1>2, <1>3, <2>2, <2>4, <3>3
    <3>5. QED
      BY <3>2, <3>3, <3>4
  <2>6. Right(w1, enc, 0 + lead)
    <3>1. 1 \in Nat
      OBVIOUS
    <3>2. QED
      BY <1>1, <1>2, <1>3, <2>1, <2>3, <2>5, <3>1, DecryptedRight
  <2>7. 0 + lead = lead
    BY <1>3
  <2>8. Right(w1, enc, lead)
    BY <2>6, <2>7
  <2>9. w1.enc = enc + lead /\ w1.iv = (iv + 1) % WORD
    BY <1>1, <2>1 DEF DecryptedAndSet, Decrypted
  <2>10. QED
    BY <2>2, <2>3, <2>8, <2>9 DEF lead
<1>5. CASE ~(lead > 0)
  <2>1. lead = 0 /\ w1 = w
    BY <1>3, <1>5
  <2>2. x = 0 /\ PartialBlocks(enc) = 0
    <3>1. x \in 0 .. BLOCK - 1
      BY <1>2, InBlocks
    <3>2. x # 0 => lead = BLOCK - x
      BY <1>2, Leads
    <3>3. x = 0
      BY <1>2, <2>1, <3>1, <3>2
    <3>4. QED
      BY <1>2, <3>3, Leads
  <2>3. (iv + 0) % WORD = iv
    <3>1. iv + 0 = iv /\ iv % WORD = iv
      BY <1>2, SmallRemainder
    <3>2. QED
      BY <3>1
  <2>4. QED
    BY <1>1, <2>1, <2>2, <2>3
<1>6. QED
  BY <1>4, <1>5

LEMMA AtBlock ==
  ASSUME start \in Counters, alg = "CTR", NEW w, NEW e, NEW n, Right(w, e, n), w.enc % BLOCK = 0
  PROVE  w.pos = w.iv * BLOCK /\ w.iv \in 0 .. WORD - 1 /\ w.enc \in Nat /\ w.iv * BLOCK \in Nat
<1>1. /\ w.enc \in Nat /\ w.iv \in 0 .. WORD - 1
      /\ w.iv = Counter(w.enc) /\ w.pos = WantedPosition(w.enc)
  BY DEF Right, Wrote
<1>2. w.iv * BLOCK \in Nat
  BY <1>1, Constants, Products
<1>3. WantedPosition(w.enc) = (Counter(w.enc) * BLOCK) + (w.enc % BLOCK)
  BY <1>1, WantedIs
<1>4. w.pos = (w.iv * BLOCK) + 0
  BY <1>1, <1>3
<1>5. QED
  BY <1>1, <1>2, <1>4

(* ... then the blocks before the rollover, which may end right at it, ... *)
LEMMA WholeRight ==
  ASSUME start \in Counters, alg = "CTR", NEW w, NEW e, NEW m, Right(w, e, m),
         w.enc % BLOCK = 0, NEW n \in Nat, w.iv + n <= WORD,
         NEW d, d = DecryptedAndSet(w, n * BLOCK, n)
  PROVE  Right(d, e, m + (n * BLOCK)) /\ d.enc % BLOCK = 0 /\ d.iv = (w.iv + n) % WORD
<1> DEFINE b == n * BLOCK
<1>1. w.pos = w.iv * BLOCK /\ w.iv \in Nat /\ w.enc \in Nat /\ w.iv * BLOCK \in Nat
  BY AtBlock, Constants
<1>2. b \in Nat /\ (w.enc + b) \div BLOCK = (w.enc \div BLOCK) + n /\ (w.enc + b) % BLOCK = 0
  BY <1>1, WholeCounted
<1>3. w.pos + b <= WORD * BLOCK
  <2> DEFINE z == w.iv + n
  <2>1. z \in Nat /\ z <= WORD /\ WORD \in Nat /\ BLOCK \in Nat
    BY <1>1, Constants
  <2>2. z * BLOCK = (w.iv * BLOCK) + b
    BY <1>1, <2>1, Products
  <2> HIDE DEF z
  <2>3. z * BLOCK <= WORD * BLOCK
    BY <2>1, LessProduct
  <2>4. QED
    BY <1>1, <2>2, <2>3
<1>4. d = DecryptedAndSet(w, b, n)
  OBVIOUS
<1> HIDE DEF b
<1>5. Right(d, e, m + b)
  BY <1>1, <1>2, <1>3, <1>4, DecryptedRight
<1>6. d.enc = w.enc + b /\ d.iv = (w.iv + n) % WORD
  BY <1>4 DEF DecryptedAndSet, Decrypted
<1>7. QED
  BY <1>2, <1>5, <1>6 DEF b

(* ... and what is left, from the beginning of a block. *)
LEMMA LeftRight ==
  ASSUME start \in Counters, alg = "CTR", NEW w, NEW e, NEW m, Right(w, e, m),
         w.enc % BLOCK = 0, NEW n \in Nat, w.iv + n < WORD,
         NEW b, NEW y \in 0 .. BLOCK - 1, b = (n * BLOCK) + y,
         NEW d, d = Decrypted(w, b, n)
  PROVE  Right(d, e, m + b)
<1>1. w.pos = w.iv * BLOCK /\ w.iv \in Nat /\ w.enc \in Nat /\ w.iv * BLOCK \in Nat
  BY AtBlock, Constants
<1>2. b \in Nat
  BY Products, Constants
<1>3. Completes(w.enc, b, n, y)
  BY <1>1, <1>2 DEF Completes
<1>4. (w.enc + b) \div BLOCK = (w.enc \div BLOCK) + n
  BY <1>3, MoreBytes
<1>5. w.pos + b < WORD * BLOCK
  BY <1>1, BeforeEnd
<1>6. QED
  BY <1>1, <1>2, <1>4, <1>5, DecryptedRight

LEMMA AroundRight ==
  ASSUME InPlace, NEW bytes \in 0 .. WORD - 1, Leading(enc) <= bytes,
         \/ iv = 0 /\ FullBlocks(bytes, enc) + PartialBlocks(enc) < WORD
         \/ iv # 0 /\ enc % BLOCK = 0 /\ bytes % BLOCK = 0
  PROVE  Right(DecryptAround(Work, bytes), enc, bytes)
<1> DEFINE w == Work
           full == FullBlocks(bytes, w.enc)
           lead == Leading(w.enc)
           w1 == IF lead > 0 THEN DecryptedAndSet(w, lead, 1) ELSE w
           n == Min({BlocksBeforeRollover(w.iv), full})
           m == n * BLOCK
           w2 == IF n > 0 THEN DecryptedAndSet(w1, m, n) ELSE w1
           done == lead + m
           d == IF done < bytes THEN Decrypted(w2, bytes - done, full - n) ELSE w2
           part == PartialBlocks(enc)
           before == BlocksBeforeRollover(iv)
           y == (bytes - lead) % BLOCK
<1>1. DecryptAround(w, bytes) = d
  BY DEF DecryptAround
<1>2. w.iv = iv /\ w.enc = enc
  BY WorkWrote DEF InPlace
<1>3. /\ start \in Counters /\ alg = "CTR" /\ enc \in Nat /\ TypeOK
      /\ iv \in 0 .. WORD - 1 /\ iv \in Nat /\ BLOCK \in Nat \ {0} /\ WORD \in Nat \ {0}
  BY Constants DEF TypeOK, InPlace
<1>4. /\ n \in Nat /\ n <= full /\ n <= before /\ (n = before \/ n = full)
      /\ full - n \in Nat /\ m \in Nat /\ lead \in Nat /\ done <= bytes
  BY <1>2, <1>3, BlocksFit
<1>5. /\ before \in Nat
      /\ iv = 0 => before = 0
      /\ iv # 0 => before = WORD - iv
  BY <1>3, BeforeRollover
<1>6. /\ Right(w1, enc, lead) /\ w1.enc % BLOCK = 0
      /\ w1.iv = (iv + part) % WORD
  BY <1>2, LeadRight
<1>7. /\ full \in Nat /\ bytes - lead \in Nat /\ y \in 0 .. BLOCK - 1
      /\ bytes - lead = (full * BLOCK) + y
  BY <1>2, <1>3, Fulls
<1>8. part \in {0, 1} /\ (enc % BLOCK = 0 => lead = 0 /\ part = 0)
  BY <1>2, <1>3, Leads
<1>9. full < WORD
  <2>1. full <= bytes - lead
    <3> DEFINE rest == bytes - lead
    <3>1. y \in Nat /\ rest \in Nat /\ rest = (full * BLOCK) + y
      BY <1>3, <1>7
    <3> HIDE DEF rest, full, y
    <3>2. full <= rest
      BY <1>7, <3>1, FewerThanBytes
    <3>3. QED
      BY <3>2 DEF rest
  <2>2. QED
    BY <1>3, <1>4, <1>7, <2>1
<1>10. iv # 0 => y = 0 /\ lead = 0 /\ part = 0 /\ w1.iv = iv
  <2>1. SUFFICES ASSUME iv # 0
                 PROVE  y = 0 /\ lead = 0 /\ part = 0 /\ w1.iv = iv
    OBVIOUS
  <2>2. enc % BLOCK = 0 /\ bytes % BLOCK = 0
    BY <2>1
  <2>3. lead = 0 /\ part = 0
    BY <1>8, <2>2
  <2>4. bytes - lead = bytes
    BY <1>3, <2>3
  <2>5. (iv + 0) % WORD = iv
    <3>1. iv + 0 = iv /\ iv % WORD = iv
      BY <1>3, SmallRemainder
    <3>2. QED
      BY <3>1
  <2>6. QED
    BY <1>6, <2>2, <2>3, <2>4, <2>5
<1>11. iv = 0 => n = 0 /\ w1.iv = part /\ part + full < WORD
  <2>1. SUFFICES ASSUME iv = 0
                 PROVE  n = 0 /\ w1.iv = part /\ part + full < WORD
    OBVIOUS
  <2>2. n = 0
    BY <1>4, <1>5, <2>1
  <2>3. full + part < WORD
    BY <1>2, <2>1
  <2>4. part \in 0 .. WORD - 1 /\ iv + part = part /\ part + full < WORD
    BY <1>3, <1>7, <1>8, <2>1, <2>3
  <2>5. part % WORD = part
    BY <1>3, <2>4, SmallRemainder
  <2>6. QED
    BY <1>6, <2>2, <2>4, <2>5
<1>12. n = 0 => m = 0
  BY <1>3
<1>13. m = n * BLOCK /\ (full - n) * BLOCK = (full * BLOCK) - m /\ full * BLOCK \in Nat
  <2> DEFINE z == full - n
  <2>1. z \in Nat /\ z + n = full
    BY <1>4, <1>7
  <2> HIDE DEF full, n, z
  <2>2. (z + n) * BLOCK = (z * BLOCK) + (n * BLOCK) /\ z * BLOCK \in Nat /\ n * BLOCK \in Nat
    BY <1>3, <1>4, <2>1, Products
  <2>3. (z + n) * BLOCK = full * BLOCK /\ m = n * BLOCK
    BY <2>1
  <2>4. full * BLOCK \in Nat /\ z * BLOCK = (full * BLOCK) - m
    BY <1>4, <2>2, <2>3
  <2>5. QED
    BY <2>3, <2>4 DEF z
<1> HIDE DEF w, full, lead, n, m, w1, part, before, y
<1>14. Right(w2, enc, done) /\ w2.enc % BLOCK = 0 /\ w2.iv = (w1.iv + n) % WORD
  <2>1. CASE n > 0
    <3>1. iv # 0 /\ w1.iv + n <= WORD
      BY <1>3, <1>4, <1>5, <1>10, <1>11, <2>1
    <3>2. w2 = DecryptedAndSet(w1, n * BLOCK, n)
      BY <1>13, <2>1
    <3> HIDE DEF w2, done
    <3>3. /\ Right(w2, enc, lead + (n * BLOCK)) /\ w2.enc % BLOCK = 0
          /\ w2.iv = (w1.iv + n) % WORD
      BY <1>3, <1>4, <1>6, <3>1, <3>2, WholeRight
    <3>4. QED
      BY <1>13, <3>3 DEF done
  <2>2. CASE ~(n > 0)
    <3>1. n = 0 /\ w2 = w1 /\ done = lead
      BY <1>4, <1>12, <2>2
    <3>2. w1.iv \in 0 .. WORD - 1
      BY <1>6 DEF Right, Wrote
    <3>3. (w1.iv + 0) % WORD = w1.iv
      <4>1. w1.iv + 0 = w1.iv /\ w1.iv % WORD = w1.iv
        BY <1>3, <3>2, SmallRemainder
      <4>2. QED
        BY <4>1
    <3>4. QED
      BY <1>6, <3>1, <3>3
  <2>3. QED
    BY <2>1, <2>2
<1> HIDE DEF w2
<1>15. CASE done < bytes
  <2> DEFINE b == bytes - done
             k == full - n
  <2>1. d = Decrypted(w2, b, k)
    BY <1>15
  <2>2. b = (k * BLOCK) + y /\ b \in Nat /\ k \in Nat /\ done + b = bytes /\ b > 0
    BY <1>3, <1>4, <1>7, <1>13, <1>15
  <2>3. w2.iv + k < WORD
    <3>1. CASE iv = 0
      <4>1. n = 0 /\ w1.iv = part /\ part + full < WORD
        BY <1>11, <3>1
      <4>2. part \in 0 .. WORD - 1 /\ part + 0 = part /\ k = full
        BY <1>3, <1>7, <1>8, <4>1
      <4>3. part % WORD = part
        BY <1>3, <4>2, SmallRemainder
      <4>4. w2.iv = part
        BY <1>14, <4>1, <4>2, <4>3
      <4>5. QED
        BY <4>1, <4>2, <4>4
    <3>2. CASE iv # 0
      <4>1. n = before
        <5>1. SUFFICES ASSUME n = full PROVE FALSE
          BY <1>4
        <5>2. k = 0 /\ y = 0
          BY <1>7, <1>10, <3>2, <5>1
        <5>3. 0 * BLOCK = 0
          BY <1>3
        <5>4. b = 0
          BY <2>2, <5>2, <5>3
        <5>5. QED
          BY <2>2, <5>4
      <4>2. w1.iv + n = WORD
        BY <1>3, <1>5, <1>10, <3>2, <4>1
      <4>3. WORD % WORD = 0
        <5>1. ((1 * WORD) + 0) % WORD = 0
          BY <1>3, QuotientIs
        <5>2. (1 * WORD) + 0 = WORD
          BY <1>3
        <5>3. QED
          BY <5>1, <5>2
      <4>4. w2.iv = 0
        BY <1>14, <4>2, <4>3
      <4>5. k <= full
        BY <1>4, <1>7
      <4>6. QED
        BY <1>3, <1>7, <1>9, <2>2, <4>4, <4>5
    <3>3. QED
      BY <3>1, <3>2
  <2> HIDE DEF b, k, done, d
  <2>4. Right(d, enc, done + b)
    BY <1>3, <1>7, <1>14, <2>1, <2>2, <2>3, LeftRight
  <2>5. QED
    BY <1>1, <2>2, <2>4 DEF w
<1>16. CASE ~(done < bytes)
  <2>1. d = w2 /\ done = bytes
    BY <1>3, <1>4, <1>16
  <2>2. QED
    BY <1>1, <1>14, <2>1 DEF w
<1>17. QED
  BY <1>15, <1>16

(* Either no rollover is ahead, or blocks are decrypted as a whole. *)
LEMMA DecryptRight ==
  ASSUME InPlace, NEW bytes \in 0 .. WORD - 1, bytes = 0 \/ Leading(enc) <= bytes,
         \/ bytes = 0
         \/ iv + (FullBlocks(bytes, enc) + PartialBlocks(enc)) < WORD
         \/ enc % BLOCK = 0 /\ bytes % BLOCK = 0
  PROVE  Right(decrypt(bytes), enc, bytes)
<1> DEFINE k == FullBlocks(bytes, enc) + PartialBlocks(enc)
<1>1. CASE bytes = 0
  BY <1>1, WorkRight DEF decrypt
<1>2. CASE bytes # 0
  <2>1. /\ TypeOK /\ start \in Counters /\ alg = "CTR" /\ enc \in Nat
        /\ iv \in 0 .. WORD - 1 /\ iv \in Nat /\ WORD \in Nat \ {0} /\ Leading(enc) <= bytes
    BY <1>2, Constants DEF TypeOK, InPlace
  <2>2. FullBlocks(bytes, enc) \in Nat /\ PartialBlocks(enc) \in {0, 1} /\ k \in Nat
    BY <2>1, Fulls, Leads
  <2>3. /\ BlocksBeforeRollover(iv) \in Nat
        /\ iv = 0 => BlocksBeforeRollover(iv) = 0
        /\ iv # 0 => BlocksBeforeRollover(iv) = WORD - iv
    BY <2>1, BeforeRollover
  <2>4. enc % BLOCK = 0 => k = FullBlocks(bytes, enc)
    BY <2>1, <2>2, Leads
  <2>5. enc % BLOCK = 0 => k < WORD
    <3>1. SUFFICES ASSUME enc % BLOCK = 0 PROVE k < WORD
      OBVIOUS
    <3> DEFINE rest == bytes - Leading(enc)
               y == rest % BLOCK
    <3>2. rest \in Nat /\ y \in Nat /\ rest = (k * BLOCK) + y
      <4>1. rest \in Nat /\ y \in 0 .. BLOCK - 1 /\ rest = (FullBlocks(bytes, enc) * BLOCK) + y
        BY <2>1, Fulls
      <4>2. BLOCK \in Nat
        BY SizesAssumption
      <4>3. QED
        BY <2>4, <3>1, <4>1, <4>2
    <3>3. rest < WORD
      <4>1. Leading(enc) = 0
        BY <2>1, <3>1, Leads
      <4>2. QED
        BY <2>1, <4>1
    <3> HIDE DEF rest, y, k
    <3>4. k <= rest
      BY <2>2, <3>2, FewerThanBytes
    <3>5. QED
      BY <2>1, <2>2, <3>2, <3>3, <3>4
  <2>6. CASE counter_rollover(bytes, enc, iv)
    <3>1. BlocksBeforeRollover(iv) <= k
      BY <2>6 DEF counter_rollover
    <3> HIDE DEF k
    <3>2. \/ iv = 0 /\ k < WORD
          \/ iv # 0 /\ enc % BLOCK = 0 /\ bytes % BLOCK = 0
      <4>1. CASE iv = 0
        BY <1>2, <2>1, <2>2, <2>5, <4>1 DEF k
      <4>2. CASE iv # 0
        <5>1. ~(iv + k < WORD)
          BY <2>1, <2>2, <2>3, <3>1, <4>2
        <5>2. QED
          BY <1>2, <4>2, <5>1 DEF k
      <4>3. QED
        BY <4>1, <4>2
    <3>3. Right(DecryptAround(Work, bytes), enc, bytes)
      BY <2>1, <3>2, AroundRight DEF k
    <3>4. QED
      BY <1>2, <2>6, <3>3 DEF decrypt
  <2>7. CASE ~counter_rollover(bytes, enc, iv)
    <3>1. ~(BlocksBeforeRollover(iv) <= k)
      BY <2>1, <2>7 DEF counter_rollover
    <3> HIDE DEF k
    <3>2. iv + k < WORD
      BY <2>1, <2>2, <2>3, <3>1
    <3>3. Right(DecryptRest(Work, bytes), enc, bytes)
      BY <2>1, <3>2, RestRight DEF k
    <3>4. QED
      BY <1>2, <2>7, <3>3 DEF decrypt
  <2>8. QED
    BY <2>6, <2>7
<1>3. QED
  BY <1>1, <1>2

-----------------------------------------------------------------------------
(* Which bytes of a protected range are encrypted                            *)

LEMMA NoneBefore ==
  ASSUME NEW n
  PROVE  EncryptedBefore(n, 0) = 0
<1>1. {i \in 0 .. 0 - 1 : IsEncrypted(n, i)} = {}
  OBVIOUS
<1>2. QED
  BY <1>1, FS_EmptySet DEF EncryptedBefore

LEMMA EncryptedFinite ==
  ASSUME NEW n, NEW j \in Nat
  PROVE  /\ IsFiniteSet({i \in 0 .. j - 1 : IsEncrypted(n, i)})
         /\ EncryptedBefore(n, j) \in Nat
<1> DEFINE S == {i \in 0 .. j - 1 : IsEncrypted(n, i)}
<1>1. IsFiniteSet(0 .. j - 1)
  BY FS_Interval
<1>2. S \in SUBSET (0 .. j - 1)
  OBVIOUS
<1>3. IsFiniteSet(S)
  BY <1>1, <1>2, FS_Subset
<1> HIDE DEF S
<1>4. Cardinality(S) \in Nat
  BY <1>3, FS_CardinalityType
<1>5. QED
  BY <1>3, <1>4 DEF S, EncryptedBefore

LEMMA EncryptedNext ==
  ASSUME NEW n, NEW j \in Nat, NEW m \in Nat,
         \A i \in 0 .. m - 1 : IsEncrypted(n, j + i)
  PROVE  EncryptedBefore(n, j + m) = EncryptedBefore(n, j) + m
<1> DEFINE S == {i \in 0 .. j - 1 : IsEncrypted(n, i)}
           T == j .. (j + m) - 1
           U == {i \in 0 .. (j + m) - 1 : IsEncrypted(n, i)}
<1>1. \A i \in T : IsEncrypted(n, i)
  <2>1. SUFFICES ASSUME NEW i \in T PROVE IsEncrypted(n, i)
    OBVIOUS
  <2> DEFINE k == i - j
  <2>2. k \in 0 .. m - 1 /\ j + k = i
    OBVIOUS
  <2> HIDE DEF k
  <2>3. QED
    BY <2>2
<1>2. U = S \cup T
  <2>1. \A i : i \in 0 .. (j + m) - 1 <=> i \in 0 .. j - 1 \/ i \in T
    OBVIOUS
  <2> HIDE DEF T
  <2>2. QED
    BY <1>1, <2>1
<1>3. S \cap T = {}
  OBVIOUS
<1>4. IsFiniteSet(T) /\ Cardinality(T) = m
  BY FS_Interval
<1>5. IsFiniteSet(S) /\ Cardinality(S) = EncryptedBefore(n, j) /\ EncryptedBefore(n, j) \in Nat
  BY EncryptedFinite DEF EncryptedBefore
<1> HIDE DEF S, T
<1>6. Cardinality(S \cup T) = Cardinality(S) + Cardinality(T) - Cardinality(S \cap T)
  BY <1>4, <1>5, FS_Union
<1>7. Cardinality(S \cap T) = 0
  BY <1>3, FS_EmptySet
<1>8. Cardinality(S \cup T) = EncryptedBefore(n, j) + m
  BY <1>4, <1>5, <1>6, <1>7
<1>9. Cardinality(U) = EncryptedBefore(n, j + m)
  BY DEF EncryptedBefore
<1> HIDE DEF U
<1>10. QED
  BY <1>2, <1>8, <1>9

LEMMA NoneNext ==
  ASSUME NEW n, NEW j \in Nat, NEW m \in Nat,
         \A i \in 0 .. m - 1 : ~IsEncrypted(n, j + i)
  PROVE  EncryptedBefore(n, j + m) = EncryptedBefore(n, j)
<1>1. ASSUME NEW i \in 0 .. (j + m) - 1, IsEncrypted(n, i)
      PROVE  i \in 0 .. j - 1
  <2>1. SUFFICES ASSUME i >= j PROVE FALSE
    OBVIOUS
  <2> DEFINE k == i - j
  <2>2. k \in 0 .. m - 1 /\ j + k = i
    BY <2>1
  <2> HIDE DEF k
  <2>3. QED
    BY <1>1, <2>2
<1>2. \A i \in 0 .. j - 1 : i \in 0 .. (j + m) - 1
  OBVIOUS
<1>3. {i \in 0 .. (j + m) - 1 : IsEncrypted(n, i)} = {i \in 0 .. j - 1 : IsEncrypted(n, i)}
  BY <1>1, <1>2
<1>4. QED
  BY <1>3 DEF EncryptedBefore

(* Without a pattern: all of it for AES-CTR, its whole blocks for AES-CBC *)
LEMMA WithoutPattern ==
  ASSUME TypeOK, crypt = 0, NEW n \in Nat
  PROVE  /\ EncryptedSize(n) \in Nat /\ EncryptedSize(n) <= n
         /\ \A j \in 0 .. n - 1 : IsEncrypted(n, j) <=> j < EncryptedSize(n)
         /\ \A j \in 0 .. EncryptedSize(n) : EncryptedBefore(n, j) = j
         /\ EncryptedBefore(n, n) = EncryptedSize(n)
         /\ alg = "CBC" => EncryptedSize(n) % BLOCK = 0
         /\ alg = "CTR" => EncryptedSize(n) = n
<1> DEFINE size == EncryptedSize(n)
           q == n \div BLOCK
           r == n % BLOCK
<1>1. BLOCK \in Nat \ {0} /\ q \in Nat /\ r \in 0 .. BLOCK - 1 /\ n = (q * BLOCK) + r
  BY InBlocks
<1>2. q * BLOCK \in Nat /\ BLOCK * q = q * BLOCK
  BY <1>1, Products
<1>3. alg \in {"CTR", "CBC"}
  BY DEF TypeOK
<1>4. alg = "CBC" => size = q * BLOCK
  <2>1. alg = "CBC" => size = n - r
    BY DEF EncryptedSize
  <2> HIDE DEF size, q, r
  <2>2. QED
    BY <1>1, <1>2, <2>1
<1>5. alg = "CTR" => size = n
  BY <1>3 DEF EncryptedSize
<1>6. size \in Nat /\ size <= n
  <2> HIDE DEF size, q, r
  <2>1. QED
    BY <1>1, <1>2, <1>3, <1>4, <1>5
<1>7. ASSUME NEW j \in Nat
      PROVE  IsEncrypted(n, j) <=> (alg = "CTR" \/ j < size)
  <2>1. IsEncrypted(n, j) <=> (alg = "CTR" \/ j < BLOCK * q)
    BY DEF IsEncrypted
  <2> HIDE DEF size, q
  <2>2. QED
    BY <1>2, <1>3, <1>4, <2>1
<1>8. alg = "CBC" => size % BLOCK = 0
  <2>1. 0 \in 0 .. BLOCK - 1
    BY <1>1
  <2> HIDE DEF q, r, size
  <2>2. ((q * BLOCK) + 0) % BLOCK = 0
    BY <1>1, <2>1, QuotientIs
  <2>3. (q * BLOCK) + 0 = q * BLOCK
    BY <1>2
  <2>4. QED
    BY <1>4, <2>2, <2>3
<1> HIDE DEF size, q, r
<1>9. \A j \in 0 .. n - 1 : IsEncrypted(n, j) <=> j < size
  BY <1>5, <1>7
<1>10. ASSUME NEW j \in 0 .. size
       PROVE  EncryptedBefore(n, j) = j
  <2>1. \A i \in 0 .. j - 1 : IsEncrypted(n, 0 + i)
    BY <1>6, <1>7
  <2>2. j \in Nat /\ 0 \in Nat
    OBVIOUS
  <2>3. EncryptedBefore(n, 0 + j) = EncryptedBefore(n, 0) + j
    BY <2>1, <2>2, EncryptedNext
  <2>4. EncryptedBefore(n, 0) = 0 /\ 0 + j = j
    BY <2>2, NoneBefore
  <2>5. QED
    BY <2>3, <2>4
<1>11. EncryptedBefore(n, n) = size
  <2> DEFINE m == n - size
  <2>1. m \in Nat /\ size + m = n /\ size \in 0 .. size
    BY <1>6
  <2>2. \A i \in 0 .. m - 1 : ~IsEncrypted(n, size + i)
    BY <1>3, <1>5, <1>6, <1>9
  <2> HIDE DEF m
  <2>3. EncryptedBefore(n, size + m) = EncryptedBefore(n, size)
    BY <1>6, <2>1, <2>2, NoneNext
  <2>4. QED
    BY <1>10, <2>1, <2>3
<1>12. QED
  BY <1>5, <1>6, <1>8, <1>9, <1>10, <1>11 DEF size

-----------------------------------------------------------------------------
(* The stripes of a pattern                                                  *)

LEMMA StripeIs ==
  ASSUME NEW b \in Nat, NEW n \in Nat
  PROVE  \E k \in Nat :
           /\ Stripe(b, n) = k * BLOCK
           /\ k * BLOCK \in Nat /\ k * BLOCK <= n
           /\ k <= b /\ k <= n \div BLOCK
           /\ k = b \/ n - (k * BLOCK) < BLOCK
<1> DEFINE q == n \div BLOCK
           r == n % BLOCK
<1>1. BLOCK \in Nat \ {0} /\ q \in Nat /\ r \in 0 .. BLOCK - 1 /\ n = (q * BLOCK) + r
  BY InBlocks
<1>2. q * BLOCK \in Nat /\ BLOCK * q = q * BLOCK /\ b * BLOCK \in Nat
  BY <1>1, Products
<1>3. Stripe(b, n) = Min({b * BLOCK, BLOCK * q})
  BY DEF Stripe
<1> HIDE DEF q, r
<1>4. Stripe(b, n) = Min({b * BLOCK, q * BLOCK})
  BY <1>2, <1>3
<1> DEFINE m == Min({b * BLOCK, q * BLOCK})
<1>5. /\ m = b * BLOCK \/ m = q * BLOCK
      /\ m <= b * BLOCK /\ m <= q * BLOCK
  BY <1>2, MinPair
<1> HIDE DEF m
<1>6. CASE b <= q
  <2>1. b * BLOCK <= q * BLOCK
    BY <1>1, <1>6, LessProduct
  <2>2. m = b * BLOCK
    BY <1>2, <1>5, <2>1
  <2>3. b * BLOCK <= n
    BY <1>1, <1>2, <2>1
  <2>4. QED
    BY <1>2, <1>4, <1>6, <2>2, <2>3 DEF q, m
<1>7. CASE q < b
  <2>1. q * BLOCK <= b * BLOCK /\ q <= b
    BY <1>1, <1>7, LessProduct
  <2>2. m = q * BLOCK
    BY <1>2, <1>5, <2>1
  <2>3. q * BLOCK <= n /\ n - (q * BLOCK) < BLOCK /\ q <= q
    BY <1>1, <1>2
  <2>4. Stripe(b, n) = q * BLOCK
    BY <1>4, <2>2 DEF m
  <2>5. QED
    BY <1>1, <1>2, <2>1, <2>3, <2>4 DEF q
<1>8. QED
  BY <1>1, <1>6, <1>7

(* Blocks of a period of the pattern *)
LEMMA InPeriod ==
  ASSUME NEW p \in Nat \ {0}, NEW a \in Nat, a % (BLOCK * p) = 0,
         NEW i \in Nat, i < p * BLOCK
  PROVE  /\ a % BLOCK = 0
         /\ (a + i) \div BLOCK = (a \div BLOCK) + (i \div BLOCK)
         /\ ((a + i) \div BLOCK) % p = i \div BLOCK
<1> DEFINE c == BLOCK * p
           q == a \div c
           t == q * p
           u == i \div BLOCK
           v == i % BLOCK
<1>1. BLOCK \in Nat \ {0} /\ u \in Nat /\ v \in 0 .. BLOCK - 1 /\ i = (u * BLOCK) + v
  BY InBlocks
<1>2. c = p * BLOCK /\ c \in Nat \ {0}
  <2>1. BLOCK \in Nat \ {0}
    BY SizesAssumption
  <2>2. QED
    BY <2>1, Z3
<1>3. q \in Nat /\ a = q * c
  <2>1. a % c = 0
    OBVIOUS
  <2> HIDE DEF c
  <2>2. q \in Nat /\ a = (q * c) + (a % c)
    BY <1>2, QuotientOf
  <2>3. q * c \in Nat
    BY <1>2, <2>2, Products
  <2>4. QED
    BY <2>1, <2>2, <2>3
<1>4. t \in Nat /\ q * (p * BLOCK) = t * BLOCK
  BY <1>1, <1>3, Z3
<1>5. a = t * BLOCK
  BY <1>2, <1>3, <1>4
<1> HIDE DEF c, q, t, u, v
<1>6. t * BLOCK \in Nat /\ u * BLOCK \in Nat /\ (t + u) * BLOCK = (t * BLOCK) + (u * BLOCK)
  BY <1>1, <1>4, Products
<1>7. a % BLOCK = 0 /\ a \div BLOCK = t
  <2>1. 0 \in 0 .. BLOCK - 1
    BY <1>1
  <2>2. ((t * BLOCK) + 0) % BLOCK = 0 /\ ((t * BLOCK) + 0) \div BLOCK = t
    BY <1>1, <1>4, <2>1, QuotientIs
  <2>3. (t * BLOCK) + 0 = a
    BY <1>5, <1>6
  <2>4. QED
    BY <2>2, <2>3
<1>8. (a + i) \div BLOCK = t + u
  <2>1. t + u \in Nat
    BY <1>1, <1>4
  <2>2. a + i = ((t + u) * BLOCK) + v
    BY <1>1, <1>5, <1>6
  <2>3. (((t + u) * BLOCK) + v) \div BLOCK = t + u
    BY <1>1, <2>1, QuotientIs
  <2>4. QED
    BY <2>2, <2>3
<1>9. u < p
  <2>1. p * BLOCK \in Nat
    BY <1>1, Products
  <2>2. u * BLOCK < p * BLOCK
    BY <1>1, <1>6, <2>1
  <2>3. QED
    BY <1>1, <2>2, Cancel
<1>10. (t + u) % p = u
  <2>1. u \in 0 .. p - 1
    BY <1>1, <1>9
  <2>2. ((q * p) + u) % p = u
    BY <1>3, <2>1, QuotientIs
  <2>3. QED
    BY <2>2 DEF t
<1>11. QED
  BY <1>7, <1>8, <1>10 DEF u

LEMMA WholeBlocks ==
  ASSUME NEW a \in Nat, NEW i \in Nat, NEW l \in Nat, a % BLOCK = 0
  PROVE  a + i < BLOCK * ((a + l) \div BLOCK) <=> i < (l \div BLOCK) * BLOCK
<1> DEFINE t == a \div BLOCK
           q == l \div BLOCK
           r == l % BLOCK
<1>1. BLOCK \in Nat \ {0} /\ q \in Nat /\ r \in 0 .. BLOCK - 1 /\ l = (q * BLOCK) + r
  BY InBlocks
<1>2. t \in Nat /\ a = (t * BLOCK) + 0
  BY InBlocks
<1>3. Completes(a, l, q, r)
  <2>1. (a % BLOCK) + l = (q * BLOCK) + r
    BY <1>1
  <2> HIDE DEF q, r
  <2>2. QED
    BY <1>1, <2>1 DEF Completes
<1>4. (a + l) \div BLOCK = t + q
  <2> HIDE DEF q, r
  <2>1. QED
    BY <1>3, MoreBytes
<1> DEFINE z == t + q
<1> HIDE DEF t, q, r
<1>5. z \in Nat /\ BLOCK * z = z * BLOCK /\ z * BLOCK = (t * BLOCK) + (q * BLOCK)
      /\ t * BLOCK \in Nat /\ q * BLOCK \in Nat
  BY <1>1, <1>2, Products
<1>6. BLOCK * ((a + l) \div BLOCK) = a + (q * BLOCK)
  BY <1>2, <1>4, <1>5
<1>7. QED
  BY <1>5, <1>6 DEF q

LEMMA EncryptedInPattern ==
  ASSUME TypeOK, crypt > 0, NEW a \in Nat, NEW l \in Nat,
         a % (BLOCK * (crypt + skip)) = 0,
         NEW i \in Nat, i < (crypt + skip) * BLOCK
  PROVE  IsEncrypted(a + l, a + i) <=> i < crypt * BLOCK /\ i < (l \div BLOCK) * BLOCK
<1> DEFINE p == crypt + skip
           u == i \div BLOCK
           v == i % BLOCK
<1>1. crypt \in Nat \ {0} /\ skip \in Nat /\ p \in Nat \ {0} /\ p * BLOCK \in Nat
  <2>1. crypt \in Nat /\ skip \in Nat
    BY PatternIs DEF TypeOK
  <2>2. p \in Nat \ {0}
    BY <2>1
  <2>3. BLOCK \in Nat
    BY SizesAssumption
  <2>4. p * BLOCK \in Nat
    BY <2>2, <2>3, Products
  <2>5. QED
    BY <2>1, <2>2, <2>4
<1>2. BLOCK \in Nat \ {0} /\ u \in Nat /\ v \in 0 .. BLOCK - 1 /\ i = (u * BLOCK) + v
  BY InBlocks
<1>3. a % BLOCK = 0 /\ ((a + i) \div BLOCK) % p = u
  BY <1>1, InPeriod
<1>4. IsEncrypted(a + l, a + i) <=>
        /\ a + i < BLOCK * ((a + l) \div BLOCK)
        /\ ((a + i) \div BLOCK) % p < crypt
  BY <1>1 DEF IsEncrypted
<1>5. a + i < BLOCK * ((a + l) \div BLOCK) <=> i < (l \div BLOCK) * BLOCK
  BY <1>3, WholeBlocks
<1> HIDE DEF u, v, p
<1>6. u < crypt <=> i < crypt * BLOCK
  <2>1. u * BLOCK \in Nat /\ crypt * BLOCK \in Nat /\ 1 * BLOCK = BLOCK
    BY <1>1, <1>2, Products
  <2>2. ASSUME u < crypt PROVE i < crypt * BLOCK
    <3>1. u + 1 \in Nat /\ u + 1 <= crypt /\ 1 \in Nat
      BY <1>1, <1>2, <2>2
    <3>2. (u + 1) * BLOCK = (u * BLOCK) + (1 * BLOCK) /\ (u + 1) * BLOCK <= crypt * BLOCK
      BY <1>1, <1>2, <3>1, Products, LessProduct
    <3>3. QED
      BY <1>2, <2>1, <3>2
  <2>3. ASSUME i < crypt * BLOCK PROVE u < crypt
    <3>1. u * BLOCK < crypt * BLOCK
      BY <1>2, <2>1, <2>3
    <3>2. QED
      BY <1>1, <1>2, <3>1, Cancel
  <2>4. QED
    BY <2>2, <2>3
<1>7. QED
  BY <1>3, <1>4, <1>5, <1>6

(* The remainder of less than a block is in the clear. *)
LEMMA RemainderIsClear ==
  ASSUME TypeOK, crypt > 0, NEW a \in Nat, NEW l \in Nat, l < BLOCK, a % BLOCK = 0,
         NEW i \in Nat
  PROVE  ~IsEncrypted(a + l, a + i)
<1>1. a + i < BLOCK * ((a + l) \div BLOCK) <=> i < (l \div BLOCK) * BLOCK
  BY WholeBlocks
<1>2. BLOCK \in Nat \ {0} /\ l \in 0 .. BLOCK - 1
  BY SizesAssumption
<1>3. l \div BLOCK = 0
  BY <1>2, SmallRemainder
<1>4. 0 * BLOCK = 0
  BY <1>2
<1>5. ~(a + i < BLOCK * ((a + l) \div BLOCK))
  BY <1>1, <1>3, <1>4
<1>6. crypt # 0
  BY PatternIs DEF TypeOK
<1>7. QED
  BY <1>5, <1>6 DEF IsEncrypted

(* A stripe: x encrypted bytes, s skipped ones, and then either a period is  *)
(* complete or less than a block is left.                                    *)
LEMMA StripeEncrypted ==
  ASSUME TypeOK, crypt > 0, NEW a \in Nat, a % (BLOCK * (crypt + skip)) = 0,
         NEW x, x = Stripe(crypt, left), NEW s, s = Skipped(left - x)
  PROVE  /\ x \in Nat /\ s \in Nat /\ x <= left /\ x + s <= left
         /\ x % BLOCK = 0 /\ (a + (x + s)) % BLOCK = 0
         /\ \A i \in 0 .. x - 1 : IsEncrypted(a + left, a + i)
         /\ \A i \in 0 .. s - 1 : ~IsEncrypted(a + left, (a + x) + i)
         /\ \/ left - (x + s) < BLOCK
            \/ (a + (x + s)) % (BLOCK * (crypt + skip)) = 0
<1> DEFINE p == crypt + skip
           l == left - x
<1>1. /\ crypt \in Nat \ {0} /\ skip \in Nat /\ p \in Nat \ {0} /\ left \in Nat
      /\ BLOCK \in Nat \ {0}
  BY PatternIs, SizesAssumption DEF TypeOK
<1>2. PICK k \in Nat : /\ x = k * BLOCK
                       /\ k * BLOCK \in Nat /\ k * BLOCK <= left
                       /\ k <= crypt /\ k <= left \div BLOCK
                       /\ k = crypt \/ left - (k * BLOCK) < BLOCK
  BY <1>1, StripeIs
<1>3. x \in Nat /\ x <= left /\ l \in Nat
  BY <1>1, <1>2
<1>4. PICK j \in Nat : /\ Stripe(skip, l) = j * BLOCK
                       /\ j * BLOCK \in Nat /\ j * BLOCK <= l
                       /\ j <= skip /\ j <= l \div BLOCK
                       /\ j = skip \/ l - (j * BLOCK) < BLOCK
  BY <1>1, <1>3, StripeIs
<1>5. s = j * BLOCK
  BY <1>4 DEF Skipped
<1>6. s \in Nat /\ s <= l /\ x + s <= left /\ left - (x + s) = l - s
  BY <1>1, <1>3, <1>4, <1>5
<1>7. /\ k * BLOCK <= crypt * BLOCK /\ crypt * BLOCK \in Nat
      /\ k * BLOCK <= (left \div BLOCK) * BLOCK /\ (left \div BLOCK) * BLOCK \in Nat
      /\ j * BLOCK <= skip * BLOCK /\ skip * BLOCK \in Nat
      /\ p * BLOCK = (crypt * BLOCK) + (skip * BLOCK)
  <2>1. left \div BLOCK \in Nat
    BY <1>1, InBlocks
  <2> HIDE DEF p
  <2>2. QED
    BY <1>1, <1>2, <1>4, <2>1, LessProduct, Products DEF p
<1>8. a % BLOCK = 0
  <2>1. 0 < p * BLOCK
    <3>1. BLOCK <= crypt * BLOCK
      <4>1. 1 <= crypt /\ 1 \in Nat /\ 1 * BLOCK = BLOCK
        BY <1>1
      <4>2. QED
        BY <1>1, <4>1, LessProduct
    <3>2. QED
      BY <1>1, <1>7, <3>1
  <2> HIDE DEF p
  <2>2. 0 \in Nat /\ a % (BLOCK * p) = 0
    BY DEF p
  <2>3. QED
    BY <1>1, <2>1, <2>2, InPeriod
<1>9. x % BLOCK = 0 /\ (a + x) % BLOCK = 0 /\ ((a + x) + s) % BLOCK = 0
  <2>1. (0 + (k * BLOCK)) % BLOCK = 0
    <3>1. 0 \in 0 .. BLOCK - 1 /\ 0 + (k * BLOCK) = (k * BLOCK) + 0
      BY <1>1, <1>2
    <3>2. QED
      BY <1>1, <3>1, QuotientIs
  <2>2. (a + (k * BLOCK)) % BLOCK = 0
    BY <1>8, WholeCounted
  <2>3. a + x \in Nat /\ (a + x) % BLOCK = 0
    BY <1>2, <1>3, <2>2
  <2>4. ((a + x) + (j * BLOCK)) % BLOCK = 0
    BY <2>3, WholeCounted
  <2>5. 0 + (k * BLOCK) = x
    BY <1>2
  <2>6. QED
    BY <1>5, <2>1, <2>3, <2>4, <2>5
<1>10. (a + x) + s = a + (x + s)
  BY <1>3, <1>6
<1>11. ASSUME NEW i \in 0 .. x - 1
       PROVE  IsEncrypted(a + left, a + i)
  <2>1. i \in Nat /\ i < crypt * BLOCK /\ i < (left \div BLOCK) * BLOCK /\ i < p * BLOCK
    BY <1>2, <1>3, <1>7
  <2>2. QED
    BY <1>1, <2>1, EncryptedInPattern
<1>12. ASSUME NEW i \in 0 .. s - 1
       PROVE  ~IsEncrypted(a + left, (a + x) + i)
  <2>1. k = crypt
    <3>1. SUFFICES ASSUME l < BLOCK PROVE FALSE
      BY <1>2
    <3>2. l \div BLOCK = 0
      BY <1>1, <1>3, <3>1, SmallRemainder
    <3>3. j = 0
      BY <1>4, <3>2
    <3>4. s = 0
      BY <1>1, <1>5, <3>3
    <3>5. QED
      BY <3>4
  <2> DEFINE z == x + i
  <2>2. z \in Nat /\ z >= crypt * BLOCK /\ z < p * BLOCK /\ a + z = (a + x) + i
    BY <1>2, <1>3, <1>4, <1>5, <1>7, <2>1
  <2> HIDE DEF z, p
  <2>3. ~(z < crypt * BLOCK)
    BY <1>7, <2>2
  <2>4. IsEncrypted(a + left, a + z) <=> z < crypt * BLOCK /\ z < (left \div BLOCK) * BLOCK
    BY <1>1, <2>2, EncryptedInPattern DEF p
  <2>5. QED
    BY <2>2, <2>3, <2>4
<1>13. \/ left - (x + s) < BLOCK
       \/ (a + (x + s)) % (BLOCK * p) = 0
  <2>1. CASE l < BLOCK
    BY <1>1, <1>3, <1>6, <2>1
  <2>2. CASE l - (j * BLOCK) < BLOCK
    BY <1>5, <1>6, <2>2
  <2>3. CASE k = crypt /\ j = skip
    <3> DEFINE c == BLOCK * p
               q == a \div c
    <3>1. c \in Nat \ {0} /\ p * BLOCK = c
      BY <1>1, Z3
    <3>2. x + s = c
      BY <1>2, <1>5, <1>7, <2>3, <3>1
    <3>3. a % c = 0
      OBVIOUS
    <3> HIDE DEF c
    <3>4. q \in Nat /\ a = (q * c) + (a % c)
      BY <3>1, QuotientOf
    <3> HIDE DEF q
    <3>5. (q + 1) * c = (q * c) + (1 * c) /\ 1 * c = c /\ q * c \in Nat
      <4>1. 1 \in Nat
        OBVIOUS
      <4>2. QED
        BY <3>1, <3>4, <4>1, Products
    <3>6. a + (x + s) = ((q + 1) * c) + 0
      BY <3>1, <3>2, <3>3, <3>4, <3>5
    <3>7. q + 1 \in Nat /\ 0 \in 0 .. c - 1
      BY <3>1, <3>4
    <3>8. (((q + 1) * c) + 0) % c = 0
      BY <3>1, <3>7, QuotientIs
    <3>9. QED
      BY <3>6, <3>8 DEF c
  <2>4. QED
    BY <1>2, <1>4, <2>1, <2>2, <2>3
<1>14. QED
  BY <1>3, <1>6, <1>9, <1>10, <1>11, <1>12, <1>13

-----------------------------------------------------------------------------
(* The beginning of a subsample                                              *)

FirstOf == IF alg = "CBC" /\ crypt > 0 THEN 0 ELSE wantEnc

LEMMA WantedProtectedIs ==
  ASSUME TypeOK, NEW n \in Nat
  PROVE  /\ FirstOf \in Nat
         /\ WantedProtected(n) \in Seq(Int)
         /\ Len(WantedProtected(n)) = n
         /\ \A j \in 1 .. n :
              WantedProtected(n)[j] =
                IF IsEncrypted(n, j - 1)
                THEN WantedPosition(FirstOf + EncryptedBefore(n, j - 1))
                ELSE Clear
<1> DEFINE f == WantedProtected(n)
<1>1. FirstOf \in Nat /\ start \in Counters
  BY DEF FirstOf, TypeOK
<1>2. f = [j \in 1 .. n |->
             IF IsEncrypted(n, j - 1)
             THEN WantedPosition(FirstOf + EncryptedBefore(n, j - 1))
             ELSE Clear]
  BY DEF WantedProtected, FirstOf
<1>3. ASSUME NEW j \in 1 .. n
      PROVE  WantedPosition(FirstOf + EncryptedBefore(n, j - 1)) \in Int
  <2> DEFINE k == j - 1
             e == FirstOf + EncryptedBefore(n, k)
  <2>1. k \in Nat
    OBVIOUS
  <2> HIDE DEF k
  <2>2. EncryptedBefore(n, k) \in Nat
    BY <2>1, EncryptedFinite
  <2>3. e \in Nat
    BY <1>1, <2>2
  <2> HIDE DEF e
  <2>4. WantedPosition(e) \in Nat
    BY <1>1, <2>3, WantedIs
  <2>5. QED
    BY <2>4 DEF e, k
<1> HIDE DEF f
<1>4. f \in [1 .. n -> Int]
  BY <1>2, <1>3 DEF Clear
<1>5. f \in Seq(Int)
  BY <1>4, SeqDef
<1>6. DOMAIN f = 1 .. n
  BY <1>4
<1>7. Len(f) = n
  BY <1>5, <1>6, LenProperties
<1>8. QED
  BY <1>1, <1>2, <1>5, <1>7 DEF f

LEMMA SubsampleBegins ==
  ASSUME TypeOK, NEW c \in ClearSizes, NEW n \in Sizes, NextSubsample(c, n)
  PROVE  /\ want \o ClearBytes(c) \in Seq(Int)
         /\ Len(want \o ClearBytes(c)) = Len(want) + c
         /\ want' \in Seq(Int) /\ Len(want') = Len(want) + c + n
         /\ Len(want) \in Nat /\ c \in Nat /\ n \in 0 .. WORD - 1
         /\ count' \in 0 .. MaxSubsamples /\ count' = count + 1 /\ count < MaxSubsamples
         /\ wantEnc' = wantEnc + EncryptedBefore(n, n)
         /\ EncryptedBefore(n, n) \in Nat /\ wantEnc' \in Nat
         /\ pc = "subsample"
<1>1. c \in Nat /\ n \in Nat /\ n < WORD /\ WORD \in Nat
  BY SizeIsWord
<1>2. /\ want' = (want \o ClearBytes(c)) \o WantedProtected(n) /\ count' = count + 1
      /\ wantEnc' = wantEnc + EncryptedBefore(n, n) /\ count < MaxSubsamples /\ pc = "subsample"
  BY DEF NextSubsample
<1>3. ClearBytes(c) \in Seq(Int) /\ Len(ClearBytes(c)) = c
  BY <1>1, ClearIs
<1>4. WantedProtected(n) \in Seq(Int) /\ Len(WantedProtected(n)) = n
  BY <1>1, WantedProtectedIs
<1>5. want \in Seq(Int) /\ count \in 0 .. MaxSubsamples /\ wantEnc \in Nat /\ MaxSubsamples \in Nat
  BY SizesAssumption DEF TypeOK
<1>6. /\ want \o ClearBytes(c) \in Seq(Int) /\ Len(want) \in Nat
      /\ Len(want \o ClearBytes(c)) = Len(want) + c
  BY <1>3, <1>5, Joined
<1>7. want' \in Seq(Int) /\ Len(want') = (Len(want) + c) + n
  BY <1>2, <1>4, <1>6, Joined
<1>8. EncryptedBefore(n, n) \in Nat
  BY <1>1, EncryptedFinite
<1>9. QED
  BY <1>1, <1>2, <1>5, <1>6, <1>7, <1>8

(* A range of AES-CTR that begins inside a block goes to its end. *)
LEMMA RangeReaches ==
  ASSUME Placed, Split # "any", NEW c \in ClearSizes, NEW n \in Sizes, NextSubsample(c, n),
         crypt = 0
  PROVE  /\ EncryptedSize(n) \in 0 .. WORD - 1
         /\ EncryptedSize(n) = 0 \/ Leading(enc) <= EncryptedSize(n)
<1>1. TypeOK /\ BlocksKept /\ pc = "subsample" /\ enc \in Nat /\ alg \in {"CTR", "CBC"}
  BY DEF Placed, NextSubsample, TypeOK
<1>2. n \in Nat /\ n < WORD /\ WORD \in Nat
  BY SizeIsWord
<1>3. /\ EncryptedSize(n) \in Nat /\ EncryptedSize(n) <= n
      /\ alg = "CTR" => EncryptedSize(n) = n
  BY <1>1, <1>2, WithoutPattern
<1>4. Leading(enc) \in 0 .. BLOCK - 1 /\ BLOCK \in Nat \ {0}
  BY <1>1, Leads, SizesAssumption
<1>5. CASE alg = "CBC"
  <2>1. enc % BLOCK = 0
    BY <1>1, <1>5 DEF BlocksKept
  <2>2. Leading(enc) = 0
    BY <1>1, <2>1, Leads
  <2>3. QED
    BY <1>2, <1>3, <2>2
<1>6. CASE alg = "CTR"
  <2>1. enc = wantEnc
    BY <1>1, <1>6 DEF BlocksKept
  <2>2. n % BLOCK = 0 \/ Reaches(n)
    <3>1. Split \in {"regular", "reaching"}
      BY SizesAssumption
    <3>2. CASE Split = "regular"
      BY <1>6, <3>2 DEF NextSubsample, Divides
    <3>3. CASE Split = "reaching"
      BY <1>6, <3>3 DEF NextSubsample, Divides
    <3>4. QED
      BY <3>1, <3>2, <3>3
  <2>3. CASE Reaches(n)
    BY <1>2, <1>3, <1>6, <2>1, <2>3 DEF Reaches
  <2>4. CASE n % BLOCK = 0 /\ n # 0
    <3>1. n >= BLOCK
      <4>1. SUFFICES ASSUME n < BLOCK PROVE FALSE
        BY <1>2, <1>4
      <4>2. n % BLOCK = n
        BY <1>2, <1>4, <4>1, SmallRemainder
      <4>3. QED
        BY <2>4, <4>2
    <3>2. QED
      BY <1>2, <1>3, <1>4, <1>6, <3>1
  <2>5. CASE n = 0
    BY <1>2, <1>3, <1>6, <2>5
  <2>6. QED
    BY <2>2, <2>3, <2>4, <2>5
<1>7. QED
  BY <1>1, <1>5, <1>6

-----------------------------------------------------------------------------
(* Lengths and blocks: Placed                                                *)

LEMMA InitPlaced ==
  ASSUME Init
  PROVE  Placed
<1>1. start \in Counters /\ start \in 0 .. WORD - 1 /\ start \in Nat /\ WORD \in Nat \ {0}
      /\ BLOCK \in Nat \ {0} /\ MaxSubsamples \in Nat
  BY Constants, SizesAssumption DEF Init
<1>2. PICK p \in Patterns : crypt = p[1] /\ skip = p[2]
  BY DEF Init
<1>3. <<crypt, skip>> \in Patterns
  <2>1. p \in Nat \X Nat
    BY PatternsAssumption
  <2>2. p = <<p[1], p[2]>>
    BY <2>1
  <2>3. QED
    BY <1>2, <2>2
<1>4. SetIv(alg, start) \in Nat
  BY <1>1, SetIvIs
<1>5. out = <<>> /\ want = <<>> /\ <<>> \in Seq(Int) /\ Len(<<>>) = 0
  BY EmptySeq DEF Init
<1>6. 0 % BLOCK = 0
  BY <1>1, SmallRemainder
<1>7. TypeOK
  <2>1. /\ alg \in {"CTR", "CBC"} /\ iv \in 0 .. WORD - 1 /\ start \in Counters
        /\ pc = "subsample" /\ status = "OK" /\ failed = FALSE
        /\ enc = 0 /\ left = 0 /\ wantEnc = 0 /\ pos = SetIv(alg, start)
    BY <1>1 DEF Init
  <2>2. count \in 0 .. MaxSubsamples
    BY <1>1 DEF Init
  <2>3. out \in Seq(Int) /\ want \in Seq(Int)
    BY <1>5
  <2>4. QED
    BY <1>3, <1>4, <2>1, <2>2, <2>3 DEF TypeOK
<1>8. LengthsKept
  BY <1>1, <1>5 DEF Init, LengthsKept, WithinSample
<1>9. BlocksKept
  BY <1>6 DEF Init, BlocksKept
<1>10. QED
  BY <1>7, <1>8, <1>9 DEF Placed

LEMMA BlocksAdd ==
  ASSUME NEW e \in Nat, NEW m \in Nat, e % BLOCK = 0, m % BLOCK = 0
  PROVE  (e + m) % BLOCK = 0
<1> DEFINE k == m \div BLOCK
<1>1. BLOCK \in Nat \ {0} /\ k \in Nat /\ m = (k * BLOCK) + 0
  BY InBlocks
<1> HIDE DEF k
<1>2. k * BLOCK \in Nat
  BY <1>1, Products
<1>3. m = k * BLOCK
  BY <1>1, <1>2
<1>4. (e + (k * BLOCK)) % BLOCK = 0
  BY <1>1, WholeCounted
<1>5. QED
  BY <1>3, <1>4

(* What a whole subsample appends *)
LEMMA WholeAppends ==
  ASSUME Placed, Split # "any", NEW c \in ClearSizes, NEW n \in Sizes, WholeSubsample(c, n)
  PROVE  LET size == EncryptedSize(n)
             d == decrypt(size)
             tail == d.out \o ClearBytes(n - size)
         IN  /\ size \in 0 .. WORD - 1 /\ size <= n /\ n \in Nat
             /\ Wrote(d, enc, size)
             /\ tail \in Seq(Int) /\ Len(tail) = n
             /\ \A i \in 1 .. size : tail[i] = d.out[i]
             /\ \A i \in 1 .. n : i > size => tail[i] = Clear
             /\ out \o ClearBytes(c) \in Seq(Int)
             /\ Len(out \o ClearBytes(c)) = Len(out) + c
             /\ out' = (out \o ClearBytes(c)) \o tail
             /\ out' \in Seq(Int) /\ Len(out') = Len(out) + c + n
<1> DEFINE size == EncryptedSize(n)
           d == decrypt(size)
           rest == ClearBytes(n - size)
           tail == d.out \o rest
           head == out \o ClearBytes(c)
<1>1. TypeOK /\ crypt = 0 /\ NextSubsample(c, n) /\ out \in Seq(Int) /\ enc \in Nat
  BY DEF Placed, WholeSubsample, TypeOK
<1>2. c \in Nat /\ n \in Nat
  BY SizeIsWord
<1>3. size \in 0 .. WORD - 1 /\ (size = 0 \/ Leading(enc) <= size)
  BY <1>1, RangeReaches
<1>4. size \in Nat /\ size <= n /\ n - size \in Nat
  <2>1. size \in Nat /\ size <= n
    BY <1>1, <1>2, WithoutPattern
  <2> HIDE DEF size
  <2>2. QED
    BY <1>2, <2>1
<1> HIDE DEF size
<1>5. Wrote(d, enc, size)
  BY <1>1, <1>3, DecryptWrote
<1>6. out' = (head \o d.out) \o rest
  BY DEF WholeSubsample, size
<1> HIDE DEF d
<1>7. d.out \in Seq(Int) /\ Len(d.out) = size
  BY <1>5 DEF Wrote
<1>8. rest \in Seq(Int) /\ Len(rest) = n - size /\ \A i \in 1 .. n - size : rest[i] = Clear
  BY <1>4, ClearIs
<1>9. ClearBytes(c) \in Seq(Int) /\ Len(ClearBytes(c)) = c
  BY <1>2, ClearIs
<1>10. head \in Seq(Int) /\ Len(head) = Len(out) + c /\ Len(out) \in Nat
  BY <1>1, <1>9, Joined
<1> HIDE DEF rest, head
<1>11. /\ tail \in Seq(Int) /\ Len(tail) = size + (n - size)
       /\ \A i \in 1 .. size : tail[i] = d.out[i]
       /\ \A i \in 1 .. n - size : tail[size + i] = rest[i]
  <2> DEFINE o == d.out
  <2>1. o \in Seq(Int) /\ rest \in Seq(Int) /\ Len(o) = size /\ Len(rest) = n - size
    BY <1>7, <1>8
  <2> HIDE DEF o
  <2>2. /\ o \o rest \in Seq(Int) /\ Len(o \o rest) = Len(o) + Len(rest)
        /\ \A i \in 1 .. Len(o) : (o \o rest)[i] = o[i]
        /\ \A i \in 1 .. Len(rest) : (o \o rest)[Len(o) + i] = rest[i]
    BY <2>1, Joined
  <2>3. QED
    BY <2>1, <2>2 DEF o
<1>12. Len(tail) = n
  BY <1>2, <1>4, <1>11
<1>13. ASSUME NEW i \in 1 .. n, i > size
       PROVE  tail[i] = Clear
  <2> DEFINE j == i - size
  <2>1. j \in 1 .. n - size /\ size + j = i
    BY <1>2, <1>4, <1>13
  <2> HIDE DEF j
  <2>2. QED
    BY <1>8, <1>11, <2>1
<1>14. out' = head \o tail
  <2> DEFINE o == d.out
  <2>1. o \in Seq(Int) /\ rest \in Seq(Int) /\ head \in Seq(Int)
    BY <1>7, <1>8, <1>10
  <2> HIDE DEF o
  <2>2. (head \o o) \o rest = head \o (o \o rest)
    BY <2>1, Regroup
  <2>3. QED
    BY <1>6, <2>2 DEF o
<1> HIDE DEF tail
<1>15. out' \in Seq(Int) /\ Len(out') = (Len(out) + c) + n
  BY <1>10, <1>11, <1>12, <1>14, Joined
<1>16. QED
  BY <1>2, <1>3, <1>4, <1>5, <1>10, <1>11, <1>12, <1>13, <1>14, <1>15
  DEF size, d, rest, tail, head

LEMMA WholePlaced ==
  ASSUME Placed, Split # "any", NEW c \in ClearSizes, NEW n \in Sizes, WholeSubsample(c, n)
  PROVE  Placed'
<1> DEFINE size == EncryptedSize(n)
           d == decrypt(size)
<1>1. /\ TypeOK /\ LengthsKept /\ BlocksKept /\ crypt = 0 /\ NextSubsample(c, n)
      /\ out \in Seq(Int) /\ enc \in Nat /\ alg \in {"CTR", "CBC"}
  BY DEF Placed, WholeSubsample, TypeOK
<1>2. /\ UNCHANGED <<alg, crypt, skip, start, left, pc, failed>>
      /\ iv' = d.iv /\ enc' = d.enc /\ pos' = d.pos /\ status' = "OK"
  BY DEF WholeSubsample, sample
<1>3. /\ size \in 0 .. WORD - 1 /\ size <= n /\ n \in Nat /\ Wrote(d, enc, size)
      /\ out' \in Seq(Int) /\ Len(out') = Len(out) + c + n
  BY WholeAppends
<1>4. /\ want' \in Seq(Int) /\ Len(want') = Len(want) + c + n
      /\ count' \in 0 .. MaxSubsamples /\ wantEnc' \in Nat /\ pc = "subsample"
      /\ wantEnc' = wantEnc + EncryptedBefore(n, n)
  BY <1>1, SubsampleBegins
<1>5. /\ EncryptedBefore(n, n) = size
      /\ alg = "CBC" => size % BLOCK = 0
  BY <1>1, <1>3, WithoutPattern
<1>6. /\ d.iv \in 0 .. WORD - 1 /\ d.enc = enc + size /\ d.enc \in Nat /\ d.pos \in Nat
  BY <1>1, <1>3 DEF Wrote
<1> HIDE DEF d, size
<1>7. TypeOK'
  BY <1>1, <1>2, <1>3, <1>4, <1>6 DEF TypeOK
<1>8. LengthsKept'
  <2>1. left = 0 /\ left < WORD /\ Len(out) + left = Len(want)
    BY <1>1, <1>4 DEF LengthsKept
  <2>2. Len(out) \in Nat /\ Len(want) \in Nat /\ c \in Nat
    BY <1>1, LenProperties, SizeIsWord DEF TypeOK
  <2>3. pc' = "subsample" /\ left' = 0 /\ left' < WORD
    BY <1>2, <1>4, <2>1
  <2>4. Len(out') = Len(want') /\ Len(out') \in Nat
    <3>1. Len(out) = Len(want)
      BY <2>1, <2>2
    <3>2. Len(out') = Len(want')
      BY <1>3, <1>4, <3>1
    <3>3. QED
      BY <1>3, <3>2, LenProperties
  <2>5. Len(out') + left' = Len(want') /\ Len(out') + left' <= Len(want')
    BY <2>3, <2>4
  <2>6. QED
    BY <2>3, <2>5 DEF LengthsKept, WithinSample
<1>9. BlocksKept'
  <2>1. ASSUME alg = "CBC" PROVE enc' % BLOCK = 0
    <3>1. enc % BLOCK = 0 /\ size % BLOCK = 0 /\ size \in Nat
      BY <1>1, <1>3, <1>5, <2>1 DEF BlocksKept
    <3>2. (enc + size) % BLOCK = 0
      BY <1>1, <3>1, BlocksAdd
    <3>3. QED
      BY <1>2, <1>6, <3>2
  <2>2. ASSUME alg = "CTR" PROVE enc' = wantEnc'
    <3>1. enc = wantEnc
      BY <1>1, <1>4, <2>2 DEF BlocksKept
    <3>2. QED
      BY <1>2, <1>4, <1>5, <1>6, <3>1
  <2>3. ~(crypt > 0)
    BY <1>1
  <2>4. QED
    BY <1>1, <1>2, <2>1, <2>2, <2>3 DEF BlocksKept
<1>10. QED
  BY <1>7, <1>8, <1>9 DEF Placed

LEMMA FailsPlaced ==
  ASSUME Placed, NEW c \in ClearSizes, NEW n \in Sizes, SubsampleFails(c, n)
  PROVE  Placed'
<1>1. /\ TypeOK /\ LengthsKept /\ BlocksKept /\ NextSubsample(c, n) /\ out \in Seq(Int)
  BY DEF Placed, SubsampleFails, TypeOK
<1>2. /\ UNCHANGED <<alg, crypt, skip, start, iv, enc, pos, left>>
      /\ status' = "ERROR" /\ failed' = TRUE /\ pc' = "done"
      /\ out' = out \o ClearBytes(c)
  BY DEF SubsampleFails, sample
<1>3. /\ want' \in Seq(Int) /\ Len(want') = Len(want) + c + n
      /\ count' \in 0 .. MaxSubsamples /\ wantEnc' \in Nat /\ pc = "subsample"
      /\ c \in Nat /\ n \in Nat /\ Len(want) \in Nat
  BY <1>1, SubsampleBegins, SizeIsWord
<1>4. out' \in Seq(Int) /\ Len(out') = Len(out) + c /\ Len(out) \in Nat
  <2>1. ClearBytes(c) \in Seq(Int) /\ Len(ClearBytes(c)) = c
    BY <1>3, ClearIs
  <2>2. QED
    BY <1>1, <1>2, <2>1, Joined
<1>5. TypeOK'
  BY <1>1, <1>2, <1>3, <1>4 DEF TypeOK
<1>6. LengthsKept'
  <2>1. left = 0 /\ left < WORD /\ Len(out) + left = Len(want)
    BY <1>1, <1>3 DEF LengthsKept
  <2>2. Len(out') + left' <= Len(want')
    BY <1>2, <1>3, <1>4, <2>1
  <2>3. QED
    BY <1>2, <2>1, <2>2 DEF LengthsKept, WithinSample
<1>7. BlocksKept'
  BY <1>1, <1>2 DEF BlocksKept
<1>8. QED
  BY <1>5, <1>6, <1>7 DEF Placed

LEMMA BeginsPlaced ==
  ASSUME Placed, NEW c \in ClearSizes, NEW n \in Sizes, PatternSubsample(c, n)
  PROVE  Placed' /\ Len(out') = Len(out) + c /\ out' = out \o ClearBytes(c)
<1>1. /\ TypeOK /\ LengthsKept /\ BlocksKept /\ NextSubsample(c, n) /\ out \in Seq(Int)
      /\ iv \in 0 .. WORD - 1 /\ pos \in Nat /\ start \in Counters
  BY DEF Placed, PatternSubsample, TypeOK
<1>2. /\ UNCHANGED <<alg, crypt, skip, start, enc, failed>>
      /\ status \in {"OK", "ERROR"} => status' \in {"OK", "ERROR"}
      /\ crypt > 0 /\ pc' = "stripe" /\ left' = n
      /\ out' = out \o ClearBytes(c)
  BY DEF PatternSubsample, sample
<1>3. /\ want' \in Seq(Int) /\ Len(want') = Len(want) + c + n
      /\ count' \in 0 .. MaxSubsamples /\ wantEnc' \in Nat /\ pc = "subsample"
      /\ c \in Nat /\ n \in Nat /\ n < WORD /\ Len(want) \in Nat
  BY <1>1, SubsampleBegins, SizeIsWord
<1>4. out' \in Seq(Int) /\ Len(out') = Len(out) + c /\ Len(out) \in Nat
  <2>1. ClearBytes(c) \in Seq(Int) /\ Len(ClearBytes(c)) = c
    BY <1>3, ClearIs
  <2>2. QED
    BY <1>1, <1>2, <2>1, Joined
<1>5. iv' \in 0 .. WORD - 1 /\ pos' \in Nat
  <2>1. start \in 0 .. WORD - 1 /\ start \in Nat
    BY <1>1, Constants
  <2>2. SetIv(alg, start) \in Nat
    BY <2>1, SetIvIs
  <2>3. ResetIv(n)
    BY DEF PatternSubsample
  <2>4. CASE alg = "CBC" /\ n > 0
    BY <2>1, <2>2, <2>3, <2>4 DEF ResetIv
  <2>5. CASE ~(alg = "CBC" /\ n > 0)
    BY <1>1, <2>3, <2>5 DEF ResetIv
  <2>6. QED
    BY <2>4, <2>5
<1>6. TypeOK'
  BY <1>1, <1>2, <1>3, <1>4, <1>5 DEF TypeOK
<1>7. LengthsKept'
  <2>1. left = 0 /\ Len(out) + left = Len(want)
    BY <1>1, <1>3 DEF LengthsKept
  <2>2. Len(out) = Len(want)
    BY <1>4, <2>1
  <2>3. Len(out') + left' = Len(want') /\ Len(out') + left' <= Len(want') /\ left' < WORD
    BY <1>2, <1>3, <1>4, <2>2
  <2>4. QED
    BY <1>2, <2>3 DEF LengthsKept, WithinSample
<1>8. BlocksKept'
  <2>1. enc' % BLOCK = 0
    BY <1>1, <1>2 DEF BlocksKept
  <2>2. ~(crypt' = 0)
    BY <1>2, PatternIs, <1>1 DEF TypeOK
  <2>3. QED
    BY <2>1, <2>2 DEF BlocksKept
<1>9. QED
  BY <1>2, <1>4, <1>6, <1>7, <1>8 DEF Placed

(* What a stripe appends *)
LEMMA StripeAppends ==
  ASSUME Placed, PatternStripe, NEW x, x = Stripe(crypt, left),
         NEW s, s = Skipped(left - x), NEW d, d = decrypt(x)
  PROVE  /\ x \in 0 .. WORD - 1 /\ s \in Nat /\ x + s <= left /\ x % BLOCK = 0
         /\ Wrote(d, enc, x)
         /\ iv' = d.iv /\ enc' = d.enc /\ pos' = d.pos
         /\ left' = left - (x + s)
         /\ out' \in Seq(Int) /\ Len(out) \in Nat /\ Len(out') = Len(out) + (x + s)
         /\ \A i \in 1 .. Len(out) : out'[i] = out[i]
         /\ \A i \in 1 .. x : out'[Len(out) + i] = d.out[i]
         /\ \A i \in 1 .. s : out'[(Len(out) + x) + i] = Clear
<1>1. /\ TypeOK /\ LengthsKept /\ BlocksKept /\ pc = "stripe" /\ crypt > 0
      /\ left < WORD /\ out \in Seq(Int) /\ enc \in Nat /\ left \in Nat /\ start \in Counters
  BY DEF Placed, PatternStripe, TypeOK, LengthsKept
<1>2. BLOCK \in Nat \ {0} /\ WORD \in Nat \ {0}
  BY <1>1, Constants
<1>3. x \in Nat /\ s \in Nat /\ x <= left /\ x + s <= left /\ x % BLOCK = 0
  <2> DEFINE c == BLOCK * (crypt + skip)
  <2>1. c \in Nat \ {0}
    <3>1. crypt \in Nat \ {0} /\ skip \in Nat
      BY <1>1, PatternIs DEF TypeOK
    <3> DEFINE p == crypt + skip
    <3>2. p \in Nat \ {0}
      BY <3>1
    <3> HIDE DEF p
    <3>3. BLOCK * p \in Nat \ {0}
      BY <1>2, <3>2, Z3
    <3>4. QED
      BY <3>3 DEF p
  <2> HIDE DEF c
  <2>2. 0 % c = 0
    BY <2>1, SmallRemainder
  <2>3. 0 % (BLOCK * (crypt + skip)) = 0 /\ 0 \in Nat
    BY <2>2 DEF c
  <2>4. QED
    BY <1>1, <2>3, StripeEncrypted
<1>4. x \in 0 .. WORD - 1
  BY <1>1, <1>2, <1>3
<1>5. Leading(enc) <= x
  <2>1. enc % BLOCK = 0
    BY <1>1 DEF BlocksKept
  <2>2. Leading(enc) = 0
    BY <1>1, <2>1, Leads
  <2>3. QED
    BY <1>3, <2>2
<1>6. Wrote(d, enc, x)
  BY <1>1, <1>4, <1>5, DecryptWrote
<1>7. /\ iv' = d.iv /\ enc' = d.enc /\ pos' = d.pos
      /\ out' = (out \o d.out) \o ClearBytes(s)
      /\ left' = ((left - x) - s) % WORD
  BY DEF PatternStripe
<1>8. left' = left - (x + s)
  <2> DEFINE z == (left - x) - s
  <2>1. z \in 0 .. WORD - 1 /\ z = left - (x + s)
    BY <1>1, <1>2, <1>3
  <2> HIDE DEF z
  <2>2. z % WORD = z
    BY <1>2, <2>1, SmallRemainder
  <2>3. QED
    BY <1>7, <2>1, <2>2 DEF z
<1> DEFINE o == d.out
           r == ClearBytes(s)
           h == out \o o
<1>9. o \in Seq(Int) /\ Len(o) = x
  BY <1>6 DEF Wrote
<1>10. r \in Seq(Int) /\ Len(r) = s /\ \A i \in 1 .. s : r[i] = Clear
  BY <1>3, ClearIs
<1>11. out' = h \o r
  BY <1>7
<1> HIDE DEF o, r
<1>12. /\ h \in Seq(Int) /\ Len(h) = Len(out) + x /\ Len(out) \in Nat
       /\ \A i \in 1 .. Len(out) : h[i] = out[i]
       /\ \A i \in 1 .. x : h[Len(out) + i] = o[i]
  <2>1. /\ h \in Seq(Int) /\ Len(h) = Len(out) + Len(o) /\ Len(out) \in Nat
        /\ \A i \in 1 .. Len(out) : h[i] = out[i]
        /\ \A i \in 1 .. Len(o) : h[Len(out) + i] = o[i]
    BY <1>1, <1>9, Joined
  <2>2. QED
    BY <1>9, <2>1
<1> HIDE DEF h
<1>13. /\ h \o r \in Seq(Int) /\ Len(h \o r) = (Len(out) + x) + s
       /\ \A i \in 1 .. Len(out) + x : (h \o r)[i] = h[i]
       /\ \A i \in 1 .. s : (h \o r)[(Len(out) + x) + i] = r[i]
  <2>1. /\ h \o r \in Seq(Int) /\ Len(h \o r) = Len(h) + Len(r)
        /\ \A i \in 1 .. Len(h) : (h \o r)[i] = h[i]
        /\ \A i \in 1 .. Len(r) : (h \o r)[Len(h) + i] = r[i]
    BY <1>10, <1>12, Joined
  <2>2. QED
    BY <1>10, <1>12, <2>1
<1>14. out' \in Seq(Int) /\ Len(out') = Len(out) + (x + s)
  BY <1>3, <1>11, <1>12, <1>13
<1>15. \A i \in 1 .. s : out'[(Len(out) + x) + i] = Clear
  BY <1>10, <1>11, <1>13
<1>16. ASSUME NEW i \in 1 .. Len(out)
       PROVE  out'[i] = out[i]
  <2>1. i \in 1 .. Len(out) + x
    BY <1>3, <1>12
  <2>2. QED
    BY <1>11, <1>12, <1>13, <2>1
<1>17. ASSUME NEW i \in 1 .. x
       PROVE  out'[Len(out) + i] = d.out[i]
  <2> DEFINE k == Len(out) + i
  <2>1. k \in 1 .. Len(out) + x
    BY <1>3, <1>12
  <2>2. h[k] = o[i]
    BY <1>12
  <2> HIDE DEF k
  <2>3. (h \o r)[k] = h[k]
    BY <1>13, <2>1
  <2>4. QED
    BY <1>11, <2>2, <2>3 DEF k, o
<1>18. QED
  BY <1>3, <1>4, <1>6, <1>7, <1>8, <1>12, <1>14, <1>15, <1>16, <1>17

LEMMA StripePlaced ==
  ASSUME Placed, PatternStripe
  PROVE  Placed'
<1> DEFINE x == Stripe(crypt, left)
           s == Skipped(left - x)
           d == decrypt(x)
<1>1. /\ TypeOK /\ LengthsKept /\ BlocksKept /\ pc = "stripe" /\ crypt > 0
      /\ left < WORD /\ enc \in Nat /\ left \in Nat /\ WORD \in Nat
  BY SizesAssumption DEF Placed, PatternStripe, TypeOK, LengthsKept
<1>2. /\ UNCHANGED <<alg, crypt, skip, start, pc, count, failed, want, wantEnc>>
      /\ status' = "OK"
  BY DEF PatternStripe, sample
<1>3. /\ x \in 0 .. WORD - 1 /\ s \in Nat /\ x + s <= left /\ x % BLOCK = 0
      /\ Wrote(d, enc, x)
      /\ iv' = d.iv /\ enc' = d.enc /\ pos' = d.pos
      /\ left' = left - (x + s)
      /\ out' \in Seq(Int) /\ Len(out) \in Nat /\ Len(out') = Len(out) + (x + s)
  BY StripeAppends
<1>4. d.iv \in 0 .. WORD - 1 /\ d.enc = enc + x /\ d.enc \in Nat /\ d.pos \in Nat
  BY <1>1, <1>3 DEF Wrote
<1>5. Len(want) \in Nat
  BY <1>1, LenProperties DEF TypeOK
<1> HIDE DEF x, s, d
<1>6. left' \in Nat /\ left' <= left
  BY <1>1, <1>3
<1>7. TypeOK'
  BY <1>1, <1>2, <1>3, <1>4, <1>6 DEF TypeOK
<1>8. LengthsKept'
  <2>1. left' < WORD
    BY <1>1, <1>6
  <2>2. Len(out) + left = Len(want)
    BY <1>1 DEF LengthsKept
  <2>3. Len(out') + left' = Len(want') /\ Len(out') + left' <= Len(want')
    BY <1>1, <1>2, <1>3, <1>5, <2>2
  <2>4. QED
    BY <1>1, <1>2, <2>1, <2>3 DEF LengthsKept, WithinSample
<1>9. BlocksKept'
  <2>1. (enc + x) % BLOCK = 0
    <3>1. enc % BLOCK = 0 /\ x \in Nat
      BY <1>1, <1>3 DEF BlocksKept
    <3>2. QED
      BY <1>1, <1>3, <3>1, BlocksAdd
  <2>2. ~(crypt' = 0)
    BY <1>1, <1>2, PatternIs DEF TypeOK
  <2>3. enc' % BLOCK = 0
    BY <1>3, <1>4, <2>1
  <2>4. QED
    BY <2>2, <2>3 DEF BlocksKept
<1>10. QED
  BY <1>7, <1>8, <1>9 DEF Placed

(* The end of the protected data, decrypted or not, is copied. *)
LEMMA EndsPlaced ==
  ASSUME Placed, PatternRemainder \/ StripeFails
  PROVE  /\ Placed'
         /\ left' = 0 /\ pc' = "subsample" /\ Len(out) + left = Len(want)
         /\ Len(out) \in Nat /\ left \in Nat
         /\ Len(out') = Len(out) + left
         /\ \A i \in 1 .. Len(out) : out'[i] = out[i]
         /\ \A i \in 1 .. left : out'[Len(out) + i] = Clear
<1>1. /\ TypeOK /\ LengthsKept /\ BlocksKept /\ pc = "stripe" /\ crypt > 0
      /\ left < WORD /\ left \in Nat /\ out \in Seq(Int) /\ Len(out) + left = Len(want)
  BY DEF Placed, PatternRemainder, StripeFails, TypeOK, LengthsKept
<1>2. /\ UNCHANGED <<alg, crypt, skip, start, iv, enc, pos, count, want, wantEnc>>
      /\ out' = out \o ClearBytes(left) /\ left' = 0 /\ pc' = "subsample"
  BY DEF PatternRemainder, StripeFails, sample
<1>3. status' \in {"OK", "ERROR"} /\ failed' \in BOOLEAN
  <2>1. CASE PatternRemainder
    BY <1>1, <2>1 DEF PatternRemainder, TypeOK
  <2>2. CASE StripeFails
    BY <2>2 DEF StripeFails
  <2>3. QED
    BY <2>1, <2>2
<1> DEFINE r == ClearBytes(left)
<1>4. r \in Seq(Int) /\ Len(r) = left /\ \A i \in 1 .. left : r[i] = Clear
  BY <1>1, ClearIs
<1>5. out' = out \o r
  BY <1>2
<1> HIDE DEF r
<1>6. /\ out \o r \in Seq(Int) /\ Len(out) \in Nat /\ Len(out \o r) = Len(out) + Len(r)
      /\ \A i \in 1 .. Len(out) : (out \o r)[i] = out[i]
      /\ \A i \in 1 .. Len(r) : (out \o r)[Len(out) + i] = r[i]
  BY <1>1, <1>4, Joined
<1>7. /\ out' \in Seq(Int) /\ Len(out') = Len(out) + left
      /\ \A i \in 1 .. Len(out) : out'[i] = out[i]
  BY <1>4, <1>5, <1>6
<1>8. \A i \in 1 .. left : out'[Len(out) + i] = Clear
  BY <1>4, <1>5, <1>6
<1>9. TypeOK'
  BY <1>1, <1>2, <1>3, <1>7 DEF TypeOK
<1>10. LengthsKept'
  <2>1. left' = 0 /\ left' < WORD
    BY <1>1, <1>2, SizesAssumption
  <2>2. Len(out') = Len(want') /\ Len(out') \in Nat
    BY <1>1, <1>2, <1>6, <1>7, LenProperties
  <2>3. Len(out') + left' = Len(want') /\ Len(out') + left' <= Len(want')
    BY <2>1, <2>2
  <2>4. QED
    BY <1>2, <2>1, <2>3 DEF LengthsKept, WithinSample
<1>11. BlocksKept'
  <2>1. enc' % BLOCK = 0 /\ ~(crypt' = 0)
    BY <1>1, <1>2, PatternIs DEF BlocksKept, TypeOK
  <2>2. QED
    BY <2>1 DEF BlocksKept
<1>12. QED
  BY <1>1, <1>2, <1>6, <1>7, <1>8, <1>9, <1>10, <1>11 DEF Placed

LEMMA DonePlaced ==
  ASSUME Placed, Done
  PROVE  Placed'
<1>1. /\ TypeOK /\ LengthsKept /\ BlocksKept /\ pc = "subsample" /\ pc' = "done"
      /\ UNCHANGED <<alg, crypt, skip, start, iv, enc, pos, out, left, status, count, failed,
                     want, wantEnc>>
  BY DEF Placed, Done, sample
<1>2. TypeOK'
  BY <1>1 DEF TypeOK
<1>3. LengthsKept'
  BY <1>1 DEF LengthsKept, WithinSample
<1>4. BlocksKept'
  BY <1>1 DEF BlocksKept
<1>5. QED
  BY <1>2, <1>3, <1>4 DEF Placed

LEMMA NextPlaced ==
  ASSUME Placed, Split # "any", [Next]_vars
  PROVE  Placed'
<1>1. ASSUME NEW c \in ClearSizes, NEW n \in Sizes, WholeSubsample(c, n)
      PROVE  Placed'
  BY <1>1, WholePlaced
<1>2. ASSUME NEW c \in ClearSizes, NEW n \in Sizes, SubsampleFails(c, n)
      PROVE  Placed'
  BY <1>2, FailsPlaced
<1>3. ASSUME NEW c \in ClearSizes, NEW n \in Sizes, PatternSubsample(c, n)
      PROVE  Placed'
  BY <1>3, BeginsPlaced
<1>4. CASE PatternStripe
  BY <1>4, StripePlaced
<1>5. CASE StripeFails \/ PatternRemainder
  BY <1>5, EndsPlaced
<1>6. CASE Done
  BY <1>6, DonePlaced
<1>7. CASE UNCHANGED vars
  <2>1. /\ TypeOK /\ LengthsKept /\ BlocksKept
        /\ UNCHANGED <<alg, crypt, skip, start, iv, enc, pos, out, left, pc, status, count,
                       failed, want, wantEnc>>
    BY <1>7 DEF Placed, vars, sample
  <2>2. TypeOK'
    BY <2>1 DEF TypeOK
  <2>3. LengthsKept'
    BY <2>1 DEF LengthsKept, WithinSample
  <2>4. BlocksKept'
    BY <2>1 DEF BlocksKept
  <2>5. QED
    BY <2>2, <2>3, <2>4 DEF Placed
<1>8. QED
  BY <1>1, <1>2, <1>3, <1>4, <1>5, <1>6, <1>7 DEF Next

(* The local IV of cenc_process_sample stays a counter, and the sizes that   *)
(* it subtracts from stay sizes, when ranges are divided as below.           *)
THEOREM TypesAlways ==
  ASSUME Split # "any"
  PROVE  Spec => []TypeOK
<1>1. Init => Placed
  BY InitPlaced
<1>2. Placed /\ [Next]_vars => Placed'
  BY NextPlaced
<1>3. Placed => TypeOK
  BY DEF Placed
<1>4. QED
  BY <1>1, <1>2, <1>3, PTL DEF Spec

(* However the encrypted bytes of a sample are divided into ranges that      *)
(* begin at a block or reach its end, with whatever counter and whichever    *)
(* call of OpenSSL fails, cenc_process_sample writes no further than the     *)
(* sample goes.                                                              *)
THEOREM WithinSampleAlways ==
  ASSUME Split # "any"
  PROVE  Spec => []WithinSample
<1>1. Init => Placed
  BY InitPlaced
<1>2. Placed /\ [Next]_vars => Placed'
  BY NextPlaced
<1>3. Placed => WithinSample
  BY DEF Placed, LengthsKept
<1>4. QED
  BY <1>1, <1>2, <1>3, PTL DEF Spec

-----------------------------------------------------------------------------
(* Counters stay away from the rollover                                      *)

LEMMA BlocksBegun ==
  ASSUME NEW e \in Nat, NEW n \in Nat
  PROVE  (e + n) \div BLOCK + PartialBlocks(e + n)
           <= ((e \div BLOCK) + PartialBlocks(e)) + ((n \div BLOCK) + 1)
<1> DEFINE q == e \div BLOCK
           x == e % BLOCK
           u == n \div BLOCK
           v == n % BLOCK
           k == IF x + v < BLOCK THEN 0 ELSE 1
           y == IF x + v < BLOCK THEN x + v ELSE (x + v) - BLOCK
<1>1. BLOCK \in Nat \ {0} /\ q \in Nat /\ x \in 0 .. BLOCK - 1
  BY InBlocks
<1>2. u \in Nat /\ v \in 0 .. BLOCK - 1 /\ n = (u * BLOCK) + v
  BY InBlocks
<1> HIDE DEF q, x, u, v
<1>3. /\ k \in {0, 1} /\ y \in 0 .. BLOCK - 1 /\ x + v = (k * BLOCK) + y
      /\ x = 0 /\ k = 1 => FALSE
  <2>1. CASE x + v < BLOCK
    <3>1. 0 * BLOCK = 0
      BY <1>1
    <3>2. QED
      BY <1>1, <1>2, <2>1, <3>1
  <2>2. CASE ~(x + v < BLOCK)
    <3>1. 1 * BLOCK = BLOCK
      BY <1>1
    <3>2. QED
      BY <1>1, <1>2, <2>2, <3>1
  <2>3. QED
    BY <2>1, <2>2
<1> HIDE DEF k, y
<1> DEFINE m == u + k
<1>4. m \in Nat /\ x + n = (m * BLOCK) + y
  <2>1. m \in Nat /\ k \in Nat
    BY <1>2, <1>3
  <2>2. m * BLOCK = (u * BLOCK) + (k * BLOCK) /\ u * BLOCK \in Nat /\ k * BLOCK \in Nat
    BY <1>1, <1>2, <2>1, Products
  <2>3. QED
    BY <1>1, <1>2, <1>3, <2>1, <2>2
<1>5. Completes(e, n, m, y)
  BY <1>3, <1>4 DEF Completes, x
<1>6. (e + n) \div BLOCK = q + m /\ (e + n) % BLOCK = y
  BY <1>5, MoreBytes DEF q
<1>7. /\ PartialBlocks(e + n) \in {0, 1} /\ PartialBlocks(e) \in {0, 1}
      /\ x # 0 => PartialBlocks(e) = 1
  <2>1. e + n \in Nat
    OBVIOUS
  <2>2. PartialBlocks(e + n) \in {0, 1}
    BY <2>1, Leads
  <2>3. PartialBlocks(e) \in {0, 1} /\ (e % BLOCK # 0 => PartialBlocks(e) = 1)
    BY Leads
  <2>4. QED
    BY <2>2, <2>3 DEF x
<1>8. k + PartialBlocks(e + n) <= PartialBlocks(e) + 1
  BY <1>3, <1>7
<1>9. QED
  BY <1>1, <1>2, <1>3, <1>6, <1>7, <1>8 DEF q, u

LEMMA DivMonotonic ==
  ASSUME NEW a \in Nat, NEW b \in Nat, a <= b
  PROVE  /\ a \div BLOCK \in Nat /\ b \div BLOCK \in Nat
         /\ a \div BLOCK <= b \div BLOCK
<1> DEFINE q == a \div BLOCK
           x == a % BLOCK
           u == b \div BLOCK
           v == b % BLOCK
<1>1. BLOCK \in Nat \ {0} /\ q \in Nat /\ x \in 0 .. BLOCK - 1 /\ a = (q * BLOCK) + x
  BY InBlocks
<1>2. u \in Nat /\ v \in 0 .. BLOCK - 1 /\ b = (u * BLOCK) + v
  BY InBlocks
<1> HIDE DEF q, x, u, v
<1>3. (u + 1) * BLOCK = (u * BLOCK) + (1 * BLOCK) /\ 1 * BLOCK = BLOCK
      /\ u * BLOCK \in Nat /\ q * BLOCK \in Nat
  <2>1. 1 \in Nat
    OBVIOUS
  <2>2. QED
    BY <1>1, <1>2, <2>1, Products
<1>4. q * BLOCK < (u + 1) * BLOCK
  BY <1>1, <1>2, <1>3
<1>5. q < u + 1
  <2>1. u + 1 \in Nat
    BY <1>2
  <2>2. QED
    BY <1>1, <1>4, <2>1, Cancel
<1>6. QED
  BY <1>1, <1>2, <1>5 DEF q, u

(* The blocks that a subsample may begin *)
PerSubsample == Max(Sizes) \div BLOCK + 1

LEMMA BlocksOfSubsample ==
  ASSUME NEW n \in Sizes
  PROVE  /\ PerSubsample \in Nat
         /\ n \div BLOCK \in Nat
         /\ (n \div BLOCK) + 1 <= PerSubsample
<1>1. Max(Sizes) \in Nat /\ n <= Max(Sizes) /\ n \in Nat
  BY LargestSize, SizeIsWord
<1> DEFINE m == Max(Sizes)
<1>2. m \in Nat /\ n <= m
  BY <1>1
<1> HIDE DEF m
<1>3. n \div BLOCK \in Nat /\ m \div BLOCK \in Nat /\ n \div BLOCK <= m \div BLOCK
  BY <1>1, <1>2, DivMonotonic
<1>4. PerSubsample = (m \div BLOCK) + 1
  BY DEF PerSubsample, m
<1>5. QED
  BY <1>3, <1>4

LEMMA FarIs ==
  /\ FarFromRollover <=> start + (MaxSubsamples * PerSubsample) < WORD
  /\ start' = start => (FarFromRollover' <=> FarFromRollover) /\ (Tame' <=> Tame)
BY DEF FarFromRollover, PerSubsample, Tame

LEMMA WholeFar ==
  ASSUME Placed, RolloverKept, Tame, Split # "any", alg = "CTR",
         NEW c \in ClearSizes, NEW n \in Sizes, WholeSubsample(c, n)
  PROVE  /\ FarFromRollover =>
              /\ (enc + n) \div BLOCK + PartialBlocks(enc + n) <= (count + 1) * PerSubsample
              /\ start + ((enc + n) \div BLOCK) < WORD
         /\ ~FarFromRollover => enc % BLOCK = 0 /\ n % BLOCK = 0
<1>1. /\ TypeOK /\ crypt = 0 /\ NextSubsample(c, n) /\ pc = "subsample"
      /\ enc \in Nat /\ count \in Nat /\ start \in Counters /\ start \in Nat
      /\ count < MaxSubsamples /\ MaxSubsamples \in Nat /\ WORD \in Nat
  <2>1. TypeOK /\ crypt = 0 /\ NextSubsample(c, n)
    BY DEF Placed, WholeSubsample
  <2>2. pc = "subsample" /\ count < MaxSubsamples
    BY <2>1 DEF NextSubsample
  <2>3. QED
    BY <2>1, <2>2, Constants, SizesAssumption DEF TypeOK
<1>2. n \in Nat
  BY SizeIsWord
<1>3. ASSUME FarFromRollover
      PROVE  /\ (enc + n) \div BLOCK + PartialBlocks(enc + n) <= (count + 1) * PerSubsample
             /\ start + ((enc + n) \div BLOCK) < WORD
  <2> DEFINE a == (enc \div BLOCK) + PartialBlocks(enc)
             b == (n \div BLOCK) + 1
             z == (enc + n) \div BLOCK
             r == PartialBlocks(enc + n)
             p == PerSubsample
  <2>1. a <= count * p
    BY <1>1, <1>3 DEF RolloverKept, PerSubsample
  <2>2. p \in Nat /\ b \in Nat /\ b <= p
    BY BlocksOfSubsample
  <2>3. z + r <= a + b
    BY <1>1, <1>2, BlocksBegun
  <2>4. z \in Nat /\ r \in {0, 1} /\ a \in Nat
    <3>1. enc + n \in Nat
      BY <1>1, <1>2
    <3>2. z \in Nat
      BY <3>1, InBlocks
    <3>3. r \in {0, 1}
      BY <3>1, Leads
    <3>4. enc \div BLOCK \in Nat /\ PartialBlocks(enc) \in {0, 1}
      BY <1>1, InBlocks, Leads
    <3>5. QED
      BY <3>2, <3>3, <3>4
  <2>5. start + (MaxSubsamples * p) < WORD
    BY <1>3, FarIs
  <2> HIDE DEF a, b, z, r, p
  <2>6. (count + 1) * p = (count * p) + (1 * p) /\ 1 * p = p /\ count * p \in Nat
    <3>1. 1 \in Nat
      OBVIOUS
    <3>2. QED
      BY <1>1, <2>2, <3>1, Products
  <2>7. z + r <= (count + 1) * p
    BY <2>1, <2>2, <2>3, <2>4, <2>6
  <2>8. (count + 1) * p <= MaxSubsamples * p /\ MaxSubsamples * p \in Nat /\ (count + 1) * p \in Nat
    <3>1. count + 1 \in Nat /\ count + 1 <= MaxSubsamples
      BY <1>1
    <3>2. QED
      BY <1>1, <2>2, <3>1, LessProduct, Products
  <2>9. z <= MaxSubsamples * p
    BY <2>4, <2>7, <2>8
  <2>10. start + z < WORD
    BY <1>1, <2>4, <2>5, <2>8, <2>9
  <2>11. QED
    BY <2>7, <2>10 DEF z, r, p
<1>4. ASSUME ~FarFromRollover
      PROVE  enc % BLOCK = 0 /\ n % BLOCK = 0
  <2>1. enc % BLOCK = 0
    BY <1>1, <1>4 DEF RolloverKept
  <2>2. Split = "regular"
    BY <1>4 DEF Tame
  <2>3. n % BLOCK = 0
    BY <1>1, <1>4, <2>2 DEF NextSubsample, Divides
  <2>4. QED
    BY <2>1, <2>3
<1>5. QED
  BY <1>3, <1>4

LEMMA WholeRollover ==
  ASSUME Placed, RolloverKept, Split # "any",
         NEW c \in ClearSizes, NEW n \in Sizes, WholeSubsample(c, n)
  PROVE  RolloverKept'
<1>1. /\ UNCHANGED <<alg, crypt, start, pc>> /\ TypeOK /\ NextSubsample(c, n) /\ enc \in Nat
  BY DEF Placed, WholeSubsample, sample, TypeOK
<1>2. SUFFICES ASSUME Tame, alg = "CTR"
               PROVE  IF FarFromRollover
                      THEN enc' \div BLOCK + PartialBlocks(enc') <= count' * PerSubsample
                      ELSE enc' % BLOCK = 0
  <2>1. FarFromRollover' <=> FarFromRollover
    BY <1>1, FarIs
  <2>2. Tame' <=> Tame
    BY <1>1, FarIs
  <2>3. PartialBlocks(enc)' = PartialBlocks(enc')
    BY DEF PartialBlocks, Leading
  <2>4. QED
    BY <1>1, <2>1, <2>2, <2>3 DEF RolloverKept, PerSubsample
<1>3. n \in Nat /\ EncryptedSize(n) = n
  <2>1. n \in Nat
    BY SizeIsWord
  <2>2. crypt = 0
    BY DEF WholeSubsample
  <2>3. QED
    BY <1>1, <1>2, <2>1, <2>2, WithoutPattern
<1>4. enc' = enc + n /\ count' = count + 1
  <2> DEFINE size == EncryptedSize(n)
             d == decrypt(size)
  <2>1. Wrote(d, enc, size) /\ enc' = d.enc
    BY WholeAppends DEF WholeSubsample
  <2>2. enc' = enc + size
    BY <2>1 DEF Wrote
  <2>3. count' = count + 1
    BY <1>1 DEF NextSubsample
  <2>4. QED
    BY <1>3, <2>2, <2>3
<1>5. CASE FarFromRollover
  BY <1>2, <1>4, <1>5, WholeFar
<1>6. CASE ~FarFromRollover
  <2>1. enc % BLOCK = 0 /\ n % BLOCK = 0
    BY <1>2, <1>6, WholeFar
  <2>2. (enc + n) % BLOCK = 0
    BY <1>1, <1>3, <2>1, BlocksAdd
  <2>3. QED
    BY <1>4, <1>6, <2>2
<1>7. QED
  BY <1>5, <1>6

(* Without the subsamples of CENC nothing else counts. *)
LEMMA OtherRollover ==
  ASSUME Placed, RolloverKept, UNCHANGED <<alg, crypt, start>>,
         \/ pc' = "done"
         \/ crypt > 0
         \/ UNCHANGED <<enc, count, pc>>
  PROVE  RolloverKept'
<1>1. (FarFromRollover' <=> FarFromRollover) /\ (Tame' <=> Tame)
  BY FarIs
<1>2. CASE pc' = "done"
  BY <1>2 DEF RolloverKept
<1>3. CASE crypt > 0
  <2>1. ~(crypt' = 0)
    BY <1>3, PatternIs DEF Placed, TypeOK
  <2>2. QED
    BY <2>1 DEF RolloverKept
<1>4. CASE UNCHANGED <<enc, count, pc>>
  <2>1. PartialBlocks(enc)' = PartialBlocks(enc)
    BY <1>4 DEF PartialBlocks, Leading
  <2>2. QED
    BY <1>1, <1>4, <2>1 DEF RolloverKept
<1>5. QED
  BY <1>2, <1>3, <1>4

-----------------------------------------------------------------------------
(* The output is what is wanted                                              *)

LEMMA SampleKept ==
  ASSUME UNCHANGED sample
  PROVE  /\ UNCHANGED <<alg, crypt, skip, start>>
         /\ FarFromRollover' <=> FarFromRollover
         /\ Tame' <=> Tame
         /\ (alg' = "CTR") <=> (alg = "CTR")
<1>1. UNCHANGED <<alg, crypt, skip, start>>
  BY DEF sample
<1>2. QED
  BY <1>1, FarIs

(* PositionKept in the next state, in the terms of this one *)
LEMMA PositionNext ==
  ASSUME UNCHANGED sample,
         Tame /\ ~failed' /\ pc' # "done" =>
           /\ alg = "CTR" => iv' = Counter(enc') /\ pos' = WantedPosition(enc')
           /\ pc' = "subsample" /\ (alg = "CTR" \/ crypt = 0) =>
                (IF alg = "CTR" THEN enc' ELSE pos') = wantEnc'
  PROVE  PositionKept'
<1>1. UNCHANGED <<alg, crypt, skip, start>> /\ (Tame' <=> Tame)
  BY SampleKept
<1>2. Counter(enc)' = Counter(enc') /\ WantedPosition(enc)' = WantedPosition(enc')
  BY <1>1 DEF Counter, WantedPosition
<1>3. Here' = IF alg = "CTR" THEN enc' ELSE pos'
  BY <1>1 DEF Here
<1>4. QED
  BY <1>1, <1>2, <1>3 DEF PositionKept

(* What is wanted at byte j of n protected ones that begin after first *)
WantedAt(n, first, j) ==
  IF IsEncrypted(n, j) THEN WantedPosition(first + EncryptedBefore(n, j)) ELSE Clear

(* StripeKept in the next state, in the terms of this one *)
LEMMA StripeNext ==
  ASSUME UNCHANGED sample, NEW n \in Sizes, NEW first \in 0 .. wantEnc',
         left' <= n,
         (n - left') % BLOCK = 0,
         left' < BLOCK \/ (n - left') % (BLOCK * (crypt + skip)) = 0,
         alg = "CTR" => wantEnc' = first + EncryptedBefore(n, n),
         alg = "CTR" \/ left' > 0 =>
           (IF alg = "CTR" THEN enc' ELSE pos') = first + EncryptedBefore(n, n - left'),
         \A i \in 1 .. left' : want'[Len(out') + i] = WantedAt(n, first, n - left' + i - 1)
  PROVE  StripeKept'
<1>1. UNCHANGED <<alg, crypt, skip, start>> /\ (Tame' <=> Tame)
  BY SampleKept
<1>2. Here' = IF alg = "CTR" THEN enc' ELSE pos'
  BY <1>1 DEF Here
<1>3. Remaining(n, first)'
  <2>1. EncryptedBefore(n, n)' = EncryptedBefore(n, n)
    BY <1>1 DEF EncryptedBefore, IsEncrypted
  <2>2. EncryptedBefore(n, n - left)' = EncryptedBefore(n, n - left')
    BY <1>1 DEF EncryptedBefore, IsEncrypted
  <2>3. ASSUME NEW i \in 1 .. left'
        PROVE  WantedAt(n, first, n - left + i - 1)' = WantedAt(n, first, n - left' + i - 1)
    BY <1>1 DEF WantedAt, IsEncrypted, EncryptedBefore, WantedPosition
  <2>4. \A i \in 1 .. left' : want'[Len(out') + i] = WantedAt(n, first, n - left + i - 1)'
    BY <2>3
  <2>5. QED
    BY <1>1, <1>2, <2>1, <2>2, <2>4 DEF Remaining, WantedAt
<1>4. QED
  BY <1>3 DEF StripeKept

LEMMA OutputIsWanted ==
  ASSUME Placed, OutputKept, Tame, ~failed, pc # "stripe"
  PROVE  out = want
<1>1. out \in Seq(Int) /\ want \in Seq(Int)
  BY DEF Placed, TypeOK
<1>2. Len(out) = Len(want)
  <2>1. left = 0 /\ Len(out) + left = Len(want)
    BY DEF Placed, LengthsKept
  <2>2. Len(out) \in Nat
    BY <1>1, LenProperties
  <2>3. QED
    BY <2>1, <2>2
<1>3. \A i \in 1 .. Len(out) : out[i] = want[i]
  BY DEF OutputKept
<1>4. QED
  BY <1>1, <1>2, <1>3, SeqEqual

(* AES-CBC decrypts from where the chain is. *)
LEMMA ChainRight ==
  ASSUME TypeOK, alg = "CBC", NEW bytes \in 0 .. WORD - 1,
         bytes = 0 \/ Leading(enc) <= bytes
  PROVE  /\ \A i \in 1 .. bytes : decrypt(bytes).out[i] = pos + (i - 1)
         /\ decrypt(bytes).pos = pos + bytes
<1>1. pos \in Nat /\ bytes \in Nat
  BY DEF TypeOK
<1>2. CASE bytes = 0
  <2>1. decrypt(bytes) = Work /\ Work.pos = pos
    BY <1>2, WorkWrote DEF decrypt
  <2>2. QED
    BY <1>1, <1>2, <2>1
<1>3. CASE bytes # 0
  <2>1. ~counter_rollover(bytes, enc, iv)
    BY DEF counter_rollover
  <2>2. decrypt(bytes) = DecryptRest(Work, bytes)
    BY <1>3, <2>1 DEF decrypt
  <2>3. /\ \A i \in 1 .. bytes : DecryptRest(Work, bytes).out[i] = pos + i - 1
        /\ DecryptRest(Work, bytes).pos = pos + bytes
    BY <1>3, RestWrote
  <2>4. \A i \in 1 .. bytes : pos + i - 1 = pos + (i - 1)
    BY <1>1
  <2>5. QED
    BY <2>2, <2>3, <2>4
<1>4. QED
  BY <1>2, <1>3


Kept == PositionKept /\ StripeKept /\ OutputKept

(* What is decrypted of a subsample without a pattern *)
LEMMA WholeDecrypted ==
  ASSUME Placed, RolloverKept, PositionKept, Split # "any", Tame, ~failed,
         NEW c \in ClearSizes, NEW n \in Sizes, WholeSubsample(c, n),
         NEW size, size = EncryptedSize(n), NEW d, d = decrypt(size)
  PROVE  /\ \A i \in 1 .. size : d.out[i] = WantedPosition(wantEnc + (i - 1))
         /\ alg = "CTR" => d.iv = Counter(d.enc) /\ d.pos = WantedPosition(d.enc)
         /\ alg = "CTR" => d.enc = wantEnc + size
         /\ alg = "CBC" => d.pos = wantEnc + size
<1>1. /\ TypeOK /\ crypt = 0 /\ NextSubsample(c, n) /\ pc = "subsample" /\ wantEnc \in Nat
      /\ enc \in Nat /\ alg \in {"CTR", "CBC"} /\ start \in Counters
  <2>1. TypeOK /\ crypt = 0 /\ NextSubsample(c, n)
    BY DEF Placed, WholeSubsample
  <2>2. QED
    BY <2>1 DEF NextSubsample, TypeOK
<1>2. size \in 0 .. WORD - 1 /\ (size = 0 \/ Leading(enc) <= size)
  BY <1>1, RangeReaches
<1>3. Here = wantEnc
  BY <1>1 DEF PositionKept
<1>4. size \in Nat
  BY <1>2
<1>5. CASE alg = "CBC"
  <2>1. pos = wantEnc
    BY <1>3, <1>5 DEF Here
  <2>2. /\ \A i \in 1 .. size : d.out[i] = pos + (i - 1)
        /\ d.pos = pos + size
    BY <1>1, <1>2, <1>5, ChainRight
  <2>3. ASSUME NEW i \in 1 .. size
        PROVE  WantedPosition(wantEnc + (i - 1)) = wantEnc + (i - 1)
    BY <1>5 DEF WantedPosition
  <2>4. QED
    BY <1>5, <2>1, <2>2, <2>3
<1>6. CASE alg = "CTR"
  <2>1. /\ iv = Counter(enc) /\ pos = WantedPosition(enc) /\ enc = wantEnc
    BY <1>1, <1>3, <1>6 DEF PositionKept, Here
  <2>2. InPlace
    BY <1>1, <1>6, <2>1 DEF InPlace
  <2>3. size = n /\ n \in Nat
    <3>1. n \in Nat
      BY SizeIsWord
    <3>2. QED
      BY <1>1, <1>6, <3>1, WithoutPattern
  <2>4. \/ size = 0
        \/ iv + (FullBlocks(size, enc) + PartialBlocks(enc)) < WORD
        \/ enc % BLOCK = 0 /\ size % BLOCK = 0
    <3>1. SUFFICES ASSUME size # 0, FarFromRollover
                   PROVE  iv + (FullBlocks(size, enc) + PartialBlocks(enc)) < WORD
      BY <1>6, <2>3, WholeFar
    <3> DEFINE q == enc \div BLOCK
               k == FullBlocks(size, enc) + PartialBlocks(enc)
    <3>2. start + ((enc + size) \div BLOCK) < WORD
      BY <1>6, <2>3, <3>1, WholeFar
    <3>3. (enc + size) \div BLOCK = q + k
      BY <1>1, <1>2, <3>1, BlocksCounted
    <3>4. q \in Nat /\ k \in Nat /\ start \in Nat /\ WORD \in Nat \ {0}
      <4>1. FullBlocks(size, enc) \in Nat
        BY <1>1, <1>2, <3>1, Fulls
      <4>2. PartialBlocks(enc) \in {0, 1} /\ q \in Nat
        BY <1>1, Leads, InBlocks
      <4>3. QED
        BY <1>1, <4>1, <4>2, Constants
    <3>5. iv = (start + q) % WORD
      BY <2>1 DEF Counter
    <3> HIDE DEF q, k
    <3> DEFINE z == start + q
    <3>6. z \in 0 .. WORD - 1 /\ z + k < WORD
      BY <3>2, <3>3, <3>4
    <3> HIDE DEF z
    <3>7. z % WORD = z
      BY <3>4, <3>6, SmallRemainder
    <3>8. iv + k < WORD
      BY <3>5, <3>6, <3>7 DEF z
    <3>9. QED
      BY <3>8 DEF k
  <2>5. Right(d, enc, size)
    BY <1>2, <2>2, <2>4, DecryptRight
  <2>6. d.enc = enc + size /\ d.iv = Counter(d.enc) /\ d.pos = WantedPosition(d.enc)
        /\ \A i \in 1 .. size : d.out[i] = WantedPosition(enc + (i - 1))
    BY <2>5 DEF Right, Wrote
  <2>7. QED
    BY <1>6, <2>1, <2>6
<1>7. QED
  BY <1>1, <1>5, <1>6

LEMMA WholeKept ==
  ASSUME Placed, RolloverKept, Kept, Split # "any",
         NEW c \in ClearSizes, NEW n \in Sizes, WholeSubsample(c, n)
  PROVE  Kept'
<1> DEFINE size == EncryptedSize(n)
           d == decrypt(size)
           tail == d.out \o ClearBytes(n - size)
           head == out \o ClearBytes(c)
<1>1. /\ TypeOK /\ crypt = 0 /\ NextSubsample(c, n) /\ pc = "subsample" /\ pc' = "subsample"
      /\ UNCHANGED sample /\ UNCHANGED failed /\ iv' = d.iv /\ enc' = d.enc /\ pos' = d.pos
      /\ alg \in {"CTR", "CBC"} /\ wantEnc \in Nat
  <2>1. TypeOK /\ crypt = 0 /\ NextSubsample(c, n)
    BY DEF Placed, WholeSubsample
  <2>2. QED
    BY <2>1 DEF NextSubsample, TypeOK, WholeSubsample
<1>2. /\ size \in 0 .. WORD - 1 /\ size <= n /\ n \in Nat
      /\ tail \in Seq(Int) /\ Len(tail) = n
      /\ \A i \in 1 .. size : tail[i] = d.out[i]
      /\ \A i \in 1 .. n : i > size => tail[i] = Clear
      /\ out' = head \o tail
  BY WholeAppends
<1>3. /\ \A j \in 0 .. n - 1 : IsEncrypted(n, j) <=> j < size
      /\ \A j \in 0 .. size : EncryptedBefore(n, j) = j
      /\ EncryptedBefore(n, n) = size
  BY <1>1, <1>2, WithoutPattern
<1>4. wantEnc' = wantEnc + size /\ want' = (want \o ClearBytes(c)) \o WantedProtected(n)
  BY <1>1, <1>3 DEF NextSubsample
<1>5. ASSUME Tame, ~failed
      PROVE  /\ \A i \in 1 .. size : d.out[i] = WantedPosition(wantEnc + (i - 1))
             /\ alg = "CTR" => d.iv = Counter(d.enc) /\ d.pos = WantedPosition(d.enc)
             /\ alg = "CTR" => d.enc = wantEnc + size
             /\ alg = "CBC" => d.pos = wantEnc + size
  BY <1>5, WholeDecrypted DEF Kept
<1> HIDE DEF size, d, tail, head
<1>6. PositionKept'
  BY <1>1, <1>4, <1>5, PositionNext
<1>7. StripeKept'
  BY <1>1 DEF StripeKept
<1>8. OutputKept'
  <2>1. SUFFICES ASSUME Tame, ~failed PROVE out' = want'
    BY <1>1, SampleKept DEF OutputKept
  <2>2. out = want
    BY <1>1, <2>1, OutputIsWanted DEF Kept
  <2> DEFINE f == WantedProtected(n)
  <2>3. /\ f \in Seq(Int) /\ Len(f) = n
        /\ \A i \in 1 .. n : f[i] = IF IsEncrypted(n, i - 1)
                                    THEN WantedPosition(FirstOf + EncryptedBefore(n, i - 1))
                                    ELSE Clear
    BY <1>1, <1>2, WantedProtectedIs
  <2>4. FirstOf = wantEnc
    BY <1>1 DEF FirstOf
  <2> HIDE DEF f
  <2>5. ASSUME NEW i \in 1 .. n
        PROVE  tail[i] = f[i]
    <3> DEFINE j == i - 1
    <3>1. j \in 0 .. n - 1
      BY <1>2
    <3>2. f[i] = IF IsEncrypted(n, j)
                 THEN WantedPosition(wantEnc + EncryptedBefore(n, j))
                 ELSE Clear
      BY <2>3, <2>4
    <3>3. CASE i <= size
      <4>1. j \in 0 .. size /\ j < size /\ i \in 1 .. size
        BY <1>2, <3>3
      <4>2. tail[i] = WantedPosition(wantEnc + j)
        BY <1>2, <1>5, <2>1, <4>1
      <4> HIDE DEF j
      <4>3. IsEncrypted(n, j) /\ EncryptedBefore(n, j) = j
        BY <1>3, <3>1, <4>1
      <4>4. QED
        BY <3>2, <4>2, <4>3
    <3>4. CASE i > size
      <4>1. ~(j < size)
        BY <1>2, <3>4
      <4> HIDE DEF j
      <4>2. ~IsEncrypted(n, j)
        BY <1>3, <3>1, <4>1
      <4>3. QED
        BY <1>2, <3>2, <3>4, <4>2
    <3>5. QED
      BY <1>2, <3>3, <3>4
  <2>6. tail = f
    BY <1>2, <2>3, <2>5, SeqEqual
  <2>7. QED
    BY <1>2, <1>4, <2>2, <2>6 DEF f, head
<1>9. QED
  BY <1>6, <1>7, <1>8 DEF Kept

(* A failure is told from, and the end of the sample changes, nothing. *)
LEMMA FailsKept ==
  ASSUME UNCHANGED sample, failed' = TRUE
  PROVE  Kept'
BY DEF Kept, PositionKept, StripeKept, OutputKept

LEMMA DoneKept ==
  ASSUME Kept, Done
  PROVE  Kept'
<1>1. UNCHANGED sample /\ pc' = "done" /\ UNCHANGED <<out, want, failed>>
  BY DEF Done
<1>2. Tame' <=> Tame
  BY <1>1, SampleKept
<1>3. PositionKept' /\ StripeKept'
  BY <1>1 DEF PositionKept, StripeKept
<1>4. OutputKept'
  BY <1>1, <1>2 DEF Kept, OutputKept
<1>5. QED
  BY <1>3, <1>4 DEF Kept

LEMMA BeginsKept ==
  ASSUME Placed, Kept, NEW c \in ClearSizes, NEW n \in Sizes, PatternSubsample(c, n)
  PROVE  Kept'
<1> DEFINE head == want \o ClearBytes(c)
           f == WantedProtected(n)
<1>1. /\ TypeOK /\ crypt > 0 /\ NextSubsample(c, n) /\ pc = "subsample" /\ pc' = "stripe"
      /\ UNCHANGED sample /\ UNCHANGED <<failed, enc>> /\ left' = n
      /\ alg \in {"CTR", "CBC"} /\ wantEnc \in Nat /\ enc \in Nat
      /\ ResetIv(n) /\ want' = head \o f /\ BLOCK \in Nat \ {0}
  <2>1. TypeOK /\ crypt > 0 /\ NextSubsample(c, n)
    BY DEF Placed, PatternSubsample
  <2>2. QED
    BY <2>1, SizesAssumption DEF NextSubsample, TypeOK, PatternSubsample
<1>2. /\ head \in Seq(Int) /\ Len(head) = Len(want) + c
      /\ c \in Nat /\ n \in Nat /\ Len(want) \in Nat
      /\ wantEnc' = wantEnc + EncryptedBefore(n, n)
      /\ EncryptedBefore(n, n) \in Nat /\ wantEnc' \in Nat
  BY <1>1, SubsampleBegins
<1>3. /\ f \in Seq(Int) /\ Len(f) = n /\ FirstOf \in Nat
      /\ \A i \in 1 .. n : f[i] = WantedAt(n, FirstOf, i - 1)
  BY <1>1, <1>2, WantedProtectedIs DEF WantedAt
<1>4. Len(out') = Len(out) + c /\ out' = out \o ClearBytes(c)
  BY BeginsPlaced
<1> HIDE DEF head, f
<1>5. /\ \A i \in 1 .. Len(head) : (head \o f)[i] = head[i]
      /\ \A i \in 1 .. n : (head \o f)[Len(head) + i] = f[i]
  <2>1. /\ \A i \in 1 .. Len(head) : (head \o f)[i] = head[i]
        /\ \A i \in 1 .. Len(f) : (head \o f)[Len(head) + i] = f[i]
    BY <1>2, <1>3, Joined
  <2>2. QED
    BY <1>3, <2>1
<1>6. crypt # 0
  BY <1>1, PatternIs DEF TypeOK
<1>7. ASSUME Tame, ~failed
      PROVE  /\ out' = head
             /\ alg = "CTR" => /\ iv = Counter(enc) /\ pos = WantedPosition(enc)
                               /\ enc = wantEnc
  <2>1. out = want
    BY <1>1, <1>7, OutputIsWanted DEF Kept
  <2>2. QED
    BY <1>1, <1>4, <1>7, <2>1 DEF head, Kept, PositionKept, Here
<1>8. PositionKept'
  <2>1. ASSUME alg = "CTR"
        PROVE  UNCHANGED <<iv, pos>>
    BY <1>1, <2>1 DEF ResetIv
  <2>2. QED
    BY <1>1, <1>7, <2>1, PositionNext
<1>9. StripeKept'
  <2>1. SUFFICES ASSUME Tame, ~failed PROVE StripeKept'
    BY <1>1, SampleKept DEF StripeKept
  <2> DEFINE k == BLOCK * (crypt + skip)
  <2>2. n - left' = 0 /\ left' <= n
    BY <1>1, <1>2
  <2>3. 0 % BLOCK = 0 /\ 0 % k = 0
    <3>1. k \in Nat \ {0}
      <4>1. crypt \in Nat \ {0} /\ skip \in Nat
        BY <1>1, PatternIs DEF TypeOK
      <4> DEFINE p == crypt + skip
      <4>2. p \in Nat \ {0}
        BY <4>1
      <4> HIDE DEF p
      <4>3. BLOCK * p \in Nat \ {0}
        BY <1>1, <4>2, Z3
      <4>4. QED
        BY <4>3 DEF p
    <3> HIDE DEF k
    <3>2. QED
      BY <1>1, <3>1, SmallRemainder
  <2>4. EncryptedBefore(n, 0) = 0
    BY NoneBefore
  <2>5. FirstOf \in 0 .. wantEnc' /\ (alg = "CTR" => FirstOf = wantEnc)
    BY <1>1, <1>2 DEF FirstOf
  <2>6. alg = "CTR" \/ left' > 0 => (IF alg = "CTR" THEN enc' ELSE pos') = FirstOf
    <3>1. CASE alg = "CTR"
      BY <1>1, <1>7, <2>1, <2>5, <3>1
    <3>2. CASE alg = "CBC" /\ n > 0
      <4>1. pos' = 0
        BY <1>1, <3>2 DEF ResetIv, SetIv
      <4>2. QED
        BY <1>1, <3>2, <4>1 DEF FirstOf
    <3>3. QED
      BY <1>1, <3>1, <3>2
  <2>7. ASSUME NEW i \in 1 .. left'
        PROVE  want'[Len(out') + i] = WantedAt(n, FirstOf, n - left' + i - 1)
    <3>1. i \in 1 .. n /\ n - left' + i - 1 = i - 1
      BY <1>1, <1>2
    <3>2. want'[Len(out') + i] = f[i]
      BY <1>1, <1>5, <1>7, <2>1, <3>1
    <3>3. QED
      BY <1>3, <3>1, <3>2
  <2>8. FirstOf + EncryptedBefore(n, n - left') = FirstOf
    BY <1>3, <2>2, <2>4
  <2> HIDE DEF k
  <2>9. (n - left') % BLOCK = 0 /\ (n - left') % k = 0
    BY <2>2, <2>3
  <2>10. QED
    BY <1>1, <1>2, <2>2, <2>5, <2>6, <2>7, <2>8, <2>9, StripeNext DEF k
<1>10. OutputKept'
  <2>1. SUFFICES ASSUME Tame, ~failed
                 PROVE  \A i \in 1 .. Len(out') : out'[i] = want'[i]
    BY <1>1, SampleKept DEF OutputKept
  <2>2. out' = head
    BY <1>7, <2>1
  <2>3. QED
    BY <1>1, <1>5, <2>2
<1>11. QED
  BY <1>8, <1>9, <1>10 DEF Kept

(* What a stripe decrypts *)
LEMMA StripeDecrypted ==
  ASSUME Placed, PositionKept, Tame, ~failed, PatternStripe,
         NEW x, x = Stripe(crypt, left), NEW d, d = decrypt(x)
  PROVE  /\ \A i \in 1 .. x : d.out[i] = WantedPosition(Here + (i - 1))
         /\ alg = "CTR" => d.iv = Counter(d.enc) /\ d.pos = WantedPosition(d.enc)
         /\ (IF alg = "CTR" THEN d.enc ELSE d.pos) = Here + x
<1>1. /\ TypeOK /\ pc = "stripe" /\ crypt > 0 /\ enc \in Nat /\ alg \in {"CTR", "CBC"}
      /\ start \in Counters /\ enc % BLOCK = 0
  BY DEF Placed, PatternStripe, TypeOK, LengthsKept, BlocksKept
<1>2. x \in 0 .. WORD - 1 /\ x % BLOCK = 0
  BY StripeAppends
<1>3. Leading(enc) <= x /\ x \in Nat
  <2>1. Leading(enc) = 0
    BY <1>1, Leads
  <2>2. QED
    BY <1>2, <2>1
<1>4. CASE alg = "CBC"
  <2>1. /\ \A i \in 1 .. x : d.out[i] = pos + (i - 1)
        /\ d.pos = pos + x
    BY <1>1, <1>2, <1>3, <1>4, ChainRight
  <2>2. Here = pos /\ \A i \in 1 .. x : WantedPosition(pos + (i - 1)) = pos + (i - 1)
    BY <1>4 DEF Here, WantedPosition
  <2>3. QED
    BY <1>4, <2>1, <2>2
<1>5. CASE alg = "CTR"
  <2>1. iv = Counter(enc) /\ pos = WantedPosition(enc) /\ Here = enc
    BY <1>1, <1>5 DEF PositionKept, Here
  <2>2. InPlace
    BY <1>1, <1>5, <2>1 DEF InPlace
  <2>3. Right(d, enc, x)
    BY <1>1, <1>2, <1>3, <2>2, DecryptRight
  <2>4. d.enc = enc + x /\ d.iv = Counter(d.enc) /\ d.pos = WantedPosition(d.enc)
        /\ \A i \in 1 .. x : d.out[i] = WantedPosition(enc + (i - 1))
    BY <2>3 DEF Right, Wrote
  <2>5. QED
    BY <1>5, <2>1, <2>4
<1>6. QED
  BY <1>1, <1>4, <1>5

(* Remaining, with the a bytes of the subsample that are done *)
LEMMA RemainingIs ==
  ASSUME TypeOK, StripeKept, Tame, ~failed, pc = "stripe"
  PROVE  \E n \in Sizes, first \in 0 .. wantEnc, a \in Nat :
           /\ first \in Nat /\ n = a + left /\ a = n - left
           /\ a % BLOCK = 0
           /\ left < BLOCK \/ a % (BLOCK * (crypt + skip)) = 0
           /\ alg = "CTR" => wantEnc = first + EncryptedBefore(n, n)
           /\ alg = "CTR" \/ left > 0 => Here = first + EncryptedBefore(n, a)
           /\ EncryptedBefore(n, a) \in Nat
           /\ \A i \in 1 .. left : want[Len(out) + i] = WantedAt(n, first, a + (i - 1))
<1>1. PICK n \in Sizes, first \in 0 .. wantEnc : Remaining(n, first)
  BY DEF StripeKept
<1> DEFINE a == n - left
<1>2. n \in Nat /\ left \in Nat /\ left <= n /\ a \in Nat /\ first \in Nat /\ n = a + left
  BY <1>1, SizeIsWord DEF TypeOK, Remaining
<1>3. EncryptedBefore(n, a) \in Nat
  BY <1>2, EncryptedFinite
<1>4. /\ a % BLOCK = 0
      /\ left < BLOCK \/ a % (BLOCK * (crypt + skip)) = 0
      /\ alg = "CTR" => wantEnc = first + EncryptedBefore(n, n)
      /\ alg = "CTR" \/ left > 0 => Here = first + EncryptedBefore(n, a)
      /\ \A i \in 1 .. left : want[Len(out) + i] = WantedAt(n, first, a + i - 1)
  BY <1>1 DEF Remaining, WantedAt
<1>5. \A i \in 1 .. left : a + i - 1 = a + (i - 1)
  BY <1>2
<1>6. \A i \in 1 .. left : want[Len(out) + i] = WantedAt(n, first, a + (i - 1))
  BY <1>4, <1>5
<1>7. a = n - left
  OBVIOUS
<1> HIDE DEF a
<1>8. QED
  BY <1>2, <1>3, <1>4, <1>6, <1>7

LEMMA StripeStepKept ==
  ASSUME Placed, Kept, PatternStripe
  PROVE  Kept'
<1> DEFINE x == Stripe(crypt, left)
           s == Skipped(left - x)
           d == decrypt(x)
<1>1. /\ TypeOK /\ pc = "stripe" /\ pc' = "stripe" /\ crypt > 0 /\ left \in Nat /\ left >= BLOCK
      /\ UNCHANGED sample /\ UNCHANGED <<failed, want, wantEnc>>
      /\ alg \in {"CTR", "CBC"} /\ wantEnc \in Nat /\ BLOCK \in Nat \ {0} /\ Len(out) \in Nat
  BY LenProperties, SizesAssumption DEF Placed, PatternStripe, TypeOK, LengthsKept
<1>2. /\ x \in Nat /\ s \in Nat /\ x + s <= left /\ x % BLOCK = 0
      /\ iv' = d.iv /\ enc' = d.enc /\ pos' = d.pos
      /\ left' = left - (x + s)
      /\ Len(out') = Len(out) + (x + s)
      /\ \A i \in 1 .. Len(out) : out'[i] = out[i]
      /\ \A i \in 1 .. x : out'[Len(out) + i] = d.out[i]
      /\ \A i \in 1 .. s : out'[(Len(out) + x) + i] = Clear
  BY StripeAppends
<1>3. SUFFICES ASSUME Tame, ~failed PROVE Kept'
  BY <1>1, SampleKept DEF Kept, PositionKept, StripeKept, OutputKept
<1>4. /\ \A i \in 1 .. x : d.out[i] = WantedPosition(Here + (i - 1))
      /\ alg = "CTR" => d.iv = Counter(d.enc) /\ d.pos = WantedPosition(d.enc)
      /\ (IF alg = "CTR" THEN d.enc ELSE d.pos) = Here + x
  BY <1>3, StripeDecrypted DEF Kept
<1>5. PICK n \in Sizes, first \in 0 .. wantEnc, a \in Nat :
        /\ first \in Nat /\ n = a + left /\ a = n - left
        /\ a % BLOCK = 0
        /\ left < BLOCK \/ a % (BLOCK * (crypt + skip)) = 0
        /\ alg = "CTR" => wantEnc = first + EncryptedBefore(n, n)
        /\ alg = "CTR" \/ left > 0 => Here = first + EncryptedBefore(n, a)
        /\ EncryptedBefore(n, a) \in Nat
        /\ \A i \in 1 .. left : want[Len(out) + i] = WantedAt(n, first, a + (i - 1))
  BY <1>1, <1>3, RemainingIs DEF Kept
<1>6. a % (BLOCK * (crypt + skip)) = 0
  BY <1>1, <1>5
<1>7. /\ (a + (x + s)) % BLOCK = 0
      /\ \A i \in 0 .. x - 1 : IsEncrypted(n, a + i)
      /\ \A i \in 0 .. s - 1 : ~IsEncrypted(n, (a + x) + i)
      /\ \/ left - (x + s) < BLOCK
         \/ (a + (x + s)) % (BLOCK * (crypt + skip)) = 0
  BY <1>1, <1>5, <1>6, StripeEncrypted
<1>8. Here = first + EncryptedBefore(n, a)
  BY <1>1, <1>5
<1> HIDE DEF x, s, d
<1>9. ASSUME NEW j \in 0 .. x
      PROVE  EncryptedBefore(n, a + j) = EncryptedBefore(n, a) + j
  <2>1. j \in Nat /\ \A i \in 0 .. j - 1 : i \in 0 .. x - 1
    BY <1>2
  <2>2. \A i \in 0 .. j - 1 : IsEncrypted(n, a + i)
    BY <1>7, <2>1
  <2>3. QED
    BY <2>1, <2>2, EncryptedNext
<1>10. EncryptedBefore(n, a + (x + s)) = EncryptedBefore(n, a) + x
  <2> DEFINE b == a + x
  <2>1. b \in Nat /\ b + s = a + (x + s) /\ x \in 0 .. x
    BY <1>2
  <2>2. EncryptedBefore(n, b) = EncryptedBefore(n, a) + x
    BY <1>9, <2>1
  <2>3. \A i \in 0 .. s - 1 : ~IsEncrypted(n, b + i)
    BY <1>7
  <2> HIDE DEF b
  <2>4. EncryptedBefore(n, b + s) = EncryptedBefore(n, b)
    BY <1>2, <2>1, <2>3, NoneNext
  <2>5. QED
    BY <2>1, <2>2, <2>4
<1>11. PositionKept'
  BY <1>1, <1>2, <1>4, PositionNext
<1>12. StripeKept'
  <2> DEFINE b == a + (x + s)
  <2>1. n - left' = b /\ left' <= n /\ b \in Nat /\ left' \in Nat
    BY <1>1, <1>2, <1>5
  <2>2. b % BLOCK = 0 /\ (left' < BLOCK \/ b % (BLOCK * (crypt + skip)) = 0)
    BY <1>2, <1>7
  <2>3. alg = "CTR" => wantEnc' = first + EncryptedBefore(n, n)
    BY <1>1, <1>5
  <2>4. (IF alg = "CTR" THEN enc' ELSE pos') = first + EncryptedBefore(n, b)
    <3>1. (IF alg = "CTR" THEN enc' ELSE pos') = Here + x
      BY <1>2, <1>4
    <3>2. (first + EncryptedBefore(n, a)) + x = first + (EncryptedBefore(n, a) + x)
      BY <1>2, <1>5
    <3>3. QED
      BY <1>8, <1>10, <3>1, <3>2
  <2>5. ASSUME NEW i \in 1 .. left'
        PROVE  want'[Len(out') + i] = WantedAt(n, first, n - left' + i - 1)
    <3> DEFINE k == (x + s) + i
    <3>1. k \in 1 .. left /\ Len(out') + i = Len(out) + k /\ n - left' + i - 1 = a + (k - 1)
      BY <1>1, <1>2, <2>1
    <3> HIDE DEF k
    <3>2. want[Len(out) + k] = WantedAt(n, first, a + (k - 1))
      BY <1>5, <3>1
    <3>3. QED
      BY <1>1, <3>1, <3>2
  <2>6. first \in 0 .. wantEnc'
    BY <1>1
  <2> HIDE DEF b
  <2>7. QED
    BY <1>1, <2>1, <2>2, <2>3, <2>4, <2>5, <2>6, StripeNext
<1>13. OutputKept'
  <2>1. SUFFICES ASSUME NEW i \in 1 .. Len(out') PROVE out'[i] = want'[i]
    BY DEF OutputKept
  <2>2. CASE i <= Len(out)
    BY <1>1, <1>2, <1>3, <2>2 DEF Kept, OutputKept
  <2>3. CASE i > Len(out) /\ i <= Len(out) + x
    <3> DEFINE k == i - Len(out)
               j == k - 1
    <3>1. k \in 1 .. x /\ k \in 1 .. left /\ j \in 0 .. x - 1 /\ j \in 0 .. x /\ Len(out) + k = i
      BY <1>1, <1>2, <2>3
    <3>2. out'[Len(out) + k] = WantedPosition(Here + j)
      BY <1>2, <1>4, <3>1
    <3>3. want[Len(out) + k] = WantedAt(n, first, a + j)
      BY <1>5, <3>1
    <3> HIDE DEF k, j
    <3>4. IsEncrypted(n, a + j) /\ EncryptedBefore(n, a + j) = EncryptedBefore(n, a) + j
      BY <1>7, <1>9, <3>1
    <3>5. Here + j = first + EncryptedBefore(n, a + j)
      <4> DEFINE e == EncryptedBefore(n, a)
      <4>1. j \in Nat /\ e \in Nat /\ first \in Nat
        BY <1>5, <3>1
      <4>2. Here = first + e /\ EncryptedBefore(n, a + j) = e + j
        BY <1>8, <3>4
      <4> HIDE DEF e
      <4>3. (first + e) + j = first + (e + j)
        BY <4>1
      <4>4. QED
        BY <4>2, <4>3
    <3>6. QED
      BY <1>1, <3>1, <3>2, <3>3, <3>4, <3>5 DEF WantedAt
  <2>4. CASE i > Len(out) + x
    <3> DEFINE k == i - (Len(out) + x)
               j == k - 1
               m == x + k
    <3>1. k \in 1 .. s /\ j \in 0 .. s - 1 /\ (Len(out) + x) + k = i
          /\ m \in 1 .. left /\ Len(out) + m = i /\ a + (m - 1) = (a + x) + j
      <4>1. Len(out) \in Nat /\ x \in Nat /\ s \in Nat /\ x + s <= left /\ left \in Nat
        BY <1>1, <1>2
      <4>2. i \in Nat /\ i <= Len(out) + (x + s)
        BY <1>2, <4>1
      <4>3. k \in 1 .. s /\ (Len(out) + x) + k = i
        BY <2>4, <4>1, <4>2
      <4> HIDE DEF k
      <4>4. j \in 0 .. s - 1 /\ m \in 1 .. left /\ Len(out) + m = i
        BY <4>1, <4>3
      <4>5. a + (m - 1) = (a + x) + j
        BY <4>1, <4>3
      <4>6. QED
        BY <4>3, <4>4, <4>5
    <3> HIDE DEF k, j, m
    <3>2. out'[i] = Clear
      BY <1>2, <3>1
    <3>3. want[i] = WantedAt(n, first, (a + x) + j)
      BY <1>5, <3>1
    <3>4. ~IsEncrypted(n, (a + x) + j)
      BY <1>7, <3>1
    <3>5. QED
      BY <1>1, <3>2, <3>3, <3>4 DEF WantedAt
  <2>5. QED
    BY <1>1, <1>2, <2>2, <2>3, <2>4
<1>14. QED
  BY <1>11, <1>12, <1>13 DEF Kept

LEMMA RemainderKept ==
  ASSUME Placed, Kept, PatternRemainder
  PROVE  Kept'
<1>1. /\ TypeOK /\ pc = "stripe" /\ pc' = "subsample" /\ crypt > 0 /\ left < BLOCK
      /\ UNCHANGED sample /\ UNCHANGED <<failed, want, wantEnc, iv, enc, pos>>
      /\ alg \in {"CTR", "CBC"}
  BY DEF Placed, PatternRemainder, TypeOK, LengthsKept
<1>2. /\ Len(out) \in Nat /\ left \in Nat
      /\ Len(out') = Len(out) + left
      /\ \A i \in 1 .. Len(out) : out'[i] = out[i]
      /\ \A i \in 1 .. left : out'[Len(out) + i] = Clear
  BY EndsPlaced
<1>3. SUFFICES ASSUME Tame, ~failed PROVE Kept'
  BY <1>1, SampleKept DEF Kept, PositionKept, StripeKept, OutputKept
<1>4. PICK n \in Sizes, first \in 0 .. wantEnc, a \in Nat :
        /\ first \in Nat /\ n = a + left /\ a = n - left
        /\ a % BLOCK = 0
        /\ left < BLOCK \/ a % (BLOCK * (crypt + skip)) = 0
        /\ alg = "CTR" => wantEnc = first + EncryptedBefore(n, n)
        /\ alg = "CTR" \/ left > 0 => Here = first + EncryptedBefore(n, a)
        /\ EncryptedBefore(n, a) \in Nat
        /\ \A i \in 1 .. left : want[Len(out) + i] = WantedAt(n, first, a + (i - 1))
  BY <1>1, <1>3, RemainingIs DEF Kept
<1>5. \A i \in Nat : ~IsEncrypted(n, a + i)
  BY <1>1, <1>2, <1>4, RemainderIsClear
<1>6. EncryptedBefore(n, n) = EncryptedBefore(n, a)
  <2>1. \A i \in 0 .. left - 1 : ~IsEncrypted(n, a + i)
    BY <1>5
  <2>2. EncryptedBefore(n, a + left) = EncryptedBefore(n, a)
    BY <1>2, <2>1, NoneNext
  <2>3. QED
    BY <1>4, <2>2
<1>7. PositionKept'
  <2>1. alg = "CTR" => iv = Counter(enc) /\ pos = WantedPosition(enc)
    BY <1>1, <1>3 DEF Kept, PositionKept
  <2>2. ~(crypt = 0)
    BY <1>1, PatternIs DEF TypeOK
  <2>3. alg = "CTR" => enc = wantEnc
    BY <1>4, <1>6 DEF Here
  <2>4. QED
    BY <1>1, <2>1, <2>2, <2>3, PositionNext
<1>8. StripeKept'
  BY <1>1 DEF StripeKept
<1>9. OutputKept'
  <2>1. SUFFICES ASSUME NEW i \in 1 .. Len(out') PROVE out'[i] = want'[i]
    BY DEF OutputKept
  <2>2. CASE i <= Len(out)
    BY <1>1, <1>2, <1>3, <2>2 DEF Kept, OutputKept
  <2>3. CASE i > Len(out)
    <3> DEFINE k == i - Len(out)
               j == k - 1
    <3>1. k \in 1 .. left /\ j \in Nat /\ Len(out) + k = i
      BY <1>2, <2>3
    <3>2. want[Len(out) + k] = WantedAt(n, first, a + j)
      BY <1>4, <3>1
    <3> HIDE DEF k, j
    <3>3. ~IsEncrypted(n, a + j)
      BY <1>5, <3>1
    <3>4. out'[Len(out) + k] = Clear
      BY <1>2, <3>1
    <3>5. QED
      BY <1>1, <3>1, <3>2, <3>3, <3>4 DEF WantedAt
  <2>4. QED
    BY <1>2, <2>2, <2>3
<1>10. QED
  BY <1>7, <1>8, <1>9 DEF Kept

-----------------------------------------------------------------------------
(* The inductive invariant                                                   *)

LEMMA InitIInv ==
  ASSUME Init
  PROVE  IInv
<1>1. /\ Placed /\ enc = 0 /\ count = 0 /\ out = <<>> /\ want = <<>> /\ wantEnc = 0
      /\ pc = "subsample" /\ iv = start /\ pos = SetIv(alg, start) /\ start \in Counters
  BY InitPlaced DEF Init
<1>2. BLOCK \in Nat \ {0} /\ WORD \in Nat \ {0} /\ start \in 0 .. WORD - 1 /\ start \in Nat
  BY <1>1, Constants
<1>3. 0 % BLOCK = 0 /\ 0 \div BLOCK = 0 /\ start % WORD = start
  BY <1>2, SmallRemainder
<1>4. RolloverKept
  <2>1. PerSubsample \in Nat
    BY BlocksOfSubsample, SizesAssumption
  <2>2. 0 * PerSubsample = 0
    BY <2>1
  <2>3. PartialBlocks(0) = 0
    BY <1>3, Leads
  <2>4. QED
    BY <1>1, <1>3, <2>2, <2>3 DEF RolloverKept, PerSubsample
<1>5. PositionKept
  <2>1. Counter(0) = start
    <3>1. start + 0 = start
      BY <1>2
    <3>2. QED
      BY <1>3, <3>1 DEF Counter
  <2>2. start * BLOCK \in Nat
    BY <1>2, Products
  <2>3. alg = "CTR" => pos = start * BLOCK
    BY <1>1, <1>2, SetIvIs
  <2>4. alg = "CTR" => WantedPosition(0) = (Counter(0) * BLOCK) + (0 % BLOCK)
    BY <1>1, WantedIs
  <2>5. alg = "CTR" => pos = WantedPosition(0)
    BY <1>3, <2>1, <2>2, <2>3, <2>4
  <2>6. alg # "CTR" => pos = 0
    BY <1>1 DEF SetIv
  <2>7. QED
    BY <1>1, <2>1, <2>5, <2>6 DEF PositionKept, Here
<1>6. StripeKept
  BY <1>1 DEF StripeKept
<1>7. OutputKept
  BY <1>1, EmptySeq DEF OutputKept
<1>8. QED
  BY <1>1, <1>4, <1>5, <1>6, <1>7 DEF IInv

LEMMA NextIInv ==
  ASSUME IInv, Split # "any", [Next]_vars
  PROVE  IInv'
<1>1. Placed /\ RolloverKept /\ Kept /\ Placed'
  BY NextPlaced DEF IInv, Kept
<1>2. SUFFICES RolloverKept' /\ Kept'
  BY <1>1 DEF IInv, Kept
<1>3. ASSUME NEW c \in ClearSizes, NEW n \in Sizes, WholeSubsample(c, n)
      PROVE  RolloverKept' /\ Kept'
  BY <1>1, <1>3, WholeRollover, WholeKept
<1>4. ASSUME NEW c \in ClearSizes, NEW n \in Sizes, SubsampleFails(c, n)
      PROVE  RolloverKept' /\ Kept'
  <2>1. UNCHANGED sample /\ UNCHANGED <<alg, crypt, start>> /\ failed' = TRUE /\ pc' = "done"
    BY <1>4 DEF SubsampleFails, sample
  <2>2. QED
    BY <1>1, <2>1, OtherRollover, FailsKept
<1>5. ASSUME NEW c \in ClearSizes, NEW n \in Sizes, PatternSubsample(c, n)
      PROVE  RolloverKept' /\ Kept'
  <2>1. UNCHANGED <<alg, crypt, start>> /\ crypt > 0
    BY <1>5 DEF PatternSubsample, sample
  <2>2. QED
    BY <1>1, <1>5, <2>1, OtherRollover, BeginsKept
<1>6. CASE PatternStripe
  <2>1. UNCHANGED <<alg, crypt, start>> /\ crypt > 0
    BY <1>1, <1>6 DEF PatternStripe, sample, Placed, LengthsKept
  <2>2. QED
    BY <1>1, <1>6, <2>1, OtherRollover, StripeStepKept
<1>7. CASE StripeFails
  <2>1. UNCHANGED sample /\ UNCHANGED <<alg, crypt, start>> /\ failed' = TRUE /\ crypt > 0
    BY <1>1, <1>7 DEF StripeFails, sample, Placed, LengthsKept
  <2>2. QED
    BY <1>1, <2>1, OtherRollover, FailsKept
<1>8. CASE PatternRemainder
  <2>1. UNCHANGED <<alg, crypt, start>> /\ crypt > 0
    BY <1>1, <1>8 DEF PatternRemainder, sample, Placed, LengthsKept
  <2>2. QED
    BY <1>1, <1>8, <2>1, OtherRollover, RemainderKept
<1>9. CASE Done
  <2>1. UNCHANGED <<alg, crypt, start>> /\ pc' = "done"
    BY <1>9 DEF Done, sample
  <2>2. QED
    BY <1>1, <1>9, <2>1, OtherRollover, DoneKept
<1>10. CASE UNCHANGED vars
  <2>1. /\ UNCHANGED <<alg, crypt, skip, start>> /\ UNCHANGED sample
        /\ UNCHANGED <<iv, enc, pos, out, left, pc, count, failed, want, wantEnc>>
    BY <1>10 DEF vars, sample
  <2>2. RolloverKept'
    BY <1>1, <2>1, OtherRollover
  <2>3. PositionKept'
    BY <1>1, <2>1 DEF Kept, PositionKept, Here, Tame, FarFromRollover, Counter, WantedPosition
  <2>4. StripeKept'
    <3>1. SUFFICES ASSUME Tame, ~failed, pc = "stripe" PROVE StripeKept'
      BY <2>1, SampleKept DEF StripeKept
    <3>2. PICK n \in Sizes, first \in 0 .. wantEnc : Remaining(n, first)
      BY <1>1, <3>1 DEF Kept, StripeKept
    <3>3. /\ left <= n
          /\ (n - left) % BLOCK = 0
          /\ left < BLOCK \/ (n - left) % (BLOCK * (crypt + skip)) = 0
          /\ alg = "CTR" => wantEnc = first + EncryptedBefore(n, n)
          /\ alg = "CTR" \/ left > 0 =>
               (IF alg = "CTR" THEN enc ELSE pos) = first + EncryptedBefore(n, n - left)
          /\ \A i \in 1 .. left : want[Len(out) + i] = WantedAt(n, first, n - left + i - 1)
      BY <3>2 DEF Remaining, WantedAt, Here
    <3>4. first \in 0 .. wantEnc'
      BY <2>1
    <3>5. QED
      BY <2>1, <3>3, <3>4, StripeNext
  <2>5. OutputKept'
    BY <1>1, <2>1, SampleKept DEF Kept, OutputKept
  <2>6. QED
    BY <2>2, <2>3, <2>4, <2>5 DEF Kept
<1>11. QED
  BY <1>3, <1>4, <1>5, <1>6, <1>7, <1>8, <1>9, <1>10 DEF Next

(* The counter that decrypt() keeps and the position of OpenSSL are those of *)
(* the bytes decrypted so far, and the output is what was wanted so far.     *)
THEOREM IInvAlways ==
  ASSUME Split # "any"
  PROVE  Spec => []IInv
<1>1. Init => IInv
  BY InitIInv
<1>2. IInv /\ [Next]_vars => IInv'
  BY NextIInv
<1>3. QED
  BY <1>1, <1>2, PTL DEF Spec

LEMMA IInvRight ==
  ASSUME IInv, Tame
  PROVE  SampleRight
BY OutputIsWanted DEF IInv, SampleRight

(* cenc_process_sample decrypts every byte that is encrypted with the key    *)
(* stream, or the chain, of its place and copies the others, when no call of *)
(* OpenSSL fails: in all four modes, with any pattern, and through the       *)
(* rollover of the counter when the ranges of AES-CTR end at blocks.         *)
THEOREM SampleRightAlways ==
  ASSUME Split = "regular"
  PROVE  Spec => []SampleRight
<1>1. Spec => []IInv
  BY IInvAlways
<1>2. IInv => SampleRight
  BY IInvRight DEF Tame
<1>3. QED
  BY <1>1, <1>2, PTL

(* ... and with ranges that end inside blocks as long as the counter cannot  *)
(* roll over within the sample, which is what the run CencRollover shows to  *)
(* be needed.                                                                *)
THEOREM SampleRightFarFromRollover ==
  ASSUME Split # "any"
  PROVE  Spec => [](FarFromRollover => SampleRight)
<1>1. Spec => []IInv
  BY IInvAlways
<1>2. IInv => (FarFromRollover => SampleRight)
  <2>1. Split \in {"regular", "reaching"}
    BY SizesAssumption
  <2>2. QED
    BY <2>1, IInvRight DEF Tame
<1>3. QED
  BY <1>1, <1>2, PTL
=============================================================================
