-------------------------------- MODULE Cenc --------------------------------
(***************************************************************************)
(* Decryption of a sample of common encryption (cenc.c): the four modes,   *)
(* the pattern of encrypted and skipped blocks, and the counter of AES-CTR *)
(* that decrypt() keeps beside the one of OpenSSL to find its rollover.    *)
(*                                                                         *)
(* Data is abstracted to where it comes from.  A byte of the output is     *)
(* Clear when it was copied, and otherwise the position of its key stream  *)
(* (AES-CTR) or of its chain (AES-CBC): BLOCK * counter + offset, with the *)
(* counter that OpenSSL has, which is not reduced modulo WORD: a position  *)
(* of BLOCK * WORD or more has a carry into the nonce half of the IV.  For *)
(* AES-CBC the position counts the bytes since the IV was set.             *)
(***************************************************************************)
EXTENDS Integers, Sequences, FiniteSets, FiniteSetsExt

CONSTANTS
  BLOCK,          \* AES_BLOCK_SIZE
  WORD,           \* 2^64, of size_t and of the counter half of the IV
  Counters,       \* counters that samples start with
  ClearSizes,     \* values of bytes_of_clear_data
  Sizes,          \* values of bytes_of_protected_data
  Patterns,       \* <<crypt_byte_block, skip_byte_block>>
  MaxSubsamples,  \* bound
  Split,          \* how protected ranges of AES-CTR divide blocks:
                  \* "regular", "reaching" or "any"
  MayFail         \* whether OpenSSL may fail

ASSUME SizesAssumption ==
  /\ BLOCK \in Nat \ {0} /\ WORD \in Nat /\ WORD % BLOCK = 0
  /\ Sizes # {}
  /\ Counters \subseteq 0 .. WORD - 1
  /\ ClearSizes \cup Sizes \subseteq 0 .. WORD - 1
  /\ MaxSubsamples \in Nat
  /\ Split \in {"regular", "reaching", "any"}
  /\ MayFail \in BOOLEAN

\* verify_sample: no skipped blocks without encrypted ones
ASSUME PatternsAssumption ==
  \A p \in Patterns : p \in Nat \X Nat /\ (p[1] = 0 => p[2] = 0)

VARIABLES
  alg, crypt, skip, start,   \* the sample: algorithm, pattern, counter of its IV
  iv,       \* counter half of the local iv
  enc,      \* enc_byte_count
  pos,      \* position of the OpenSSL context
  out,      \* output written so far
  left,     \* bytes_left
  pc, status, count,
  failed,   \* whether a decryption has failed
  want,     \* what the output should be
  wantEnc   \* how much of that is encrypted

sample == <<alg, crypt, skip, start>>
vars == <<sample, iv, enc, pos, out, left, pc, status, count, failed, want, wantEnc>>

Clear == -1

ClearBytes(n) == [i \in 1 .. n |-> Clear]
Positions(p, n) == [i \in 1 .. n |-> p + i - 1]

TypeOK ==
  /\ alg \in {"CTR", "CBC"}
  /\ <<crypt, skip>> \in Patterns
  /\ start \in Counters
  /\ iv \in 0 .. WORD - 1
  /\ enc \in Nat /\ pos \in Nat /\ left \in Nat
  /\ out \in Seq(Int) /\ want \in Seq(Int)
  /\ pc \in {"subsample", "stripe", "done"}
  /\ status \in {"OK", "ERROR"}
  /\ count \in 0 .. MaxSubsamples
  /\ failed \in BOOLEAN
  /\ wantEnc \in Nat

\* cenc_process_sample up to the loop: symmetric_context_set_iv
SetIv(algorithm, counter) == IF algorithm = "CTR" THEN BLOCK * counter ELSE 0

Init ==
  /\ alg \in {"CTR", "CBC"}
  /\ \E p \in Patterns : crypt = p[1] /\ skip = p[2]
  /\ start \in Counters
  /\ iv = start
  /\ enc = 0
  /\ pos = SetIv(alg, start)
  /\ out = <<>>
  /\ left = 0
  /\ pc = "subsample"
  /\ status = "OK"
  /\ count = 0
  /\ failed = FALSE
  /\ want = <<>>
  /\ wantEnc = 0

-----------------------------------------------------------------------------
\* Mutant: what the last call has used of its block, not what it has left.
Leading_Used(e) == e % BLOCK

\* leading_partial_block_size, number_of_full_blocks, num_blocks_before_rollover
Leading(e) == IF e % BLOCK = 0 THEN 0 ELSE BLOCK - (e % BLOCK)

FullBlocks(bytes, e) == ((bytes - Leading(e)) % WORD) \div BLOCK

BlocksBeforeRollover(c) == (WORD - c) % WORD

PartialBlocks(e) == IF Leading(e) > 0 THEN 1 ELSE 0

counter_rollover(bytes, e, c) ==
  /\ alg = "CTR"
  /\ BlocksBeforeRollover(c) <= FullBlocks(bytes, e) + PartialBlocks(e)

\* The state that decrypt() works on
Work == [iv |-> iv, enc |-> enc, pos |-> pos, out |-> <<>>]

\* A decryption of n bytes that counts as some blocks; n is below 2^31, the
\* width that symmetric_context_decrypt hands to OpenSSL.
Decrypted(w, n, blocks) ==
  [iv  |-> (w.iv + blocks) % WORD,
   enc |-> w.enc + n,
   pos |-> w.pos + n,
   out |-> w.out \o Positions(w.pos, n)]

\* ... after which the IV of the context is set.
DecryptedAndSet(w, n, blocks) ==
  LET d == Decrypted(w, n, blocks) IN [d EXCEPT !.pos = SetIv(alg, d.iv)]

\* No rollover ahead: all at once.
DecryptRest(w, bytes) ==
  Decrypted(w, bytes, FullBlocks(bytes, w.enc) + PartialBlocks(w.enc))

\* A rollover ahead: the rest of a block, the full blocks before the
\* rollover, and what is left.
DecryptAround(w, bytes) ==
  LET lead == Leading(w.enc)
      w1 == IF lead > 0 THEN DecryptedAndSet(w, lead, 1) ELSE w
      n == Min({BlocksBeforeRollover(w.iv), FullBlocks(bytes, w.enc)})
      w2 == IF n > 0 THEN DecryptedAndSet(w1, n * BLOCK, n) ELSE w1
      done == lead + n * BLOCK
  IN  IF done < bytes
      THEN Decrypted(w2, bytes - done, FullBlocks(bytes, w.enc) - n)
      ELSE w2

decrypt(bytes) ==
  IF bytes = 0
  THEN Work
  ELSE IF counter_rollover(bytes, enc, iv)
       THEN DecryptAround(Work, bytes)
       ELSE DecryptRest(Work, bytes)

-----------------------------------------------------------------------------
(***************************************************************************)
(* What ISO/IEC 23001-7 asks for, as the comments of sa_cenc.h give it:    *)
(* which bytes of a protected range are encrypted, and the position of     *)
(* each.                                                                   *)
(***************************************************************************)
IsEncrypted(n, j) ==
  /\ (alg = "CTR" /\ crypt = 0) \/ j < BLOCK * (n \div BLOCK)
  /\ crypt = 0 \/ (j \div BLOCK) % (crypt + skip) < crypt

EncryptedBefore(n, j) == Cardinality({i \in 0 .. j - 1 : IsEncrypted(n, i)})

WantedPosition(e) ==
  IF alg = "CTR" THEN BLOCK * ((start + (e \div BLOCK)) % WORD) + (e % BLOCK) ELSE e

\* "CBCS mode resets the IV at every subsample."
WantedProtected(n) ==
  LET first == IF alg = "CBC" /\ crypt > 0 THEN 0 ELSE wantEnc
  IN  [j \in 1 .. n |->
         IF IsEncrypted(n, j - 1)
         THEN WantedPosition(first + EncryptedBefore(n, j - 1))
         ELSE Clear]

-----------------------------------------------------------------------------
\* More blocks from a rollover than a sample has; counter 0 is taken for a
\* rollover.
FarFromRollover ==
  start + MaxSubsamples * (Max(Sizes) \div BLOCK + 1) < WORD

\* The ways in which an application divides the encrypted bytes of a sample:
\* at any byte; so that a range which begins inside a block goes to its end;
\* or regularly, which is that, and at blocks when a rollover is near.
Reaches(n) == n = 0 \/ n >= Leading(wantEnc)

Divides(n) ==
  (alg = "CTR" /\ crypt = 0) =>
    CASE Split = "regular"  -> n % BLOCK = 0 \/ (FarFromRollover /\ Reaches(n))
      [] Split = "reaching" -> Reaches(n)
      [] OTHER              -> TRUE

NextSubsample(c, n) ==
  /\ pc = "subsample"
  /\ count < MaxSubsamples
  /\ Divides(n)
  /\ count' = count + 1
  /\ want' = want \o ClearBytes(c) \o WantedProtected(n)
  /\ wantEnc' = wantEnc + EncryptedBefore(n, n)

\* A subsample of CENC or CBC1: the clear data, the decrypted data, and the
\* remainder that AES-CBC leaves in the clear.
EncryptedSize(n) == IF alg = "CBC" THEN n - (n % BLOCK) ELSE n

WholeSubsample(c, n) ==
  /\ crypt = 0
  /\ NextSubsample(c, n)
  /\ LET d == decrypt(EncryptedSize(n))
     IN  /\ iv' = d.iv
         /\ enc' = d.enc
         /\ pos' = d.pos
         /\ out' = out \o ClearBytes(c) \o d.out \o ClearBytes(n - EncryptedSize(n))
  /\ status' = "OK"
  /\ UNCHANGED <<sample, left, pc, failed>>

\* OpenSSL fails, to decrypt or, with a pattern of AES-CBC, to set the IV: the
\* loop over the subsamples ends.
SubsampleFails(c, n) ==
  /\ MayFail
  /\ NextSubsample(c, n)
  /\ IF crypt = 0 THEN EncryptedSize(n) > 0 ELSE alg = "CBC" /\ n > 0
  /\ status' = "ERROR"
  /\ failed' = TRUE
  /\ out' = out \o ClearBytes(c)
  /\ pc' = "done"
  /\ UNCHANGED <<sample, iv, enc, pos, left>>

\* "CBCS mode resets IV on each subsample."
ResetIv(n) ==
  IF alg = "CBC" /\ n > 0
  THEN iv' = start /\ pos' = SetIv(alg, start)
  ELSE UNCHANGED <<iv, pos>>

\* The clear data of a subsample of CENS or CBCS
PatternSubsample(c, n) ==
  /\ crypt > 0
  /\ NextSubsample(c, n)
  /\ ResetIv(n)
  /\ out' = out \o ClearBytes(c)
  /\ left' = n
  /\ pc' = "stripe"
  /\ status' = IF alg = "CBC" /\ n > 0 THEN "OK" ELSE status
  /\ UNCHANGED <<sample, enc, failed>>

\* The blocks of a stripe that are there; a pattern is of fewer than 2^60 blocks,
\* whose bytes fit into size_t.
Stripe(blocks, n) == Min({blocks * BLOCK, BLOCK * (n \div BLOCK)})

\* Mutant: the skipped blocks are not limited to those that are there.
Skipped_Whole(n) == skip * BLOCK

Skipped(n) == Stripe(skip, n)

PatternStripe ==
  /\ pc = "stripe"
  /\ left >= BLOCK
  /\ LET n == Stripe(crypt, left)
         d == decrypt(n)
         s == Skipped(left - n)
     IN  /\ iv' = d.iv
         /\ enc' = d.enc
         /\ pos' = d.pos
         /\ out' = out \o d.out \o ClearBytes(s)
         /\ left' = (left - n - s) % WORD
  /\ status' = "OK"
  /\ UNCHANGED <<sample, pc, count, failed, want, wantEnc>>

\* ... when OpenSSL fails: the loop over the stripes ends, and the rest of the
\* protected data is copied as it is.
StripeFails ==
  /\ MayFail
  /\ pc = "stripe"
  /\ left >= BLOCK
  /\ status' = "ERROR"
  /\ failed' = TRUE
  /\ out' = out \o ClearBytes(left)
  /\ left' = 0
  /\ pc' = "subsample"
  /\ UNCHANGED <<sample, iv, enc, pos, count, want, wantEnc>>

\* The clear remainder of less than a block
PatternRemainder ==
  /\ pc = "stripe"
  /\ left < BLOCK
  /\ out' = out \o ClearBytes(left)
  /\ left' = 0
  /\ pc' = "subsample"
  /\ UNCHANGED <<sample, iv, enc, pos, status, count, failed, want, wantEnc>>

Done ==
  /\ pc = "subsample"
  /\ count > 0
  /\ pc' = "done"
  /\ UNCHANGED <<sample, iv, enc, pos, out, left, status, count, failed, want, wantEnc>>

Next ==
  \/ \E c \in ClearSizes, n \in Sizes :
       WholeSubsample(c, n) \/ SubsampleFails(c, n) \/ PatternSubsample(c, n)
  \/ PatternStripe \/ StripeFails \/ PatternRemainder
  \/ Done

Spec == Init /\ [][Next]_vars

-----------------------------------------------------------------------------
\* Every byte of a sample that nothing failed for is copied or decrypted as
\* its mode says, with the key stream or the chain that belongs to it.
\* "This code accounts for the rollover condition." (cenc.c)
SampleRight == pc # "stripe" /\ ~failed => out = want

\* Output is written as far as the sample goes, and in a stripe no further
\* than its protected data: nothing is written past the end of the buffer.
WithinSample == Len(out) + left <= Len(want)

\* A sample that could not be decrypted is not reported as decrypted.
FailureReported == pc = "done" /\ failed => status = "ERROR"
-----------------------------------------------------------------------------
(***************************************************************************)
(* The inductive invariant of CencProofs                                   *)
(***************************************************************************)
\* The samples that SampleRight can be shown for: without a rollover near,
\* ranges may end inside blocks.
Tame == Split = "regular" \/ (Split = "reaching" /\ FarFromRollover)

\* How many encrypted bytes lie before the position of OpenSSL
Here == IF alg = "CTR" THEN enc ELSE pos

LengthsKept ==
  /\ left < WORD
  /\ IF pc = "stripe" THEN crypt > 0 ELSE left = 0
  /\ pc # "done" \/ ~failed => Len(out) + left = Len(want)
  /\ WithinSample

\* Only CENC leaves a block before its end; there, all is counted.
BlocksKept ==
  /\ alg = "CBC" \/ crypt > 0 => enc % BLOCK = 0
  /\ alg = "CTR" /\ crypt = 0 /\ pc # "done" => enc = wantEnc

\* Blocks that were begun so far are few enough to be far from a rollover.
RolloverKept ==
  Tame /\ alg = "CTR" /\ crypt = 0 /\ pc # "done" =>
    IF FarFromRollover
    THEN enc \div BLOCK + PartialBlocks(enc) <= count * (Max(Sizes) \div BLOCK + 1)
    ELSE enc % BLOCK = 0

Counter(e) == (start + (e \div BLOCK)) % WORD

\* The counter and the position of OpenSSL are those of the bytes decrypted.
PositionKept ==
  Tame /\ ~failed /\ pc # "done" =>
    /\ alg = "CTR" => /\ iv = Counter(enc)
                      /\ pos = WantedPosition(enc)
    /\ pc = "subsample" /\ (alg = "CTR" \/ crypt = 0) => Here = wantEnc

\* In a stripe, what is wanted for the bytes that are left of the n bytes of a
\* subsample, and where its encrypted bytes begin.
Remaining(n, first) ==
  /\ left <= n
  /\ (n - left) % BLOCK = 0
  /\ left < BLOCK \/ (n - left) % (BLOCK * (crypt + skip)) = 0
  /\ alg = "CTR" => wantEnc = first + EncryptedBefore(n, n)
  /\ alg = "CTR" \/ left > 0 => Here = first + EncryptedBefore(n, n - left)
  /\ \A i \in 1 .. left :
       want[Len(out) + i] =
         IF IsEncrypted(n, n - left + i - 1)
         THEN WantedPosition(first + EncryptedBefore(n, n - left + i - 1))
         ELSE Clear

StripeKept ==
  Tame /\ ~failed /\ pc = "stripe" =>
    \E n \in Sizes, first \in 0 .. wantEnc : Remaining(n, first)

OutputKept == Tame /\ ~failed => \A i \in 1 .. Len(out) : out[i] = want[i]

\* However ranges are divided, if those that begin inside a block end it:
Placed == TypeOK /\ LengthsKept /\ BlocksKept

IInv == Placed /\ RolloverKept /\ PositionKept /\ StripeKept /\ OutputKept
=============================================================================
