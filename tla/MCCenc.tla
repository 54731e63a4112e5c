------------------------------- MODULE MCCenc -------------------------------
(* Blocks of four bytes and words of 64: a size that underflows has 16      *)
(* blocks, a quarter of what the counter counts, as 2^60 is of 2^64 in      *)
(* sixteenths.                                                              *)
EXTENDS Cenc

AllPatterns == {<<0, 0>>, <<1, 0>>, <<1, 1>>, <<1, 2>>, <<2, 1>>}

\* Zero, and the counters that roll over within a sample
AllCounters == {0, 1, 7, 20} \cup (WORD - 9) .. (WORD - 1)
=============================================================================
