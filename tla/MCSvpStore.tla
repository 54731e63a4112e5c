----------------------------- MODULE MCSvpStore -----------------------------
(* Applications that use two SVP buffers. *)
EXTENDS SvpStore

\* Copies towards the lower handle, and of a buffer onto itself.
OrderedPairs == {p \in {1, 2} \X {1, 2} : p[1] <= p[2]}
=============================================================================
