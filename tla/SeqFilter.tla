----------------------------- MODULE SeqFilter -----------------------------
(* std::erase_if on a vector, as a recursive function so that it can be proved about. *)
EXTENDS Integers, Sequences

\* The elements of seq that are in S, in their order.
Kept(seq, S) ==
  LET f[i \in 0 .. Len(seq)] ==
        IF i = 0 THEN <<>>
        ELSE IF seq[i] \in S THEN Append(f[i - 1], seq[i]) ELSE f[i - 1]
  IN  f[Len(seq)]
=============================================================================
