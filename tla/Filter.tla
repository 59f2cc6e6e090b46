------------------------------- MODULE Filter -------------------------------
(* What Array.prototype.filter and a list comprehension with a condition do. *)
EXTENDS Integers, Sequences

\* The members of s that are in T, in their order.  SelectSeq would do, but is a
\* primitive the prover has no rule for.
Kept(s, T) ==
    LET kept[n \in 0..Len(s)] ==
          IF n = 0 THEN <<>>
          ELSE IF s[n] \in T THEN Append(kept[n - 1], s[n]) ELSE kept[n - 1]
    IN  kept[Len(s)]
=============================================================================
