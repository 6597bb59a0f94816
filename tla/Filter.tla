------------------------------- MODULE Filter -------------------------------
(***************************************************************************)
(* What is left of a sequence, in its order, when some elements are taken  *)
(* out: the loop that rebuilds an entry list without its tombstones.  It   *)
(* is SelectSeq with a set for the test, spelled out because the proofs    *)
(* reason about its prefixes.                                              *)
(***************************************************************************)
EXTENDS Naturals, Sequences

Filtered(s, keep) ==
  LET upTo[i \in 0 .. Len(s)] ==
        IF i = 0 THEN <<>>
        ELSE IF s[i] \in keep THEN Append(upTo[i - 1], s[i])
        ELSE upTo[i - 1]
  IN  upTo[Len(s)]
=============================================================================
