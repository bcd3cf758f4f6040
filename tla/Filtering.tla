----------------------------- MODULE Filtering ------------------------------
(***************************************************************************)
(* Filtering a sequence by a set, as a recursive function, which the       *)
(* proofs can reason about.                                                *)
(***************************************************************************)
EXTENDS Naturals, Sequences

\* The elements of s that are in T, in their order.
Filter(s, T) ==
  LET kept[n \in 0 .. Len(s)] ==
        IF n = 0 THEN <<>>
        ELSE IF s[n] \in T THEN Append(kept[n - 1], s[n]) ELSE kept[n - 1]
  IN  kept[Len(s)]
=============================================================================
