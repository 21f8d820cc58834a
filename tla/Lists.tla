--------------------------------- MODULE Lists ---------------------------------
(***************************************************************************)
(* Filtering, for the components whose code filters and sorts lists.       *)
(* SelectSeq does the same, of which the proof system knows nothing.       *)
(***************************************************************************)
EXTENDS Naturals, Sequences

\* The entries of s at the places of K, in their order.
Chosen(s, K) ==
  LET upTo[n \in 0..Len(s)] ==
        IF n = 0 THEN <<>> ELSE IF n \in K THEN Append(upTo[n - 1], s[n]) ELSE upTo[n - 1]
  IN upTo[Len(s)]
=============================================================================
