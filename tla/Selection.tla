----------------------------- MODULE Selection ------------------------------
(***************************************************************************)
(* Filtering a sequence by a set, as Vec::retain and Iterator::filter do:  *)
(* what SelectSeq does by a predicate, as a recursive function that the    *)
(* provers can unfold (SequenceFacts has the facts about it).              *)
(***************************************************************************)
EXTENDS Naturals, Sequences

\* The elements of s that are in T, in order.
Select(s, T) ==
  LET f[n \in 0..Len(s)] ==
        IF n = 0 THEN <<>>
        ELSE IF s[n] \in T THEN Append(f[n - 1], s[n]) ELSE f[n - 1]
  IN f[Len(s)]

=============================================================================
