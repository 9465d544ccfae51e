------------------------------- MODULE Lists -------------------------------
(***************************************************************************)
(* What a comprehension selects from a list, [e for e in list if ...], and  *)
(* the list in order.                                                      *)
(***************************************************************************)
EXTENDS Integers, Sequences, SequencesExt

\* The elements of s that are in S, in the order of s; a function on the indices
\* of s, so that what it selects can be proved.
Kept(s, S) ==
  LET kept[i \in 0..Len(s)] ==
        IF i = 0 THEN <<>>
        ELSE IF s[i] \in S THEN Append(kept[i - 1], s[i]) ELSE kept[i - 1]
  IN  kept[Len(s)]

\* sorted(): x comes before y if <<x, y>> is in Before, and after what is there
\* already if neither comes before the other.
Sorted(s, Before) ==
  LET Later(x) == {y \in ToSet(s) : <<x, y>> \in Before}
      insert == [x \in ToSet(s) |-> [t \in Seq(ToSet(s)) |->
                  Append(Kept(t, ToSet(s) \ Later(x)), x) \o Kept(t, Later(x))]]
      sorted[i \in 0..Len(s)] == IF i = 0 THEN <<>> ELSE insert[s[i]][sorted[i - 1]]
  IN  sorted[Len(s)]
=============================================================================
