-------------------------------- MODULE Lists --------------------------------
(***************************************************************************)
(* Sorting and filtering as Python's sorted and comprehensions do it.  The *)
(* library's SetToSortSeq and SelectSeq do the same; these are functions   *)
(* of first-order arguments, about which the prover can be asked.          *)
(***************************************************************************)
EXTENDS Naturals, FiniteSets, SequencesExt

\* The members of S in the order before, a set of pairs: each has its rank.
InOrder(S, before) ==
  LET rank == [x \in S |-> Cardinality({y \in S : <<y, x>> \in before})]
  IN [n \in 1 .. Cardinality(S) |-> CHOOSE x \in S : rank[x] = n - 1]

\* The members of S in list, in the list's order.
Among(list, S) ==
  LET places == {i \in DOMAIN list : list[i] \in S}
      order == InOrder(places, {p \in places \X places : p[1] < p[2]})
  IN [n \in DOMAIN order |-> list[order[n]]]

\* The members of S, put in one by one behind those that are before them: whatever
\* before says, each of them is there once.
Inserted(list, x, before) ==
  LET ahead == {y \in Range(list) : <<y, x>> \in before}
  IN Among(list, ahead) \o <<x>> \o Among(list, Range(list) \ ahead)
Sorted(S, before) ==
  LET list == SetToSeq(S)
      sorted[n \in 0 .. Len(list)] ==
        IF n = 0 THEN <<>> ELSE Inserted(sorted[n - 1], list[n], before)
  IN sorted[Len(list)]
=============================================================================
