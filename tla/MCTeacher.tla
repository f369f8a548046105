------------------------------ MODULE MCTeacher -----------------------------
(* Labelling with two tiers over a few shared states; then two runs of every  *)
(* command over a merged corpus and two that leak, and two manifests of one   *)
(* cycle and seed. *)
EXTENDS Teacher, TLC

CONSTANTS s1, s2, f1, f2, e1, e2, p1, p2, k1, g1, d1, d2, o1, o2

MCClaimKey == p1 :> k1 @@ p2 :> k1
MCContract == p1 :> g1 @@ p2 :> g1
MCMerged  == [contract |-> g1, train |-> {1, 3, 4, 11, 12, 16}, holdout |-> {7, 8, 14, 15}]
MCCorpora == {MCMerged, [contract |-> g1, train |-> {3}, holdout |-> {1}],
                        [contract |-> g1, train |-> {2, 3}, holdout |-> {2}]}
MCDeclared == p1 :> MCMerged @@ p2 :> None
MCSymmetry == Permutations({s1, s2}) \cup Permutations({f1, f2})
              \cup Permutations({e1, e2}) \cup Permutations({d1, d2})

Boundary(k, l, r) == [key |-> k, left |-> l, rank |-> r]

\* State 1 is met in both tiers, 2 in both corpora; 2 leads to a
\* state of the other half, 3 and 6 lead to the same one.
MCSamples ==
  [train   |-> {Boundary(1, 1, 1), Boundary(5, 1, 2), Boundary(2, 2, 3),
                Boundary(3, 2, 4), Boundary(4, 2, 5), Boundary(1, 2, 6),
                Boundary(3, 2, 7)},
   holdout |-> {Boundary(8, 1, 1), Boundary(9, 1, 2), Boundary(6, 2, 3),
                Boundary(2, 2, 4), Boundary(7, 2, 5)}]
MCOptions == 1 :> {11} @@ 2 :> {8} @@ 3 :> {12} @@ 4 :> {16} @@ 5 :> {13} @@ 6 :> {12} @@ 7 :> {15}
             @@ 8 :> {14} @@ 9 :> {13}
MCTargetRoots == [quiet |-> 3, tactical |-> 2]
MCTrainRoots  == [quiet |-> 2, tactical |-> 1]
=============================================================================
