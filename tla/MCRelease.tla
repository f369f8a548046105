----------------------------- MODULE MCRelease ------------------------------
(* Two builds in one directory, two promotions racing for two outputs. *)
EXTENDS Release, TLC

CONSTANTS b1, b2, r1, r2, o1, o2

\* A run of the width-32 protocol on two candidates, and one whose ladder was not starved
\* of its last unit.
MCSafety(n, c, rev, status, credit, used, proof) ==
  [sequence |-> n, worker |-> 1, candidate |-> c, revision |-> rev, status |-> status,
   credit |-> credit, used |-> used, proof |-> proof]
MCResearch(n, newest) ==
  [sequence |-> n, worker |-> 1, candidate |-> "f2f3", revision |-> 1, proofs |-> <<"A">>,
   newest |-> newest]
MCLadder(last) == <<MCSafety(5, "b2b3", 1, "exhausted", 3, 3, "none"),
                    MCSafety(6, "b2b3", 1, "exhausted", 1, 1, "none"),
                    MCSafety(7, "b2b3", 1, "exhausted", last, last, "none")>>
MCRun(last) ==
  [complete |-> TRUE, seconds |-> 1, rejections |-> 2, repairs |-> 1, vetoes |-> 1,
   vetoed |-> "f2f3", selected |-> "b2b3",
   safety |-> {MCSafety(1, "f2f3", 0, "found", 3, 1, "A"), MCSafety(4, "f2f3", 1, "found", 3, 2, "B")}
              \cup Range(MCLadder(last)),
   research |-> {MCResearch(2, TRUE), MCResearch(3, FALSE)},
   ladder |-> MCLadder(last),
   starved |-> [status |-> "unknown", shallower |-> 0, depth |-> 4]]
MCRecorded == <<MCRun(1), MCRun(2)>>
MCSymmetry == Permutations({b1, b2}) \cup Permutations({r1, r2}) \cup Permutations({o1, o2})
=============================================================================
