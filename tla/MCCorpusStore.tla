---------------------------- MODULE MCCorpusStore ---------------------------
(* Small instances of CorpusStore. *)
EXTENDS CorpusStore, TLC

CONSTANTS t1, t2, p1, p2

\* Two adjacent ranges and one that straddles them.
MCStraddling == {<<0, 2>>, <<2, 4>>, <<1, 3>>}

\* Each thread in a process of its own.
MCApart  == (t1 :> p1) @@ (t2 :> p2)
=============================================================================
