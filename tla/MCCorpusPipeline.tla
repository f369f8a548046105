-------------------------- MODULE MCCorpusPipeline --------------------------
(* Small instances of CorpusPipeline. *)
EXTENDS CorpusPipeline, TLC

CONSTANTS m1, w1, w2, m2, w3, p1, p2

MCPlan == {<<0, 2>>, <<2, 4>>}

\* A process with a pool of two, and one with a pool of one.
MCThreads   == {m1, w1, w2, m2, w3}
MCProcesses == {p1, p2}
MCProcessOf == [t \in MCThreads |-> IF t \in {m1, w1, w2} THEN p1 ELSE p2]
MCMain      == (p1 :> m1) @@ (p2 :> m2)
=============================================================================
