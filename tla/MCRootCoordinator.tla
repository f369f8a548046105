------------------------- MODULE MCRootCoordinator -------------------------
(***************************************************************************)
(* Values for the constants of RootCoordinator.                            *)
(***************************************************************************)
EXTENDS RootCoordinator

CONSTANTS WorkerCount, Width

MCWorkers    == 1 .. WorkerCount
MCCandidates == 1 .. Width

\* The order keys run against the order of the manifest, so that a tie is not
\* decided by who comes first.
MCKey == [c \in MCCandidates |-> Width - c]

MCAspiration   == {[center |-> 1, delta |-> 1]}
MCNoAspiration == {}
=============================================================================
