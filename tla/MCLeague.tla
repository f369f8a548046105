------------------------------ MODULE MCLeague ------------------------------
(* Small instances of League. *)
EXTENDS League, TLC

CONSTANTS base, c1, c2

MCProfiles == {base, c1, c2}
MCSound    == {c1, c2}
MCPicked   == {c1}
=============================================================================
