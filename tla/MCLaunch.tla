------------------------------ MODULE MCLaunch ------------------------------
(* Three identifiers: a listener, a process that still boots and a new     *)
(* one, each identifier free to be used again.  Nothing tells them apart,  *)
(* and every property of the run is one of states or of single steps.      *)
EXTENDS Launch, TLC

CONSTANTS p1, p2, p3, nopid

MCPids == {p1, p2, p3}
Renamings == Permutations(MCPids)
=============================================================================
