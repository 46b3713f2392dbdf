--------------------------- MODULE MCComposeAlerts ---------------------------
(* Instances of ComposeAlerts for TLC: what docker says of the containers. *)
EXTENDS ComposeAlerts, TLC

CONSTANTS postgres, redis

SeenByDocker == {
  [raw |-> "running", health |-> "healthy"],
  [raw |-> "running", health |-> "starting"],
  [raw |-> "running", health |-> "unhealthy"],
  [raw |-> "exited", health |-> ""],
  [raw |-> "restarting", health |-> ""]}

OfTwo == {postgres, redis}

AnyOrder == Permutations(OfTwo)
=============================================================================
