--------------------------- MODULE ServiceContract ---------------------------
(***************************************************************************)
(* What the supervisor promises of one service, without probes, streaks,   *)
(* schedules or caps: who may move a service from one phase to another.    *)
(* From outside - an operator, the boot task, the loss of the daemon - a   *)
(* service can be asked into almost any phase.  The daemon on its own may  *)
(* only find it alive, lose it, give it up, and finish what was asked for. *)
(***************************************************************************)

VARIABLES
  phase,  \* what status reports, without the steps inside a start or an outage
  wish,   \* the operator's last word: "run", "stop", or "adopted" once a
          \* service that was stopped has been seen alive again
  by      \* who took the last step: "outside" or "daemon"

vars == <<phase, wish, by>>

Phases == {"on", "trouble", "off", "failed", "draining"}
Wishes == {"run", "stop", "adopted"}

Init == /\ phase \in {"on", "off"}
        /\ wish = "run"
        /\ by = "outside"

Seen == wish' = IF wish = "stop" THEN "adopted" ELSE wish
-----------------------------------------------------------------------------
(* From outside. *)

(* up, restart and rollout: started, start failed, gate closed, given up.  *)
AskRun == /\ phase' \in {"on", "trouble", "off", "failed"}
          /\ wish' = "run"

AskStop == /\ phase' = "off"
           /\ wish' = "stop"

BeginDrain == /\ phase \in {"on", "trouble"}
              /\ phase' = "draining"
              /\ UNCHANGED wish

CancelDrain == /\ phase = "draining"
               /\ phase' = "on"
               /\ UNCHANGED wish

(* A new daemon knows nothing of the old one but what its probe shows. *)
Forget == \/ phase' = "off" /\ UNCHANGED wish
          \/ phase' = "on" /\ Seen

Outside == /\ AskRun \/ AskStop \/ BeginDrain \/ CancelDrain \/ Forget
           /\ by' = "outside"
-----------------------------------------------------------------------------
(* The daemon. *)

Sighted == /\ phase # "draining"
           /\ phase' = "on"
           /\ Seen

Lost == /\ phase = "on"
        /\ phase' = "trouble"
        /\ UNCHANGED wish

GiveUp == /\ phase = "trouble"
          /\ phase' = "failed"
          /\ UNCHANGED wish

(* A drain is over, or a rollout that was asked for did not come up. *)
Finish == /\ \/ phase = "draining"
             \/ phase = "on" /\ wish = "run"
          /\ phase' = "off"
          /\ UNCHANGED wish

Daemon == /\ \/ Sighted \/ Lost \/ GiveUp \/ Finish
             \/ UNCHANGED <<phase, wish>>
          /\ by' = "daemon"

Spec == Init /\ [][Outside \/ Daemon]_vars
=============================================================================
