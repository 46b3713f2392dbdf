--------------------------- MODULE RunnerContract ---------------------------
(***************************************************************************)
(* The runner implements the contract of a supervised service.             *)
(***************************************************************************)
EXTENDS Runner

(* The phase is the state without the steps inside a start or an outage. *)
Phase == CASE r.state \in {"Healthy", "Starting"} -> "on"
           [] r.state \in {"Unhealthy", "Restarting"} -> "trouble"
           [] r.state = "Failed" -> "failed"
           [] r.state = "Draining" -> "draining"
           [] OTHER -> "off"

Promised == INSTANCE ServiceContract WITH phase <- Phase, wish <- intent

(* The runner keeps the contract of a supervised service.  Of its own      *)
(* accord the daemon gives up no service that was not in trouble, drops    *)
(* none in trouble silently, touches none that is stopped, failed or       *)
(* draining but to report it alive or to end the drain, and forgets a      *)
(* manual stop only when it sees the service alive (runner.rs tick against *)
(* every operation of supervisor/mod.rs).                                  *)
Contract == Promised!Spec
=============================================================================
