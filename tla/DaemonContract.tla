---------------------------- MODULE DaemonContract ----------------------------
(***************************************************************************)
(* The daemon implements the contract of the core mutex.                   *)
(***************************************************************************)
EXTENDS Daemon

Tasks == Conns \cup {"tick", "boot"}

(* Where a task is by its own account, whatever the queue says of it. *)
State(a) == IF a = "tick" THEN tick ELSE IF a = "boot" THEN boot ELSE conn[a].at

AtWork == {a \in Tasks : State(a) = "working"}

(* The mutex keeps its holder in front; the line is who comes after it. *)
Line == IF AtWork = {} THEN queue ELSE Tail(queue)

Promised == INSTANCE CoreContract
  WITH Users <- Tasks, Limit <- MaxConcurrentStart,
       open <- phase \in {"running", "stopping"}, line <- Line,
       inside <- AtWork, commands <- blocked

(* The daemon keeps the contract of the core mutex (main.rs, rpc/server.rs *)
(* and http_server.rs against Arc<Mutex<SupervisorCore>>): by what the     *)
(* tasks do, and not by what the queue says, never are two of them in an   *)
(* operation, nobody is served before one who asked earlier, and none      *)
(* begins while a command of another is at work, through every panic,      *)
(* refusal, signal, kill and restart.                                      *)
OneOperation == Promised!Spec
=============================================================================
