------------------------------- MODULE Daemon -------------------------------
(***************************************************************************)
(* The daemon process (main.rs, rpc/server.rs, http_server.rs): the tick   *)
(* loop, the boot task and one task per connection share SupervisorCore    *)
(* behind a fair mutex and run on a fixed number of worker threads.  An    *)
(* operation holds the mutex across its awaits, and its commands are       *)
(* synchronous: each takes a worker for as long as it runs, which may be   *)
(* for ever, and with the worker, it may be, the driver of all sockets and *)
(* timers.                                                                 *)
(*                                                                         *)
(* A connection carries one request at a time.  What an operation does to  *)
(* the services is left to Runner and Fleet; here it runs, panics, hangs,  *)
(* or is dropped at an await when the process ends.                        *)
(***************************************************************************)
EXTENDS Integers, SequencesExt

CONSTANTS
  Uds,                \* connections to the unix socket: the CLI
  Http,               \* connections to metrics_addr: web console and tray
  Workers,            \* worker threads of the runtime, one per core
  MaxConcurrentStart, \* max_concurrent_start
  AutoUp,             \* auto_up_on_start
  Asked,              \* bound: the kinds of request clients make
  CanHang             \* bound: a command may never return

Conns == Uds \cup Http

(* What is answered without the mutex; what runs under it: on a service    *)
(* or, when none is named, on all of them (up, down, drain); only on a     *)
(* named one (restart, rollout, boot.pin); and what needs no name (backup, *)
(* and status and logs, which ask docker and tail).                        *)
Immediate == {"ping", "refused"}
Named == {"restart", "boot.pin"}
Kinds == Immediate \cup Named \cup {"status", "down", "backup", "shutdown"}

ASSUME DaemonAssumption ==
  /\ Workers \in Nat \ {0} /\ MaxConcurrentStart \in Nat \ {0}
  /\ AutoUp \in BOOLEAN /\ CanHang \in BOOLEAN
  /\ Asked \subseteq Kinds
  /\ {"tick", "boot"} \cap Conns = {}  \* the two tasks are no connections

VARIABLES
  phase,    \* of the process
  queue,    \* of the core mutex: its holder, then who waits
  tick,     \* the tick loop and the round it has spawned
  boot,     \* the auto_up_on_start task
  conn,     \* each connection: its request and how far that is
  started,  \* commands its holder has started
  blocked,  \* workers in a synchronous command of the holder
  hung,     \* those whose command never returns
  lost,     \* one of them polled the sockets and timers, and nobody does
  listening,\* the loop that accepts unix connections is alive
  stop_tx   \* the sender of the shutdown signal is still there

vars == <<phase, queue, started, tick, boot, conn, blocked, hung, lost, listening, stop_tx>>
core == <<queue, started>>
commands == <<blocked, hung, lost>>
process == <<phase, listening, stop_tx>>

Request == [kind : Kinds, service : {"one", "none"}]
NoRequest == [kind |-> "none", service |-> "none"]
Idle == [at |-> "idle", request |-> NoRequest, part |-> "whole",
         scope |-> "none", reply |-> "none"]
-----------------------------------------------------------------------------
(* The mutex is fair: it goes to the one that has waited longest.          *)

(* Fault: the newest waiter gets the mutex first. *)
Enqueued_first(a) == IF queue = <<>> THEN <<a>> ELSE <<queue[1], a>> \o Tail(queue)

Enqueued(a) == Append(queue, a)

Holds(a) == queue # <<>> /\ Head(queue) = a
Enqueue(a) == queue' = Enqueued(a) /\ UNCHANGED started
Unlock == queue' = Tail(queue) /\ started' = 0

(* A task gets on while a worker is left to run it.                        *)
Scheduled == phase \in {"running", "stopping"} /\ blocked < Workers

(* What a socket or a timer has to wake is not woken while nobody polls    *)
(* them: an idle worker does not take the driver over from one that had it *)
(* and went into a command (tokio, external).                              *)
Polled == Scheduled /\ ~lost
-----------------------------------------------------------------------------
(* The client's side. *)

(* A command line names a service where its subcommand takes one.          *)
Subcommand(r) ==
  /\ r.kind \in Asked
  /\ r.service = "one" => r.kind \in Named \cup {"down"}

Send(c) ==
  /\ conn[c].at = "idle"
  /\ IF c \in Uds THEN listening ELSE phase = "running"
  /\ \E r \in Request, part \in {"whole"} \cup (IF c \in Http THEN {"head", "torn"} ELSE {}) :
       /\ Subcommand(r)
       /\ part # "whole" => r.service = "one"
       /\ conn' = [conn EXCEPT ![c] = [Idle EXCEPT !.at = "sent", !.request = r,
                                                   !.part = part]]
  /\ UNCHANGED <<core, tick, boot, commands, process>>

(* The rest of a request in more than one segment. *)
Arrive(c) ==
  /\ conn[c].at = "sent"
  /\ conn[c].part # "whole"
  /\ conn' = [conn EXCEPT ![c].part = "whole"]
  /\ UNCHANGED <<core, tick, boot, commands, process>>

(* A client that stops waiting sooner is not noticed before its answer is  *)
(* written: the operation goes on, so giving up is no step of its own.     *)
Deliver(c) ==
  /\ conn[c].at \in {"answered", "lost"}
  /\ conn' = [conn EXCEPT ![c] = Idle]
  /\ UNCHANGED <<core, tick, boot, commands, process>>
-----------------------------------------------------------------------------
(* A request on the server. *)

Answered(c, reply) ==
  [conn EXCEPT ![c] = [Idle EXCEPT !.at = "answered", !.request = conn[c].request,
                                   !.reply = reply]]

(* The http face reads once and takes what has arrived for the request.  A *)
(* body that is not there yet is no parameters at all.                     *)
params(c) == IF conn[c].part = "whole" THEN conn[c].request.service ELSE "none"

BadRequest(c) ==
  \/ conn[c].part = "torn" /\ conn[c].request.kind # "boot.pin"
  \/ conn[c].request.kind \in Named /\ params(c) = "none"

(* Fault: /health takes the core mutex, like the rest of the api. *)
NeedsCore_all(kind) == kind # "shutdown"

NeedsCore(kind) == kind \notin Immediate \cup {"shutdown"}

(* Fault: a face of its own sender, which nobody receives from. *)
Shutdown_unsent(c) ==
  /\ conn' = Answered(c, "ok")
  /\ UNCHANGED <<phase, stop_tx>>

(* The signal can be sent once in the life of a daemon. *)
Shutdown(c) ==
  \/ /\ stop_tx
     /\ stop_tx' = FALSE
     /\ phase' = "stopping"
     /\ conn' = Answered(c, "ok")
  \/ /\ ~stop_tx
     /\ conn' = Answered(c, "error")
     /\ UNCHANGED <<phase, stop_tx>>

Receive(c) ==
  /\ conn[c].at = "sent"
  /\ Polled
  /\ \/ /\ BadRequest(c)
        /\ conn' = Answered(c, "error")
        /\ UNCHANGED <<core, phase, stop_tx>>
     \/ /\ ~BadRequest(c)
        /\ conn[c].request.kind \in Immediate
        /\ ~NeedsCore(conn[c].request.kind)
        /\ conn' = Answered(c, IF conn[c].request.kind = "ping" THEN "ok" ELSE "error")
        /\ UNCHANGED <<core, phase, stop_tx>>
     \/ /\ ~BadRequest(c)
        /\ conn[c].request.kind = "shutdown"
        /\ Shutdown(c)
        /\ UNCHANGED core
     \/ /\ ~BadRequest(c)
        /\ NeedsCore(conn[c].request.kind)
        /\ Enqueue(c)
        /\ conn' = [conn EXCEPT ![c].at = "waiting"]
        /\ UNCHANGED <<phase, stop_tx>>
  /\ UNCHANGED <<tick, boot, commands, listening>>

Scope(c) == IF conn[c].request.kind \in {"backup", "status"} THEN "none"
            ELSE IF params(c) = "one" THEN "one" ELSE "all"

(* Fault: the core is split, and an operation does not wait for its turn. *)
Operate_beside(c) ==
  /\ conn[c].at = "waiting"
  /\ Scheduled
  /\ conn' = [conn EXCEPT ![c].at = "working", ![c].scope = Scope(c)]
  /\ UNCHANGED <<core, tick, boot, commands, process>>

Operate(c) ==
  /\ conn[c].at = "waiting"
  /\ Holds(c)
  /\ Scheduled
  /\ conn' = [conn EXCEPT ![c].at = "working", ![c].scope = Scope(c)]
  /\ UNCHANGED <<core, tick, boot, commands, process>>

Working(a) ==
  /\ Holds(a)
  /\ CASE a = "tick" -> tick = "working"
       [] a = "boot" -> boot = "working"
       [] OTHER -> conn[a].at = "working"

(* Fault: the answer does not wait for the commands (start_timeout_sec). *)
Complete_early(c) ==
  /\ Working(c)
  /\ Scheduled
  /\ \E reply \in {"ok", "error"} : conn' = Answered(c, reply)
  /\ Unlock
  /\ UNCHANGED <<tick, boot, commands, process>>

Complete(c) ==
  /\ Working(c)
  /\ Scheduled
  /\ blocked = 0
  /\ \E reply \in {"ok", "error"} : conn' = Answered(c, reply)
  /\ Unlock
  /\ UNCHANGED <<tick, boot, commands, process>>

(* A panic ends the task; the guard is dropped and the mutex is free. *)
PanicInConn(c) ==
  /\ Working(c)
  /\ blocked = 0
  /\ conn' = [conn EXCEPT ![c] = [Idle EXCEPT !.at = "lost"]]
  /\ Unlock
  /\ UNCHANGED <<tick, boot, commands, process>>
-----------------------------------------------------------------------------
(* Commands: one in this model, but for operations on the whole fleet,     *)
(* which run as many at once as the semaphore lets them.  The worker that  *)
(* blocks may be the one that polled the driver last; it is back at the    *)
(* driver when its command has returned, and so is any other.              *)

Commands(a) == IF a = "boot" \/ (a \in Conns /\ conn[a].scope = "all")
               THEN MaxConcurrentStart ELSE 1

Command(a) ==
  /\ Working(a)
  /\ Scheduled
  /\ a \in Conns => conn[a].request.kind # "boot.pin"
  /\ started < Commands(a)
  /\ started' = started + 1
  /\ blocked' = blocked + 1
  /\ lost' \in {lost, TRUE}
  /\ UNCHANGED <<queue, tick, boot, conn, hung, process>>

CommandReturns ==
  /\ blocked > hung
  /\ blocked' = blocked - 1
  /\ lost' = FALSE
  /\ UNCHANGED <<core, tick, boot, conn, hung, process>>

CommandHangs ==
  /\ CanHang
  /\ blocked > hung
  /\ hung' = hung + 1
  /\ UNCHANGED <<core, tick, boot, conn, blocked, lost, process>>
-----------------------------------------------------------------------------
(* The tick loop: lock and read the interval, sleep, spawn a round; the    *)
(* round locks and works; a panic in it is logged and the loop goes on.    *)

TickReads ==
  /\ Scheduled
  /\ \/ tick = "loop" /\ tick' = "reading" /\ Enqueue("tick")
     \/ tick = "reading" /\ Holds("tick") /\ tick' = "asleep" /\ Unlock
  /\ UNCHANGED <<boot, conn, commands, process>>

TickSpawns ==
  /\ tick = "asleep"
  /\ Polled
  /\ tick' = "waiting"
  /\ Enqueue("tick")
  /\ UNCHANGED <<boot, conn, commands, process>>

Round ==
  /\ tick = "waiting"
  /\ Holds("tick")
  /\ Scheduled
  /\ tick' = "working"
  /\ UNCHANGED <<core, boot, conn, commands, process>>

RoundEnds ==
  /\ Working("tick")
  /\ Scheduled
  /\ blocked = 0
  /\ tick' = "loop"
  /\ Unlock
  /\ UNCHANGED <<boot, conn, commands, process>>

(* Fault: the round is part of the loop, and its panic the loop's end. *)
PanicInRound_ends_loop ==
  /\ Working("tick")
  /\ blocked = 0
  /\ tick' = "ended"
  /\ Unlock
  /\ UNCHANGED <<boot, conn, commands, process>>

PanicInRound ==
  /\ Working("tick")
  /\ blocked = 0
  /\ tick' = "loop"
  /\ Unlock
  /\ UNCHANGED <<boot, conn, commands, process>>

BootSet ==
  /\ Scheduled
  /\ \/ boot = "spawned" /\ boot' = "waiting" /\ Enqueue("boot")
     \/ boot = "waiting" /\ Holds("boot") /\ boot' = "working" /\ UNCHANGED core
  /\ UNCHANGED <<tick, conn, commands, process>>

(* Ended, with an error or by a panic. *)
BootSetEnds ==
  /\ Working("boot")
  /\ blocked = 0
  /\ boot' = "ended"
  /\ Unlock
  /\ UNCHANGED <<tick, conn, commands, process>>
-----------------------------------------------------------------------------
(* The process. *)

(* accept fails (no descriptor left): serve returns, is logged, and the    *)
(* socket refuses from then on; the http face would only warn.             *)
AcceptFails ==
  /\ listening
  /\ listening' = FALSE
  /\ \E refused \in SUBSET {c \in Uds : conn[c].at = "sent"} :
       conn' = [c \in Conns |->
                  IF c \in refused THEN [Idle EXCEPT !.at = "lost"] ELSE conn[c]]
  /\ UNCHANGED <<phase, core, tick, boot, commands, stop_tx>>

(* SIGTERM or ctrl-c. *)
Signal ==
  /\ phase = "running"
  /\ Polled
  /\ phase' = "stopping"
  /\ UNCHANGED <<core, tick, boot, conn, commands, listening, stop_tx>>

Finished == [c \in Conns |-> IF conn[c].at = "idle" THEN Idle ELSE [Idle EXCEPT !.at = "lost"]]

(* An answer may or may not have been written when the process ends.       *)
Dropped ==
  /\ queue' = <<>>
  /\ started' = 0
  /\ tick' = "ended"
  /\ boot' = "ended"
  /\ \E written \in SUBSET {c \in Conns : conn[c].at = "answered"} :
       conn' = [c \in Conns |-> IF c \in written THEN Idle ELSE Finished[c]]
  /\ listening' = FALSE
  /\ stop_tx' = FALSE

(* run_daemon goes on after its select, aborts the loop and returns; the   *)
(* runtime drops every other task where it waits, the round included.      *)
MainReturns ==
  /\ phase = "stopping"
  /\ phase' = "ending"
  /\ Dropped
  /\ UNCHANGED commands

(* A command at work delays the end; one that never returns prevents it.   *)
Exit ==
  /\ phase = "ending"
  /\ blocked = 0
  /\ phase' = "down"
  /\ UNCHANGED <<core, tick, boot, conn, commands, listening, stop_tx>>

Killed ==
  /\ phase # "down"
  /\ phase' = "down"
  /\ blocked' = 0
  /\ hung' = 0
  /\ lost' = FALSE
  /\ Dropped

(* Started again by launchd or by hand; reconcile_on_boot runs before any  *)
(* of the tasks is spawned.                                                *)
Start ==
  /\ phase = "down"
  /\ phase' = "running"
  /\ tick' = "loop"
  /\ boot' = IF AutoUp THEN "spawned" ELSE "ended"
  /\ listening' = TRUE
  /\ stop_tx' = TRUE
  /\ UNCHANGED <<core, conn, commands>>

Init ==
  /\ phase = "running"
  /\ queue = <<>>
  /\ started = 0
  /\ tick = "loop"
  /\ boot = IF AutoUp THEN "spawned" ELSE "ended"
  /\ conn = [c \in Conns |-> Idle]
  /\ blocked = 0
  /\ hung = 0
  /\ lost = FALSE
  /\ listening = TRUE
  /\ stop_tx = TRUE

Loop == TickReads \/ TickSpawns \/ Round \/ RoundEnds \/ PanicInRound
Task(c) == Receive(c) \/ Operate(c) \/ Complete(c) \/ PanicInConn(c)
Client(c) == Send(c) \/ Arrive(c) \/ Deliver(c)
Run == CommandReturns \/ CommandHangs \/ \E a \in Conns \cup {"tick", "boot"} : Command(a)
Process == AcceptFails \/ Signal \/ MainReturns \/ Exit \/ Killed \/ Start

Next == \/ Loop \/ BootSet \/ BootSetEnds
        \/ \E c \in Conns : Task(c) \/ Client(c)
        \/ Run \/ Process

(* The runtime runs what is ready and time passes; clients owe nothing,    *)
(* and neither faults nor a new start have to happen.  Whenever the driver *)
(* is polled all that is due is woken: what waits for a socket or a timer  *)
(* gets on though the driver is lost again and again, if not for ever.     *)
Fairness ==
  /\ WF_vars(TickReads) /\ SF_vars(TickSpawns) /\ WF_vars(Round) /\ WF_vars(RoundEnds)
  /\ WF_vars(BootSet) /\ WF_vars(BootSetEnds)
  /\ \A c \in Conns : SF_vars(Receive(c)) /\ WF_vars(Operate(c)) /\ WF_vars(Complete(c))
  /\ WF_vars(CommandReturns)
  /\ WF_vars(MainReturns) /\ WF_vars(Exit)

Spec == Init /\ [][Next]_vars /\ Fairness
-----------------------------------------------------------------------------
(* Properties. *)

(* Every variable stays in its type, and only its holder uses the core.    *)
TypeOK ==
  /\ phase \in {"running", "stopping", "ending", "down"}
  /\ queue \in Seq(Conns \cup {"tick", "boot"}) /\ IsInjective(queue)
  /\ tick \in {"loop", "reading", "asleep", "waiting", "working", "ended"}
  /\ boot \in {"spawned", "waiting", "working", "ended"}
  /\ conn \in [Conns -> [at : {"idle", "sent", "waiting", "working", "answered", "lost"},
                         request : Request \cup {NoRequest},
                         part : {"whole", "head", "torn"},
                         scope : {"none", "one", "all"},
                         reply : {"none", "ok", "error"}]]
  /\ hung \in 0 .. blocked
  /\ {blocked, started} \subseteq 0 .. MaxConcurrentStart
  /\ listening \in BOOLEAN /\ stop_tx \in BOOLEAN
  /\ lost \in BOOLEAN /\ (lost => blocked > 0)
  /\ blocked > 0 /\ phase # "ending" => Working(Head(queue))

Stuck == hung > 0

(* Supervision does not stop silently: while the daemon runs and every     *)
(* command returns there is always another round, whatever panics and      *)
(* however busy clients keep the mutex (main.rs, the tick task).           *)
SupervisionGoesOn == []<>(tick = "working" \/ phase # "running" \/ Stuck)

(* Every request ends, with an answer or with its connection, and so does  *)
(* the boot task: nobody waits for ever on others, on a client that gave   *)
(* up, or on a task that panicked with the mutex in its hands.             *)
EveryTurnComes ==
  /\ \A c \in Conns :
       conn[c].at \in {"sent", "waiting", "working"} ~>
         conn[c].at \in {"answered", "lost", "idle"} \/ Stuck
  /\ boot = "spawned" ~> boot = "ended" \/ Stuck

(* tray/src/api.rs:108-109 has /health answered while the core is held;    *)
(* that is so, even under a command that never returns, as long as the     *)
(* commands at work leave a worker over and none of those that never       *)
(* return has taken the driver along.  A command that does return only     *)
(* delays the answer, which the client may have given up by then.          *)
AliveWhileBusy ==
  \A c \in Conns :
    conn[c].at = "sent" /\ conn[c].request.kind = "ping" ~>
      conn[c].at \in {"answered", "lost", "idle"} \/ phase # "running" \/ (lost /\ Stuck)

(* A client that has been told ok by shutdown sees the daemon end, in      *)
(* whatever operation it was (server.rs, shutdown; main.rs, select).       *)
ShutdownEnds ==
  \A c \in Conns :
    conn[c].at = "answered" /\ conn[c].reply = "ok" /\ conn[c].request.kind = "shutdown" ~>
      phase = "down" \/ Stuck

(* server.rs:144, cli/mod.rs:41-43: a request that names a service is      *)
(* about this service, it does not stop them all.                          *)
NamedServiceOnly ==
  \A c \in Conns : conn[c].scope = "all" => conn[c].request.service = "none"
=============================================================================
