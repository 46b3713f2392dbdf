-------------------------------- MODULE Tray --------------------------------
(***************************************************************************)
(* The desktop tray (tray/src): the UI thread, the poller that fills the   *)
(* model it paints, and the worker that posts the commands it queues, over *)
(* an HTTP face of the daemon that can be slow, busy or gone.  A click     *)
(* changes the model at once; the next poll puts it right.                 *)
(*                                                                         *)
(* Of the daemon only what the tray can see is here: its commands wait     *)
(* for the core lock in the order they arrive, /boot waits with them,      *)
(* /health does not, but may go unanswered while commands run.             *)
(***************************************************************************)
EXTENDS Naturals, Sequences, SequencesExt

CONSTANTS
  Service,
  Registries,   \* what /boot may say of the tier of each service
  MaxClicks,    \* bound: clicks that ask something of the daemon
  MaxOutages    \* bound: times the daemon goes away

ASSUME TrayAssumption ==
  /\ Registries \subseteq [Service -> {"Core", "Platform", "App"}]
  /\ MaxClicks \in Nat /\ MaxOutages \in Nat

VARIABLES
  tier,        \* the tier of each service
  shown,       \* Shared.model: the state of each service it knows
  reachable,   \* Shared.model.reachable
  pending,     \* pending_confirm: the command of the bubble, if any
  queue,       \* Shared.queue
  batch,       \* what the worker took from it
  posted,      \* the command whose answer the worker waits for
  poll,        \* how far the poller is with its round
  clicks,      \* number of commands asked for so far
  alive,       \* the daemon runs
  held,        \* it is at work on the first command of work
  work,        \* commands that reached it and are not done
  actual,      \* the state of each service
  outages,
  healed       \* the self-heal button was pressed

worker == <<queue, batch, posted>>
model == <<shown, reachable>>
daemon == <<alive, held, work, actual, outages>>
vars == <<tier, pending, model, worker, poll, clicks, daemon, healed>>

States == {"Healthy", "Starting", "Unhealthy", "Stopped"}
is_running(st) == st # "Stopped"
NoRow == [s \in {} |-> "Stopped"]
Idle == [at |-> "idle", rows |-> NoRow]

(* The services a command is for.  The APP panel's group is both tiers     *)
(* that are not core (issue #106).                                         *)
Group(t) == IF t = "App" THEN {"Platform", "App"} ELSE {t}
UpAll == [kind |-> "group_up", on |-> "all", id |-> 0]
Targets(c) ==
  IF c = UpAll THEN Service
  ELSE IF c.kind \in {"group_up", "group_down"} THEN {s \in Service : tier[s] \in Group(c.on)}
  ELSE {c.on}

Destructive(c) ==
  \/ c.kind \in {"drain", "rollout", "group_down"}
  \/ c.kind = "down" /\ tier[c.on] = "Core"
-----------------------------------------------------------------------------
(* The UI thread.  While a confirmation is open it takes every click.      *)
(* Going from the dot to the fan, to a list and back changes nothing but   *)
(* the pace of the poller, so any list may be open when a click comes; a   *)
(* list is painted only while the model is reachable.                      *)

enqueue(c) == queue' = Append(queue, c)
destructive(c) == pending' = <<c>>

Ask(kind, on) == [kind |-> kind, on |-> on, id |-> clicks + 1]
Asking ==
  /\ pending = << >>
  /\ reachable
  /\ clicks < MaxClicks
  /\ clicks' = clicks + 1
  /\ UNCHANGED <<tier, reachable, batch, posted, poll, daemon, healed>>

set_state(s, st) == shown' = [shown EXCEPT ![s] = st]

(* The button of a row says start or stop by the state that is shown, and  *)
(* shows the other one before anything was confirmed or sent.              *)
ToggleRow ==
  /\ Asking
  /\ \E s \in DOMAIN shown :
       LET stop == is_running(shown[s])
           c == Ask(IF stop THEN "down" ELSE "up", s)
       IN  /\ set_state(s, IF stop THEN "Stopped" ELSE "Starting")
           /\ IF stop /\ tier[s] = "Core"
                THEN destructive(c) /\ UNCHANGED queue
                ELSE enqueue(c) /\ UNCHANGED pending

(* The context menu of a row. *)
RowMenu ==
  /\ Asking
  /\ UNCHANGED shown
  /\ \E s \in DOMAIN shown :
       \/ enqueue(Ask("restart", s)) /\ UNCHANGED pending
       \/ \E kind \in {"drain", "rollout"} :
            destructive(Ask(kind, s)) /\ UNCHANGED queue

GroupButtons ==
  /\ Asking
  /\ UNCHANGED shown
  /\ \E t \in {tier[s] : s \in Service} :
       \/ enqueue(Ask("group_up", t)) /\ UNCHANGED pending
       \/ destructive(Ask("group_down", t)) /\ UNCHANGED queue

(* Fault: the frame goes on below the bubble, and a click replaces what    *)
(* the bubble was about and sends the old one.                             *)
Decide_through ==
  /\ pending # << >>
  /\ pending' = << >>
  /\ enqueue([pending[1] EXCEPT !.kind = "group_down", !.on = tier[@]])
  /\ UNCHANGED <<tier, model, batch, posted, poll, clicks, daemon, healed>>

(* Confirm, cancel, or ESC. *)
Decide ==
  /\ pending # << >>
  /\ pending' = << >>
  /\ queue' \in {queue, Append(queue, pending[1])}
  /\ UNCHANGED <<tier, model, batch, posted, poll, clicks, daemon, healed>>
-----------------------------------------------------------------------------
(* The worker: it takes the whole queue and posts one command after the    *)
(* other; an error or a timeout is logged and the next one is posted.      *)

Take ==
  /\ batch = << >> /\ posted = << >> /\ queue # << >>
  /\ batch' = queue /\ queue' = << >>
  /\ UNCHANGED <<tier, pending, model, posted, poll, clicks, daemon, healed>>

(* Fault: the last command is posted first. *)
Post_last ==
  /\ posted = << >> /\ batch # << >>
  /\ posted' = <<Last(batch)>> /\ batch' = Front(batch)
  /\ work' = IF alive THEN Append(work, Last(batch)) ELSE work
  /\ UNCHANGED <<tier, pending, model, queue, poll, clicks, alive, held, actual, outages, healed>>

Post ==
  /\ posted = << >> /\ batch # << >>
  /\ posted' = <<Head(batch)>> /\ batch' = Tail(batch)
  /\ work' = IF alive THEN Append(work, Head(batch)) ELSE work
  /\ UNCHANGED <<tier, pending, model, queue, poll, clicks, alive, held, actual, outages, healed>>

InWork(c) == \E i \in DOMAIN work : work[i] = c

(* Fault: a command that got no answer is posted again. *)
PostReturns_retried ==
  /\ posted # << >>
  /\ posted' = << >>
  /\ batch' = IF InWork(posted[1]) \/ ~alive THEN posted \o batch ELSE batch
  /\ UNCHANGED <<tier, pending, model, queue, poll, clicks, daemon, healed>>

(* The answer, a connection error, or 120 s without an answer. *)
PostReturns ==
  /\ posted # << >>
  /\ posted' = << >>
  /\ UNCHANGED <<tier, pending, model, queue, batch, poll, clicks, daemon, healed>>
-----------------------------------------------------------------------------
(* The poller.  /boot answers with what holds when it gets the core lock;  *)
(* the answer is written over the model when it has arrived.  When it      *)
(* fails, /health is to tell a busy daemon from a dead one.                *)

PollBegins ==
  /\ poll.at = "idle"
  /\ poll' = [Idle EXCEPT !.at = "boot"]
  /\ UNCHANGED <<tier, pending, model, worker, clicks, daemon, healed>>

BootAnswers ==
  /\ poll.at = "boot" /\ alive /\ ~held
  /\ poll' = [at |-> "answered", rows |-> actual]
  /\ UNCHANGED <<tier, pending, model, worker, clicks, daemon, healed>>

(* Fault: the answer is merged into the model, rows it knows are kept. *)
BootFills_merges ==
  /\ poll.at = "answered"
  /\ poll' = Idle
  /\ shown' = shown @@ poll.rows /\ reachable' = TRUE
  /\ UNCHANGED <<tier, pending, worker, clicks, daemon, healed>>

BootFills ==
  /\ poll.at = "answered"
  /\ poll' = Idle
  /\ shown' = poll.rows /\ reachable' = TRUE
  /\ UNCHANGED <<tier, pending, worker, clicks, daemon, healed>>

BootFails ==
  /\ poll.at = "boot" /\ (held \/ ~alive)
  /\ poll' = [Idle EXCEPT !.at = "health"]
  /\ UNCHANGED <<tier, pending, model, worker, clicks, daemon, healed>>

(* Fault: a daemon that answers /health is shown as reachable at once. *)
HealthReturns_revives ==
  /\ poll.at = "health"
  /\ poll' = Idle
  /\ reachable' = alive
  /\ UNCHANGED <<tier, shown, pending, worker, clicks, daemon, healed>>

(* Answered, or refused, or 2 s without an answer.  The last is a daemon   *)
(* that is gone or one whose commands, be they of its own rounds, have     *)
(* taken the workers or the driver that /health needs (Daemon.tla): the    *)
(* dot turns gray for either.                                              *)
HealthReturns ==
  /\ poll.at = "health"
  /\ poll' = Idle
  /\ \/ alive /\ UNCHANGED reachable
     \/ reachable' = FALSE
  /\ UNCHANGED <<tier, shown, pending, worker, clicks, daemon, healed>>
-----------------------------------------------------------------------------
(* The daemon, as far as the tray sees it. *)

Outcome(c, st) ==
  CASE c.kind \in {"down", "group_down"} -> "Stopped"
    [] c.kind \in {"up", "group_up"} -> IF is_running(st) THEN st ELSE "Starting"
    [] c.kind \in {"restart", "rollout"} -> "Starting"
    [] c.kind = "drain" -> IF is_running(st) THEN "Unhealthy" ELSE st

Locks ==
  /\ alive /\ ~held /\ work # << >>
  /\ held' = TRUE
  /\ UNCHANGED <<tier, alive, work, actual, outages, poll, pending, model, worker, clicks, healed>>

Executes ==
  /\ held
  /\ held' = FALSE /\ work' = Tail(work)
  /\ actual' = [s \in Service |->
       IF s \in Targets(work[1]) THEN Outcome(work[1], actual[s]) ELSE actual[s]]
  /\ UNCHANGED <<tier, alive, outages, poll, pending, model, worker, clicks, healed>>

(* A start becomes healthy, a drain ends. *)
Settles(s) ==
  /\ alive
  /\ actual[s] \in {"Starting", "Unhealthy"}
  /\ actual' = [actual EXCEPT ![s] = IF @ = "Starting" THEN "Healthy" ELSE "Stopped"]
  /\ UNCHANGED <<tier, alive, held, work, outages, poll, pending, model, worker, clicks, healed>>

DaemonDies ==
  /\ alive /\ outages < MaxOutages
  /\ alive' = FALSE /\ held' = FALSE /\ work' = << >>
  /\ outages' = outages + 1
  /\ UNCHANGED <<tier, actual, poll, pending, model, worker, clicks, healed>>

(* launchd, or somebody, starts it. *)
DaemonStarts ==
  /\ ~alive
  /\ alive' = TRUE
  /\ UNCHANGED <<tier, held, work, actual, outages, poll, pending, model, worker, clicks, healed>>

(* The button of the unreachable panel runs `fusion-sv up', a client of    *)
(* the daemon's socket: it asks a daemon that is there for everything, and *)
(* without one it exits with status 3.  One press is followed.             *)
self_heal ==
  /\ pending = << >>
  /\ ~reachable /\ ~healed
  /\ healed' = TRUE
  /\ work' = IF alive THEN Append(work, UpAll) ELSE work
  /\ UNCHANGED <<tier, pending, model, worker, poll, clicks, alive, held, actual, outages>>

Init ==
  /\ tier \in Registries
  /\ pending = << >>
  /\ shown = NoRow /\ reachable = FALSE
  /\ queue = << >> /\ batch = << >> /\ posted = << >>
  /\ poll = Idle
  /\ clicks = 0
  /\ alive \in BOOLEAN /\ held = FALSE /\ work = << >>
  /\ actual \in [Service -> {"Healthy", "Stopped"}]
  /\ outages = 0
  /\ healed = FALSE

User == ToggleRow \/ RowMenu \/ GroupButtons \/ Decide \/ self_heal
Worker == Take \/ Post \/ PostReturns
Poller == PollBegins \/ BootAnswers \/ BootFills \/ BootFails \/ HealthReturns
Works == Locks \/ Executes \/ \E s \in Service : Settles(s)

Next ==
  \/ User \/ Worker \/ Poller \/ Works
  \/ DaemonDies \/ DaemonStarts

Spec == Init /\ [][Next]_vars

(* The tray's two threads survive their panics, and a daemon that lives    *)
(* works its commands off.  Nothing is asked of the user or of launchd.    *)
FairSpec == Spec /\ WF_vars(Worker) /\ WF_vars(Poller) /\ WF_vars(Works)
-----------------------------------------------------------------------------
Commands == work \o batch \o queue

(* The variables keep to their values, no panel is painted before there    *)
(* are rows for it, and the daemon holds its lock for a command.           *)
TypeOK ==
  /\ tier \in Registries
  /\ shown \in [DOMAIN shown -> States] /\ DOMAIN shown \in {{}, Service}
  /\ reachable => DOMAIN shown = Service
  /\ poll.at \in {"idle", "boot", "answered", "health"}
  /\ Len(pending) <= 1 /\ Len(posted) <= 1
  /\ held => alive /\ work # << >>
  /\ actual \in [Service -> States]
  /\ clicks \in 0..MaxClicks /\ outages \in 0..MaxOutages
  /\ healed \in BOOLEAN

(* Commands reach the daemon in the order they were asked for, each at     *)
(* most once, over a queue, a batch and the daemon's lock, whatever is     *)
(* cancelled, times out or is lost with a daemon (api.rs 124, main.rs      *)
(* 440): a stop that follows a start is never undone by it.                *)
OrderKept ==
  \A i, j \in DOMAIN Commands :
    i < j /\ UpAll \notin {Commands[i], Commands[j]} => Commands[i].id < Commands[j].id

(* A command that takes down a core service or a whole group, or drains or *)
(* rolls out, is queued only by a decision on a bubble that was about      *)
(* exactly that command, and while a bubble is open nothing else is asked  *)
(* (main.rs 545, README 238).                                              *)
ConfirmedFirst ==
  [][/\ Len(queue') > Len(queue) /\ Destructive(Last(queue')) => pending = <<Last(queue')>>
     /\ pending # << >> => pending' \in {pending, << >>}]_vars

(* What is shown becomes what is: when the daemon stays, the user's last   *)
(* click is followed by a model that equals the daemon's, whatever was     *)
(* shown in advance, cancelled, or overwritten by an older answer, and it  *)
(* stays so.                                                               *)
Converges == <>[]alive => <>[](reachable /\ shown = actual)

(* Everything that was queued is tried in the end, though the daemon be    *)
(* away, slow or restarted: no command holds up those behind it.           *)
EveryClickTried == queue # << >> ~> (queue = << >> /\ batch = << >> /\ posted = << >>)
=============================================================================
