--------------------------- MODULE ComposeAlerts ---------------------------
(***************************************************************************)
(* What an operator hears of the container plane: tick_compose             *)
(* (supervisor/mod.rs) observes every container docker lists, feeds the    *)
(* ComposeTracker (compose_tracker.rs), and hands its decisions to the     *)
(* Alerter (alert.rs), which deduplicates once more.  Docker is external:  *)
(* between two rounds a container may do anything, or vanish.              *)
(*                                                                         *)
(* A timestamp is kept as its age at the last completed round; ages stop   *)
(* at DedupSec + 1, the first one outside the window, which also stands    *)
(* for the timestamps 0 and None of the code.                              *)
(***************************************************************************)
EXTENDS Integers

CONSTANTS
  Containers,   \* compose services of this instance
  DedupSec,     \* alert_dedup_sec, of the tracker and of the Alerter
  Escalation,   \* container_crash_escalation
  Conditions,   \* what docker may say of a container in this instance
  Intervals,    \* seconds between two rounds
  GapBound      \* bound: seconds without a successful ps

RawStates == {"running", "exited", "dead", "restarting", "created"}
Healths == {"healthy", "unhealthy", "starting", ""}

ASSUME AlertAssumption ==
  /\ DedupSec \in Nat
  /\ Escalation \in Nat \ {0}
  /\ Conditions \subseteq [raw : RawStates, health : Healths]
  /\ Intervals \subseteq Nat \ {0}
  /\ GapBound \in Nat

VARIABLES
  records,    \* the tracker's snapshots; NoRecord for a container it has none of
  last_down,  \* the Alerter: age of the last ServiceDown let through
  emitted,    \* alert kinds the last round let through, per container
  gap,        \* seconds since the last round whose ps succeeded
  streak,     \* history: successive rounds that saw the container failed
  silent      \* history: age of the current run of failures, or of its last ServiceDown

vars == <<records, last_down, emitted, gap, streak, silent>>

Outside == DedupSec + 1

Older(age, secs) == IF age + secs < Outside THEN age + secs ELSE Outside

Bump(n, bound) == IF n < bound THEN n + 1 ELSE n
-----------------------------------------------------------------------------
(* ContainerStatus::supervisor_state *)
supervisor_state(c) ==
  CASE c.raw \in {"exited", "dead"} -> "Failed"
    [] c.raw = "restarting" -> "Restarting"
    [] c.raw = "running" /\ c.health = "unhealthy" -> "Failed"
    [] c.raw = "running" /\ c.health \in {"healthy", ""} -> "Healthy"
    [] OTHER -> "Starting"

(* A container without a snapshot is judged like one whose snapshot is     *)
(* older than everything.                                                  *)
NoRecord == [state |-> "none", raw |-> "none", last_alert |-> Outside,
             fail_count |-> 0, escalated |-> FALSE]

(* The decisions of observe on snapshot p, secs old, and condition c. *)
StateChanged(p, c) == p.raw # c.raw
WindowElapsed(p, secs) == Older(p.last_alert, secs) > DedupSec

DecidesDown(p, c, secs) ==
  supervisor_state(c) = "Failed" /\ (StateChanged(p, c) \/ WindowElapsed(p, secs))

DecidesCrashLoop(p, c) ==
  supervisor_state(c) = "Failed" /\ p.fail_count + 1 >= Escalation /\ ~p.escalated

DecidesBack(p, c) == supervisor_state(c) = "Healthy" /\ p.state = "Failed"

(* Fault: an escalation is forgotten with the alert that follows it. *)
ObservedForgetsEscalation(p, c, secs) ==
  IF supervisor_state(c) = "Failed"
  THEN [state |-> "Failed", raw |-> c.raw,
        last_alert |-> IF DecidesDown(p, c, secs) THEN 0 ELSE Older(p.last_alert, secs),
        fail_count |-> Bump(p.fail_count, Escalation),
        escalated |-> DecidesCrashLoop(p, c) \/ (p.escalated /\ ~DecidesDown(p, c, secs))]
  ELSE [NoRecord EXCEPT !.state = supervisor_state(c), !.raw = c.raw]

(* Fault: every observation counts as a failure. *)
ObservedOvercounts(p, c, secs) ==
  [state |-> supervisor_state(c), raw |-> c.raw, last_alert |-> Outside,
   fail_count |-> p.fail_count + 1, escalated |-> p.escalated]

(* Fault: a suppressed alert restarts the window too. *)
ObservedRefreshes(p, c, secs) ==
  IF supervisor_state(c) = "Failed"
  THEN [state |-> "Failed", raw |-> c.raw, last_alert |-> 0,
        fail_count |-> Bump(p.fail_count, Escalation),
        escalated |-> p.escalated \/ DecidesCrashLoop(p, c)]
  ELSE [NoRecord EXCEPT !.state = supervisor_state(c), !.raw = c.raw]

(* The snapshot observe leaves. *)
Observed(p, c, secs) ==
  IF supervisor_state(c) = "Failed"
  THEN [state |-> "Failed", raw |-> c.raw,
        last_alert |-> IF DecidesDown(p, c, secs) THEN 0 ELSE Older(p.last_alert, secs),
        fail_count |-> Bump(p.fail_count, Escalation),
        escalated |-> p.escalated \/ DecidesCrashLoop(p, c)]
  ELSE [NoRecord EXCEPT !.state = supervisor_state(c), !.raw = c.raw]

(* Alerter::should_emit: only ServiceDown is held back. *)
should_emit(kind, down_age) == kind # "ServiceDown" \/ down_age > DedupSec

(* The alerts of one container that pass both stages. *)
Alerts(p, c, secs, down_age) ==
  {kind \in   (IF DecidesDown(p, c, secs) THEN {"ServiceDown"} ELSE {})
         \cup (IF DecidesCrashLoop(p, c) THEN {"ContainerCrashLoop"} ELSE {})
         \cup (IF DecidesBack(p, c) THEN {"ServiceBack"} ELSE {}) :
     should_emit(kind, down_age)}
-----------------------------------------------------------------------------
Init ==
  /\ records = [c \in Containers |-> NoRecord]
  /\ last_down = [c \in Containers |-> Outside]
  /\ emitted = [c \in Containers |-> {}]
  /\ gap = 0
  /\ streak = [c \in Containers |-> 0]
  /\ silent = [c \in Containers |-> 0]

(* docker compose ps failed: nothing is observed this round. *)
PsFailed ==
  /\ \E dt \in Intervals : gap' = gap + dt
  /\ gap' <= GapBound
  /\ emitted' = [c \in Containers |-> {}]
  /\ UNCHANGED <<records, last_down, streak, silent>>

(* Every listed container is observed, the snapshots of the others reaped. *)
Round(seen, secs) ==
  LET live == DOMAIN seen
      failed == {c \in live : supervisor_state(seen[c]) = "Failed"}
  IN  /\ records' = [c \in Containers |->
                       IF c \in live THEN Observed(records[c], seen[c], secs) ELSE NoRecord]
      /\ emitted' = [c \in Containers |->
                       IF c \in live
                       THEN Alerts(records[c], seen[c], secs, Older(last_down[c], secs))
                       ELSE {}]
      /\ last_down' = [c \in Containers |->
                         IF "ServiceDown" \in emitted'[c] THEN 0 ELSE Older(last_down[c], secs)]
      /\ gap' = 0
      /\ streak' = [c \in Containers |->
                      IF c \in failed THEN Bump(streak[c], Escalation + 1) ELSE 0]
      /\ silent' = [c \in Containers |->
                      IF c \in failed /\ streak[c] > 0 /\ "ServiceDown" \notin emitted'[c]
                      THEN silent[c] + secs ELSE 0]

TickCompose ==
  \E live \in SUBSET Containers, dt \in Intervals :
    \E seen \in [live -> Conditions] : Round(seen, gap + dt)

(* Tracker and Alerter live in memory only. *)
DaemonRestart ==
  /\ records' = [c \in Containers |-> NoRecord]
  /\ last_down' = [c \in Containers |-> Outside]
  /\ emitted' = [c \in Containers |-> {}]
  /\ streak' = [c \in Containers |-> 0]
  /\ silent' = [c \in Containers |-> 0]
  /\ UNCHANGED gap

Next == TickCompose \/ PsFailed \/ DaemonRestart

Spec == Init /\ [][Next]_vars
-----------------------------------------------------------------------------
(* Properties. *)

(* Snapshots, ages and alerts stay in their types, counters in bounds.     *)
ContainerRecord == [
  state : {"none", "Healthy", "Starting", "Restarting", "Failed"},
  raw : RawStates \cup {"none"}, last_alert : 0 .. Outside,
  fail_count : 0 .. Escalation, escalated : BOOLEAN]

TypeOK ==
  /\ records \in [Containers -> ContainerRecord]
  /\ last_down \in [Containers -> 0 .. Outside]
  /\ emitted \in [Containers -> SUBSET {"ServiceDown", "ContainerCrashLoop", "ServiceBack"}]
  /\ gap \in 0 .. GapBound
  /\ streak \in [Containers -> 0 .. Escalation + 1]
  /\ silent \in [Containers -> Nat]

(* A container that stays failed is heard of again.  The two windows can   *)
(* work against each other: a state change restarts the tracker's while    *)
(* the Alerter swallows the alert it asked for.  Still no run of failures  *)
(* is silent for more than two windows at the rounds that see it.          *)
ReminderDue == \A c \in Containers : silent[c] <= 2 * DedupSec

(* What makes these properties inductive: the snapshots agree with the     *)
(* history of failures; silence is never older than the last ServiceDown   *)
(* the Alerter still remembers; and the tracker decides again within one   *)
(* window of its last decision.                                            *)
FailuresAgree ==
  \A c \in Containers :
    /\ records[c].state = "Failed" <=> streak[c] > 0
    /\ records[c].fail_count = IF streak[c] > Escalation THEN Escalation ELSE streak[c]
    /\ records[c].escalated <=> streak[c] >= Escalation

SilenceBounded ==
  \A c \in Containers :
    /\ streak[c] = 0 => silent[c] = 0
    /\ last_down[c] <= DedupSec => silent[c] <= last_down[c]
    /\ streak[c] > 0 => /\ records[c].last_alert <= DedupSec
                        /\ silent[c] <= DedupSec + records[c].last_alert

IInv == TypeOK /\ FailuresAgree /\ SilenceBounded

(* ContainerCrashLoop is raised in the round that completes a run of       *)
(* Escalation failures, and in no other: not twice in a run, and not for   *)
(* failures with another state, a missing container or a daemon restart    *)
(* between them.                                                           *)
EscalatesAtThreshold ==
  [][\A c \in Containers :
       "ContainerCrashLoop" \in emitted'[c] <=>
         streak[c] < Escalation /\ streak'[c] = Escalation]_vars
=============================================================================
