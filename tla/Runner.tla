------------------------------- MODULE Runner -------------------------------
(***************************************************************************)
(* One supervised service: its ServiceRunner (runner.rs), the tick that    *)
(* drives it (main.rs), and every operation of SupervisorCore that touches *)
(* it (supervisor/mod.rs).  All of them run under the core mutex, so each  *)
(* is one step, except rollout, which keeps the mutex while it waits and   *)
(* is split at its sleeps.  The process behind the port is external: it    *)
(* changes on its own between any two steps.                               *)
(*                                                                         *)
(* Left out because nothing reads them back: the alert texts and their     *)
(* deduplication, the health rows, the operator_race_notified log latch.   *)
(***************************************************************************)
EXTENDS Policy

CONSTANTS
  FAST_FAIL_WINDOW_SEC, FAST_FAIL_STREAK, CONFIG_FAIL_CAP, START_FAIL_CAP,
  RESTART_FAIL_STREAK,
  DrainGrace,       \* drain_grace_sec
  PrewarmTimeout,   \* prewarm_timeout of rollout
  PollHealthy, PollUnhealthy,
  LockDelays,       \* seconds other holders of the core lock may cost a round
  AutoUp,           \* auto_up_on_start is set and the service is in the boot set
  Operations,       \* what clients and the outside world do in this instance
  StartModes,       \* sets of outcomes a start command of a behaviour draws from
  Probes,           \* how a service of this instance may be probed
  FlakyProbes,      \* by kind: probe results other than healthy of a live process
  MaxFaults         \* bound: process crashes in a behaviour

None == -1

OperationKinds ==
  {"up", "down", "restart", "drain", "cancel_drain", "rollout", "daemon_restart", "script"}

StartOutcomes == {"ok", "err", "err78"}

(* On its port, by HTTP or TCP, or on its unix socket (fusion-projects,    *)
(* whose registered port is dead).                                         *)
ProbeKinds == {"port", "socket"}

ASSUME RunnerAssumption ==
  /\ FAST_FAIL_WINDOW_SEC \in Nat \ {0} /\ FAST_FAIL_STREAK \in Nat \ {0}
  /\ CONFIG_FAIL_CAP \in Nat \ {0} /\ START_FAIL_CAP \in Nat \ {0}
  /\ RESTART_FAIL_STREAK \in Nat \ {0}
  /\ DrainGrace \in Nat /\ PrewarmTimeout \in Nat \ {0}
  /\ PollHealthy \in Nat \ {0} /\ PollUnhealthy \in Nat \ {0}
  /\ LockDelays \subseteq Nat /\ LockDelays # {}
  /\ AutoUp \in BOOLEAN
  /\ Operations \subseteq OperationKinds
  /\ StartModes \subseteq SUBSET StartOutcomes
  /\ Probes \subseteq ProbeKinds
  /\ FlakyProbes \in [ProbeKinds -> SUBSET {"timeout", "bad_status"}]
  /\ MaxFaults \in Nat

VARIABLES
  r,            \* the ServiceRunner
  wait,         \* seconds until the next tick round
  prewarm,      \* seconds left of a rollout's prewarm loop, 0 when there is none
  boot_pending, \* the auto_up task has not run yet
  raised,       \* alert kinds the last step handed to the Alerter
  proc,         \* external: the process of the service
  script,       \* external: an operator's start.sh is running
  starts,       \* external: what start commands do in this behaviour
  probe,        \* how the service is probed in this behaviour
  faults,       \* process crashes so far
  intent,       \* history: "run", "stop" (manual down), "adopted" (seen alive after it)
  refused,      \* history: restart-eligible probe failures since the last healthy one
  start_failed, \* history: a start from the up path failed since then
  attempts,     \* history: ages of the automatic restarts charged as crashes
  by            \* history: who took the last step, "outside" or "daemon"

env == <<proc, script, starts, probe, faults>>
history == <<intent, refused, start_failed, attempts>>
vars == <<r, wait, prewarm, boot_pending, raised, env, history, by>>

-----------------------------------------------------------------------------
(* The runner. *)

State == {"Stopped", "Starting", "Healthy", "Unhealthy", "Restarting", "Failed", "Draining"}

DownStates == {"Unhealthy", "Restarting", "Failed"}

NewRunner ==
  [state |-> "Stopped", crashes |-> <<>>,
   restart_after |-> None, drain_grace_until |-> None, last_start_ts |-> None,
   fast_fail_streak |-> 0, fast_fail_alerted |-> FALSE, config_fail_streak |-> 0,
   fail_streak |-> 0, start_fail_streak |-> 0, start_retry |-> FALSE]

(* A counter that stops where the code no longer tells its values apart.   *)
Bump(n, bound) == IF n < bound THEN n + 1 ELSE n

FailBound == RESTART_FAIL_STREAK
FastBound == IF FAST_FAIL_STREAK >= Len(EscalatedCurve)
             THEN FAST_FAIL_STREAK + 1 ELSE Len(EscalatedCurve)
ConfigBound == IF CONFIG_FAIL_CAP >= Len(EscalatedCurve)
               THEN CONFIG_FAIL_CAP ELSE Len(EscalatedCurve)
StartFailBound == IF START_FAIL_CAP >= Len(StartRetryCurve)
                  THEN START_FAIL_CAP ELSE Len(StartRetryCurve)

(* One second later: what lies ahead comes closer, what is past gets older. *)
Sooner(t) == IF t > 0 THEN t - 1 ELSE t
Older(age, bound) == IF age = None THEN None ELSE Bump(age, bound)
AgedLog(log) == [i \in DOMAIN log |-> Bump(log[i], WindowSec + 1)]

Aged(q) == [q EXCEPT
  !.crashes = AgedLog(@),
  !.restart_after = Sooner(@),
  !.drain_grace_until = Sooner(@),
  !.last_start_ts = Older(@, FAST_FAIL_WINDOW_SEC)]

(* Fault: the streak is filled one past the threshold. *)
mark_start_failed_overfull(q) == [q EXCEPT
  !.state = "Unhealthy",
  !.fail_streak = RESTART_FAIL_STREAK + 1,
  !.start_retry = TRUE,
  !.restart_after = start_retry_delay(q.start_fail_streak)]

mark_start_failed(q) == [q EXCEPT
  !.state = "Unhealthy",
  !.fail_streak = RESTART_FAIL_STREAK,
  !.start_retry = TRUE,
  !.restart_after = start_retry_delay(q.start_fail_streak)]

mark_stopped(q) == [q EXCEPT
  !.state = "Stopped", !.restart_after = None,
  !.start_fail_streak = 0, !.start_retry = FALSE]

Recovered(q) == [q EXCEPT
  !.state = "Healthy", !.fail_streak = 0, !.restart_after = None, !.crashes = <<>>,
  !.fast_fail_streak = 0, !.fast_fail_alerted = FALSE, !.config_fail_streak = 0,
  !.start_fail_streak = 0, !.start_retry = FALSE]

NextDelay(q) ==
  IF q.config_fail_streak > 0 THEN escalated_delay(q.config_fail_streak)
  ELSE IF q.start_retry THEN start_retry_delay(q.start_fail_streak)
  ELSE IF q.fast_fail_streak >= FAST_FAIL_STREAK THEN escalated_delay(q.fast_fail_streak)
  ELSE next_delay(q.crashes)
-----------------------------------------------------------------------------
(* The process, seen through the port: a start command that reports success *)
(* leaves it "booting"; a stop command may return while it is "stopping".   *)
(* Of a socket nobody listens on the connect fails, which is no refusal.   *)

Dead == IF probe = "socket" THEN "uds_failed" ELSE "refused"

ProbeOf(p) == CASE p = "up" -> {"healthy"} \cup FlakyProbes[probe]
                [] p = "stopping" -> {"healthy", Dead}
                [] OTHER -> {Dead}

restart_eligible(o) == o \in {"refused", "timeout"}

(* Operations probe the registered port by TCP, whatever the tick does.    *)
Listening(p) == probe = "port" /\ p \in {"up", "stopping"}
Silent(p) == probe = "socket" \/ p # "up"

AfterStop(p) == IF p = "gone" THEN {"gone"} ELSE {p, "stopping", "gone"}

(* A start command that finds its process there may leave it and say ok.   *)
AfterStart(p, o) == IF o # "ok" THEN {p, "gone"}
                    ELSE IF p = "up" THEN {"booting", "up"} ELSE {"booting"}

ProcUp == /\ proc = "booting"
          /\ proc' = "up"
          /\ raised' = {}
          /\ UNCHANGED <<r, wait, prewarm, boot_pending, script, starts, probe, faults, history>>
          /\ by' = "daemon"

ProcCrash == /\ proc \in {"booting", "up"}
             /\ faults < MaxFaults
             /\ proc' = "gone"
             /\ faults' = faults + 1
             /\ raised' = {}
             /\ UNCHANGED <<r, wait, prewarm, boot_pending, script, starts, probe, history>>
             /\ by' = "daemon"

ProcExit == /\ proc = "stopping"
            /\ proc' = "gone"
            /\ raised' = {}
            /\ UNCHANGED <<r, wait, prewarm, boot_pending, script, starts, probe, faults, history>>
            /\ by' = "daemon"

(* The operator runs start.sh by hand, to restart, start or stop. *)
Script == /\ "script" \in Operations
          /\ script' = ~script
          /\ IF script THEN proc' \in {proc, "booting", "gone"} ELSE proc' = proc
          /\ raised' = {}
          /\ UNCHANGED <<r, wait, prewarm, boot_pending, starts, probe, faults, history>>
          /\ by' = "daemon"
-----------------------------------------------------------------------------
(* Time. *)

Elapse == /\ prewarm = 0
          /\ wait > 0
          /\ wait' = wait - 1
          /\ r' = Aged(r)
          /\ attempts' = InWindow(AgedLog(attempts))
          /\ raised' = {}
          /\ UNCHANGED <<prewarm, boot_pending, env, intent, refused, start_failed>>
          /\ by' = "daemon"

(* The loop reads poll_interval once the round is over.  Other services    *)
(* may be down, so any service may be polled at the short interval.        *)
PollIntervals(s) ==
  {i + d : i \in IF s \in DownStates THEN {PollUnhealthy} ELSE {PollUnhealthy, PollHealthy},
           d \in LockDelays}

RoundDue == prewarm = 0 /\ wait = 0
-----------------------------------------------------------------------------
(* The tick. *)

(* Fault: the grace period is forgotten, only a silent service is drained. *)
TickDrainingNoGrace(o) ==
  /\ r.state = "Draining"
  /\ IF o # "healthy"
     THEN /\ r' = [r EXCEPT !.state = "Stopped", !.drain_grace_until = None]
          /\ raised' = {"ServiceDrained"}
     ELSE /\ r' = r
          /\ raised' = {}
  /\ UNCHANGED <<env, history>>

TickDraining(o) ==
  /\ r.state = "Draining"
  /\ IF o # "healthy" \/ r.drain_grace_until <= 0
     THEN /\ r' = [r EXCEPT !.state = "Stopped", !.drain_grace_until = None]
          /\ raised' = {"ServiceDrained"}
     ELSE /\ r' = r
          /\ raised' = {}
  /\ UNCHANGED <<env, history>>

(* Fault: only a recovery resets fail_streak, so a flapping probe adds up. *)
TickHealthyKeepsStreak(o) ==
  /\ r.state # "Draining"
  /\ o = "healthy"
  /\ r' = IF r.state \in {"Unhealthy", "Restarting"}
          THEN [Recovered(r) EXCEPT !.fail_streak = r.fail_streak]
          ELSE [r EXCEPT !.state = "Healthy"]
  /\ attempts' = IF r.state \in {"Unhealthy", "Restarting"} THEN <<>> ELSE attempts
  /\ raised' = {}
  /\ intent' = IF intent = "stop" THEN "adopted" ELSE intent
  /\ refused' = 0
  /\ start_failed' = FALSE
  /\ UNCHANGED env

TickHealthy(o) ==
  /\ r.state # "Draining"
  /\ o = "healthy"
  /\ IF r.state \in {"Unhealthy", "Restarting"}
     THEN /\ r' = Recovered(r)
          /\ raised' = {"ServiceBack"}
          /\ attempts' = <<>>
     ELSE /\ r' = [r EXCEPT !.state = "Healthy", !.fail_streak = 0]
          /\ raised' = {}
          /\ UNCHANGED attempts
  /\ intent' = IF intent = "stop" THEN "adopted" ELSE intent
  /\ refused' = 0
  /\ start_failed' = FALSE
  /\ UNCHANGED env

(* Fault: a stopped or failed service turns red when its probe is wrong. *)
TickSuspectAny(o) ==
  /\ o # "healthy" /\ ~restart_eligible(o)
  /\ r.state # "Draining"
  /\ r' = [r EXCEPT !.state = "Unhealthy"]
  /\ raised' = IF r.state = "Unhealthy" THEN {} ELSE {"RestartFailed"}
  /\ UNCHANGED <<env, history>>

(* A wrong path or status, or a socket that cannot be connected to, is     *)
(* never a reason to restart.                                              *)
TickSuspect(o) ==
  /\ o # "healthy" /\ ~restart_eligible(o)
  /\ r.state # "Draining"
  /\ IF r.state \in {"Stopped", "Failed"}
     THEN r' = r /\ raised' = {}
     ELSE /\ r' = [r EXCEPT !.state = "Unhealthy"]
          /\ raised' = IF r.state = "Unhealthy" THEN {} ELSE {"RestartFailed"}
  /\ UNCHANGED <<env, history>>

Refusal(o) == /\ restart_eligible(o)
              /\ refused' = Bump(refused, RESTART_FAIL_STREAK)
              /\ UNCHANGED <<intent, start_failed>>

TickParked(o) ==
  /\ r.state \in {"Stopped", "Failed"}
  /\ Refusal(o)
  /\ raised' = {}
  /\ UNCHANGED <<r, attempts, env>>

Counted == [r EXCEPT !.fail_streak = Bump(@, FailBound)]

(* Fault: a service that was given up is taken for one that just went down. *)
TickFirstFailureOfFailed(o) ==
  /\ r.state \in {"Healthy", "Starting", "Failed"}
  /\ Refusal(o)
  /\ r' = [Counted EXCEPT !.state = "Unhealthy"]
  /\ raised' = {"ServiceDown"}
  /\ UNCHANGED <<attempts, env>>

TickFirstFailure(o) ==
  /\ r.state \in {"Healthy", "Starting"}
  /\ Refusal(o)
  /\ r' = [Counted EXCEPT !.state = "Unhealthy"]
  /\ raised' = {"ServiceDown"}
  /\ UNCHANGED <<attempts, env>>

TickBelowStreak(o) ==
  /\ r.state \in {"Unhealthy", "Restarting"}
  /\ Refusal(o)
  /\ Counted.fail_streak < RESTART_FAIL_STREAK
  /\ r' = Counted
  /\ raised' = {}
  /\ UNCHANGED <<attempts, env>>

Outage(o) == /\ r.state \in {"Unhealthy", "Restarting"}
             /\ Refusal(o)
             /\ Counted.fail_streak >= RESTART_FAIL_STREAK

TickSchedule(o) ==
  /\ Outage(o)
  /\ r.restart_after = None
  /\ r' = [Counted EXCEPT !.restart_after = NextDelay(r)]
  /\ raised' = {}
  /\ UNCHANGED <<attempts, env>>

(* Not due yet, or due while the operator's own script is at work. *)
TickHold(o) ==
  /\ Outage(o)
  /\ r.restart_after > 0 \/ (r.restart_after = 0 /\ script)
  /\ r' = Counted
  /\ raised' = {}
  /\ UNCHANGED <<attempts, env>>
-----------------------------------------------------------------------------
(* The restart that is due.  Which account it is charged to: a config-fatal *)
(* retry to none, a start retry to start_fail_streak, a crash to the policy. *)

Charged(q) ==
  IF q.config_fail_streak > 0 THEN q
  ELSE IF q.start_retry THEN [q EXCEPT !.start_fail_streak = Bump(@, StartFailBound)]
  ELSE [q EXCEPT !.crashes = record_crash(@)]

(* Fault: the start retries have no cap of their own. *)
CapHitCrashOnly(q) == /\ q.config_fail_streak = 0 /\ ~q.start_retry
                      /\ is_capped(Charged(q).crashes)

CapHit(q) ==
  /\ q.config_fail_streak = 0
  /\ IF q.start_retry THEN Charged(q).start_fail_streak >= START_FAIL_CAP
                      ELSE is_capped(Charged(q).crashes)

IsCrash(q) == q.config_fail_streak = 0 /\ ~q.start_retry

FastFail(q) == q.last_start_ts # None /\ q.last_start_ts < FAST_FAIL_WINDOW_SEC

FastTripped(q) ==
  FastFail(q) /\ q.fast_fail_streak + 1 = FAST_FAIL_STREAK /\ ~q.fast_fail_alerted

(* The runner when the start command is about to be run. *)
Attempting(q) ==
  [Charged(q) EXCEPT
     !.restart_after = None,
     !.fast_fail_streak = IF FastFail(q) THEN Bump(@, FastBound) ELSE @,
     !.fast_fail_alerted = @ \/ FastTripped(q)]

(* Fault: the restart does not wait for the operator's script. *)
DueDespiteScript(o) == Outage(o) /\ r.restart_after = 0

Due(o) == Outage(o) /\ r.restart_after = 0 /\ ~script

TickGiveUp(o) ==
  /\ Due(o)
  /\ CapHit(r)
  /\ r' = [Charged(Counted) EXCEPT !.restart_after = None, !.state = "Failed"]
  /\ raised' = {"RestartCapHit"}
  /\ UNCHANGED <<attempts, env>>

Started(q) == [q EXCEPT
  !.last_start_ts = 0, !.start_fail_streak = 0, !.start_retry = FALSE,
  !.state = "Restarting"]

ConfigFatal(q) ==
  LET hit == Bump(q.config_fail_streak, ConfigBound)
  IN  [q EXCEPT
         !.config_fail_streak = hit,
         !.last_start_ts = None,
         !.state = IF hit >= CONFIG_FAIL_CAP THEN "Failed" ELSE @,
         !.restart_after = IF hit >= CONFIG_FAIL_CAP THEN @ ELSE escalated_delay(hit)]

TickRestart(o, s) ==
  /\ Due(o)
  /\ ~CapHit(r)
  /\ r' = LET q == Attempting(Counted)
          IN  CASE s = "ok" -> Started(q)
                [] s = "err78" -> ConfigFatal(q)
                [] OTHER -> q
  /\ raised' = (IF FastTripped(r) THEN {"FastFailLoop"} ELSE {})
          \cup (CASE s = "ok" -> {}
                  [] s = "err78" -> {"ServiceConfigFatal"}
                  [] OTHER -> {"RestartFailed"})
  /\ attempts' = IF IsCrash(r) THEN Append(attempts, 0) ELSE attempts
  /\ proc' \in AfterStart(proc, s)
  /\ UNCHANGED <<script, starts, probe, faults>>

Tick ==
  /\ RoundDue
  /\ \E o \in ProbeOf(proc) :
       \/ TickDraining(o) \/ TickHealthy(o) \/ TickSuspect(o) \/ TickParked(o)
       \/ TickFirstFailure(o) \/ TickBelowStreak(o)
       \/ TickSchedule(o) \/ TickHold(o) \/ TickGiveUp(o)
       \/ \E s \in starts : TickRestart(o, s)
  /\ wait' \in PollIntervals(r'.state)
  /\ UNCHANGED <<prewarm, boot_pending>>
  /\ by' = "daemon"
-----------------------------------------------------------------------------
(* Operations, each under the core lock. *)

Idle == prewarm = 0 /\ UNCHANGED <<wait, prewarm>>

(* up_one, or this service's part of up_native_where.  The dependency gate *)
(* may be closed; a port that answers is left alone; a batch fails the     *)
(* service for good when its environment cannot be resolved, up_one only   *)
(* reports that.                                                           *)
UpGateClosed == /\ r' = mark_stopped(r)
                /\ raised' = {"ServiceDown"}
                /\ UNCHANGED <<proc, start_failed>>

UpSkipped == /\ Listening(proc)
             /\ r' = [r EXCEPT !.state = "Healthy"]
             /\ raised' = {}
             /\ UNCHANGED <<proc, start_failed>>

UpEnvFailed == /\ Silent(proc)
               /\ r' = [r EXCEPT !.state = "Failed"]
               /\ raised' = {}
               /\ UNCHANGED <<proc, start_failed>>

UpStarted(s) ==
  /\ Silent(proc)
  /\ r' = CASE s = "ok" -> [r EXCEPT !.state = "Starting"]
            [] s = "err78" -> [r EXCEPT !.state = "Failed"]
            [] OTHER -> mark_start_failed(r)
  /\ start_failed' = (start_failed \/ s = "err")
  /\ raised' = {}
  /\ proc' \in AfterStart(proc, s)

UpService(batch) ==
  /\ Idle
  /\ \/ UpGateClosed
     \/ UpSkipped
     \/ batch /\ UpEnvFailed
     \/ \E s \in starts : UpStarted(s)
  /\ intent' = "run"
  /\ UNCHANGED <<script, starts, probe, faults, refused, attempts>>

Up == /\ "up" \in Operations
      /\ \E batch \in BOOLEAN : UpService(batch)
      /\ UNCHANGED boot_pending
      /\ by' = "outside"

(* The task that brings the boot set up once the daemon is ready. *)
BootUp == /\ boot_pending
          /\ UpService(TRUE)
          /\ boot_pending' = FALSE
          /\ by' = "outside"

(* down_one, or this service's part of down_native_where: the stop command *)
(* may fail, or return while the process still answers.                    *)
Down == /\ "down" \in Operations
        /\ Idle
        /\ r' = mark_stopped(r)
        /\ proc' \in AfterStop(proc)
        /\ intent' = "stop"
        /\ raised' = {}
        /\ UNCHANGED <<boot_pending, script, starts, probe, faults, refused, start_failed, attempts>>
        /\ by' = "outside"

(* The port still answers when stop_and_verify has waited five seconds. *)
NotStopped == /\ proc # "gone" /\ probe = "port"
              /\ proc' \in {"up", "stopping"}

(* The port is free, and the start command has been run.  That a dead port *)
(* is free says nothing of the process behind a socket.                    *)
Replaced(s) ==
  LET left == IF probe = "port" THEN {"gone"} ELSE AfterStop(proc)
  IN  proc' \in UNION {AfterStart(p, s) : p \in left}

RestartReset(q) == [q EXCEPT
  !.crashes = <<>>, !.start_fail_streak = 0, !.start_retry = FALSE, !.state = "Stopped"]

RestartOne ==
  /\ "restart" \in Operations
  /\ Idle
  /\ \/ NotStopped /\ r' = RestartReset(r)
     \/ \E s \in starts :
          /\ Replaced(s)
          /\ r' = [RestartReset(r) EXCEPT !.state = IF s = "ok" THEN "Starting" ELSE @]
  /\ attempts' = <<>>
  /\ intent' = "run"
  /\ raised' = {}
  /\ UNCHANGED <<boot_pending, script, starts, probe, faults, refused, start_failed>>
  /\ by' = "outside"

Drain ==
  /\ "drain" \in Operations
  /\ Idle
  /\ r.state \in {"Healthy", "Starting", "Unhealthy"}
  /\ r' = [r EXCEPT !.state = "Draining", !.drain_grace_until = DrainGrace]
  /\ raised' = {}
  /\ UNCHANGED <<boot_pending, env, history>>
  /\ by' = "outside"

(* Fault: any service is marked Healthy, drained or not. *)
CancelDrainAny ==
  /\ "cancel_drain" \in Operations
  /\ Idle
  /\ r' = [r EXCEPT !.state = "Healthy", !.drain_grace_until = None]
  /\ raised' = {}
  /\ UNCHANGED <<boot_pending, env, history>>
  /\ by' = "outside"

CancelDrain ==
  /\ "cancel_drain" \in Operations
  /\ Idle
  /\ r.state = "Draining"
  /\ r' = [r EXCEPT !.state = "Healthy", !.drain_grace_until = None]
  /\ raised' = {}
  /\ UNCHANGED <<boot_pending, env, history>>
  /\ by' = "outside"

(* rollout drains, stops and starts in one go, then keeps the core lock    *)
(* until the new process answers or the prewarm time is over.              *)
Rollout ==
  /\ "rollout" \in Operations
  /\ prewarm = 0
  /\ r.state \in {"Healthy", "Starting", "Unhealthy"}
  /\ LET stopped == [r EXCEPT !.state = "Stopped", !.drain_grace_until = None]
     IN  \/ /\ NotStopped
            /\ r' = stopped
            /\ raised' = {}
            /\ UNCHANGED prewarm
         \/ \E s \in starts :
              /\ Replaced(s)
              /\ IF s = "ok"
                 THEN /\ r' = [stopped EXCEPT !.state = "Starting"]
                      /\ prewarm' = PrewarmTimeout
                      /\ raised' = {}
                 ELSE /\ r' = stopped
                      /\ raised' = {"RolloutPrewarmFailed"}
                      /\ UNCHANGED prewarm
  /\ intent' = "run"
  /\ UNCHANGED <<wait, boot_pending, script, starts, probe, faults, refused, start_failed, attempts>>
  /\ by' = "outside"

(* One turn of the prewarm loop: a second of sleep, the timeout, a probe. *)
Prewarm ==
  /\ prewarm > 0
  /\ wait' = Sooner(wait)
  /\ attempts' = InWindow(AgedLog(attempts))
  /\ \/ /\ prewarm = 1
        /\ r' = [Aged(r) EXCEPT !.state = "Stopped"]
        /\ prewarm' = 0
        /\ raised' = {"RolloutPrewarmFailed"}
     \/ /\ prewarm > 1
        /\ "healthy" \in ProbeOf(proc)
        /\ r' = [Aged(r) EXCEPT !.state = "Healthy"]
        /\ prewarm' = 0
        /\ raised' = {}
     \/ /\ prewarm > 1
        /\ ProbeOf(proc) # {"healthy"}
        /\ r' = Aged(r)
        /\ prewarm' = prewarm - 1
        /\ raised' = {}
  /\ UNCHANGED <<boot_pending, env, intent, refused, start_failed>>
  /\ by' = "daemon"
-----------------------------------------------------------------------------
(* A daemon that starts, for the first time or after a crash, probes once  *)
(* and adopts what answers; everything it knew is gone.                    *)
Reconciled(healthy) ==
  IF healthy THEN [NewRunner EXCEPT !.state = "Healthy"] ELSE NewRunner

Init ==
  /\ proc \in {"gone", "up"}
  /\ starts \in StartModes
  /\ probe \in Probes
  /\ \E o \in ProbeOf(proc) : r = Reconciled(o = "healthy")
  /\ wait \in PollIntervals(r.state)
  /\ prewarm = 0
  /\ boot_pending = AutoUp
  /\ raised = {}
  /\ script = FALSE
  /\ faults = 0
  /\ intent = "run"
  /\ refused = 0
  /\ start_failed = FALSE
  /\ attempts = <<>>
  /\ by = "outside"

DaemonRestart ==
  /\ "daemon_restart" \in Operations
  /\ \E o \in ProbeOf(proc) :
       /\ r' = Reconciled(o = "healthy")
       /\ intent' = IF o = "healthy" /\ intent = "stop" THEN "adopted" ELSE intent
  /\ wait' \in PollIntervals(r'.state)
  /\ prewarm' = 0
  /\ boot_pending' = AutoUp
  /\ raised' = {}
  /\ refused' = 0
  /\ start_failed' = FALSE
  /\ attempts' = <<>>
  /\ UNCHANGED env
  /\ by' = "outside"

Next ==
  \/ Tick \/ Elapse \/ Prewarm \/ BootUp
  \/ Up \/ Down \/ RestartOne \/ Drain \/ CancelDrain \/ Rollout
  \/ DaemonRestart
  \/ ProcUp \/ ProcCrash \/ ProcExit \/ Script

Spec == Init /\ [][Next]_vars

(* tokio polls the tick task, the rollout handler and the boot task, and    *)
(* time passes; clients and the outside world owe nothing.                 *)
FairSpec == Spec /\ WF_vars(Tick) /\ WF_vars(Elapse) /\ WF_vars(Prewarm) /\ WF_vars(BootUp)

(* Besides, a booting process comes up and a stopping one exits. *)
CooperativeSpec == FairSpec /\ WF_vars(ProcUp) /\ WF_vars(ProcExit)
-----------------------------------------------------------------------------
(* Properties. *)

(* Every variable stays in its type, every counter within its bound.       *)
Runner == [
  state : State, crashes : CrashLog,
  restart_after : Nat \cup {None}, drain_grace_until : Nat \cup {None},
  last_start_ts : 0 .. FAST_FAIL_WINDOW_SEC \cup {None},
  fast_fail_streak : 0 .. FastBound, fast_fail_alerted : BOOLEAN,
  config_fail_streak : 0 .. ConfigBound, fail_streak : 0 .. FailBound,
  start_fail_streak : 0 .. StartFailBound, start_retry : BOOLEAN]

AlertKinds == {"ServiceDown", "ServiceBack", "RestartFailed", "RestartCapHit",
  "ServiceDrained", "RolloutPrewarmFailed", "ServiceConfigFatal", "FastFailLoop"}

TypeOK ==
  /\ r \in Runner
  /\ wait \in Nat
  /\ prewarm \in 0 .. PrewarmTimeout
  /\ boot_pending \in BOOLEAN
  /\ raised \in SUBSET AlertKinds
  /\ proc \in {"gone", "booting", "up", "stopping"}
  /\ script \in BOOLEAN
  /\ starts \in StartModes
  /\ probe \in Probes
  /\ faults \in 0 .. MaxFaults
  /\ intent \in {"run", "stop", "adopted"}
  /\ refused \in 0 .. RESTART_FAIL_STREAK
  /\ start_failed \in BOOLEAN
  /\ attempts \in CrashLog
  /\ by \in {"outside", "daemon"}

(* The supervisor restarts a service on its own only after the full streak *)
(* of refused or timed-out probes with no healthy tick between them, or    *)
(* after a start it was asked for failed: a flapping probe never gets      *)
(* there (handle_unhealthy, RESTART_FAIL_STREAK).                          *)
RestartEvidence ==
  r.state = "Restarting" => refused = RESTART_FAIL_STREAK \/ start_failed

(* Between two recoveries at most MaxCrashes automatic restarts charged as *)
(* crashes fall into one window (RestartPolicy against the runner's use).  *)
OutageBudget == Len(attempts) <= MaxCrashes

(* A service that was taken down by hand and has not been seen alive since *)
(* stays Stopped, whatever its failed probes and leftover schedules.       *)
StopHolds == intent = "stop" => r.state = "Stopped"

(* What makes RestartEvidence and StopHolds inductive: the runner's streak  *)
(* is backed by refused probes or a failed start, and a rollout that waits *)
(* for its prewarm was asked for.                                          *)
StreakBacked == start_failed \/ r.fail_streak <= refused
PrewarmAsked == prewarm > 0 => intent = "run"

IInv == TypeOK /\ StreakBacked /\ RestartEvidence /\ PrewarmAsked /\ StopHolds

(* A crash is charged only to a service in a real outage, never to one that *)
(* is waiting for a start it was asked for, retries a config-fatal exit, or *)
(* is in the hands of an operator's script (issues 47, 86, 90).            *)
CrashCharged ==
  Len(InWindow(r'.crashes)) > Len(InWindow(r.crashes))
OnlyCrashesCharged ==
  [][CrashCharged => /\ r.state \in {"Unhealthy", "Restarting"}
                     /\ refused' = RESTART_FAIL_STREAK \/ start_failed
                     /\ ~script
                     /\ ~r.start_retry
                     /\ r.config_fail_streak = 0]_vars

(* Stopped, Failed and Draining are left only by an operator, a daemon      *)
(* restart, or a probe that finds the service alive: the tick never starts *)
(* such a service and never turns it red.                                  *)
Parked == {"Stopped", "Failed", "Draining"}
ParkedStaysParked ==
  [][r.state \in Parked /\ r'.state \notin Parked =>
       \/ r'.state \in {"Healthy", "Starting"}
       \/ r'.state = "Unhealthy" /\ r'.start_retry /\ start_failed']_vars

(* An outage ends: the service is found alive, given up, or stopped.  Not   *)
(* that of a service behind a socket: connects that fail are no reason to  *)
(* restart it, and it stays red until somebody comes (probe.rs:78-83).     *)
InOutage == r.state \in {"Unhealthy", "Restarting"}
OutageResolved == InOutage /\ probe = "port" ~> ~InOutage

(* A drain ends, even of a service that never stops answering.             *)
DrainEnds == r.state = "Draining" ~> r.state # "Draining"
=============================================================================
