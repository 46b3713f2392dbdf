---------------------------- MODULE RunnerProofs ----------------------------
(***************************************************************************)
(* Theorems about the runner of one service, for every length of the       *)
(* windows, caps and curves, every set of client operations and every      *)
(* behaviour of the process.                                               *)
(***************************************************************************)
EXTENDS Runner, SequenceTheorems, FiniteSetTheorems, TLAPS

(* Facts about the operators of Policy, for every window, cap and curve.   *)

(* The stale prefix of a crash log is a finite set of its positions, so     *)
(* the loop of record_crash pops at most the whole deque.                  *)
LEMMA PoppedBounds ==
  ASSUME NEW c \in Seq(Int)
  PROVE  /\ IsFiniteSet(Popped(c))
         /\ Cardinality(Popped(c)) \in 0 .. Len(c)
<1>1. Len(c) \in Nat /\ DOMAIN c = 1 .. Len(c)
  OBVIOUS
<1>2. IsFiniteSet(1 .. Len(c)) /\ Cardinality(1 .. Len(c)) = Len(c)
  BY <1>1, FS_Interval
<1>3. Popped(c) \in SUBSET (1 .. Len(c))
  BY <1>1 DEF Popped
<1>4. IsFiniteSet(Popped(c)) /\ Cardinality(Popped(c)) <= Cardinality(1 .. Len(c))
  BY <1>2, <1>3, FS_Subset
<1>5. Cardinality(Popped(c)) \in Nat
  BY <1>4, FS_CardinalityType
<1> QED
  BY <1>1, <1>2, <1>4, <1>5

(* Popping the stale crashes leaves a crash log, shorter by their number.   *)
LEMMA InWindowType ==
  ASSUME NEW S \in SUBSET Int, NEW c \in Seq(S)
  PROVE  /\ InWindow(c) \in Seq(S)
         /\ Len(InWindow(c)) = Len(c) - Cardinality(Popped(c))
<1>1. c \in Seq(Int)
  BY SeqMonotonic
<1> DEFINE k == Cardinality(Popped(c))
<1>2. k \in 0 .. Len(c) /\ Len(c) \in Nat
  BY <1>1, PoppedBounds, LenProperties
<1> HIDE DEF k
<1>3. \A i \in k + 1 .. Len(c) : c[i] \in S
  BY <1>2, ElementOfSeq
<1>4. /\ SubSeq(c, k + 1, Len(c)) \in Seq(S)
      /\ Len(SubSeq(c, k + 1, Len(c))) =
           IF k + 1 <= Len(c) THEN Len(c) - (k + 1) + 1 ELSE 0
  BY <1>2, <1>3, SubSeqProperties
<1> QED
  BY <1>2, <1>4 DEF InWindow, k

(* A crash that is recorded joins what the window still covers.             *)
LEMMA RecordCrashType ==
  ASSUME NEW c \in CrashLog, WindowSec \in Nat
  PROVE  record_crash(c) \in CrashLog
<1>1. InWindow(c) \in CrashLog
  BY InWindowType DEF CrashLog
<1> QED
  BY <1>1, AppendProperties DEF record_crash, CrashLog

(* Every delay of the backoff and of the two curves is a number of seconds. *)
LEMMA DelayTypes ==
  /\ \A c : next_delay(c) \in Nat
  /\ \A n \in Nat : escalated_delay(n) \in Nat /\ start_retry_delay(n) \in Nat
<1> USE PolicyAssumption
<1>1. ASSUME NEW c PROVE next_delay(c) \in Nat
  <2> DEFINE doubled == 2 ^ (Len(c) - 1)
  <2>1. (IF doubled \in 1 .. BackoffMax THEN doubled ELSE BackoffMax) \in Nat
    <3> HIDE DEF doubled
    <3> QED OBVIOUS
  <2> QED
    BY <2>1 DEF next_delay
<1>2. ASSUME NEW curve \in Seq(Nat), curve # <<>>, NEW n \in Nat
      PROVE  CurveAt(curve, n) \in Nat
  <2>1. Len(curve) \in Nat \ {0}
    BY <1>2, EmptySeq
  <2> DEFINE i == IF n <= 1 THEN 1 ELSE IF n >= Len(curve) THEN Len(curve) ELSE n
  <2>2. i \in 1 .. Len(curve)
    BY <2>1
  <2>3. curve[i] \in Nat
    BY <2>2, ElementOfSeq
  <2> QED
    BY <2>3 DEF CurveAt
<1> QED
  BY <1>1, <1>2 DEF escalated_delay, start_retry_delay
-----------------------------------------------------------------------------

(* The bounds at which the counters stop are positive, and reach the caps.  *)
LEMMA Bounds ==
  /\ FailBound \in Nat \ {0} /\ FastBound \in Nat \ {0}
  /\ ConfigBound \in Nat \ {0} /\ StartFailBound \in Nat \ {0}
<1>1. Len(EscalatedCurve) \in Nat /\ Len(StartRetryCurve) \in Nat
  BY PolicyAssumption, LenProperties
<1> QED
  BY <1>1, RunnerAssumption DEF FailBound, FastBound, ConfigBound, StartFailBound

(* A bumped counter stays within its bound and never falls.              *)
LEMMA BumpType ==
  ASSUME NEW b \in Nat, NEW n \in 0 .. b
  PROVE  Bump(n, b) \in 0 .. b /\ Bump(n, b) >= n
BY DEF Bump

(* A second later a crash log is still one ...                              *)
LEMMA AgedLogType ==
  ASSUME NEW log \in CrashLog
  PROVE  AgedLog(log) \in CrashLog /\ Len(AgedLog(log)) = Len(log)
<1> DEFINE n == Len(log)
<1>1. n \in Nat /\ DOMAIN log = 1 .. n
  BY LenProperties DEF CrashLog
<1>2. \A i \in 1 .. n : log[i] \in 0 .. WindowSec + 1
  BY ElementOfSeq DEF CrashLog
<1>3. \A i \in 1 .. n : Bump(log[i], WindowSec + 1) \in 0 .. WindowSec + 1
  BY <1>2, PolicyAssumption DEF Bump
<1>4. AgedLog(log) = [i \in 1 .. n |-> Bump(log[i], WindowSec + 1)]
  BY <1>1 DEF AgedLog
<1> HIDE DEF n
<1>5. AgedLog(log) \in [1 .. n -> 0 .. WindowSec + 1]
  BY <1>3, <1>4
<1>6. AgedLog(log) \in Seq(0 .. WindowSec + 1)
  BY <1>1, <1>5, SeqDef
<1>7. Len(AgedLog(log)) = n
  BY <1>1, <1>5, <1>6, LenProperties
<1> QED
  BY <1>6, <1>7 DEF CrashLog, n

(* ... of which the window covers no more than before.                      *)
LEMMA AgeingForgets ==
  ASSUME NEW log \in CrashLog
  PROVE  Len(InWindow(AgedLog(log))) <= Len(InWindow(log))
<1> DEFINE old == AgedLog(log)
<1>1. old \in CrashLog /\ Len(old) = Len(log) /\ Len(log) \in Nat
  BY AgedLogType, LenProperties DEF CrashLog
<1>2. log \in Seq(Int) /\ old \in Seq(Int)
  BY <1>1, SeqMonotonic, PolicyAssumption DEF CrashLog
<1>3. \A j \in 1 .. Len(log) : log[j] > WindowSec => old[j] > WindowSec
  <2> SUFFICES ASSUME NEW j \in 1 .. Len(log), log[j] > WindowSec
               PROVE  old[j] > WindowSec
    OBVIOUS
  <2>1. j \in DOMAIN log /\ log[j] \in 0 .. WindowSec + 1
    BY LenProperties, ElementOfSeq DEF CrashLog
  <2>2. old[j] = Bump(log[j], WindowSec + 1)
    BY <2>1 DEF AgedLog
  <2> QED
    BY <2>1, <2>2, PolicyAssumption DEF Bump
<1> HIDE DEF old
<1>4. Popped(log) \in SUBSET Popped(old)
  BY <1>1, <1>3 DEF Popped
<1>5. IsFiniteSet(Popped(old))
  BY <1>2, PoppedBounds
<1>6. Cardinality(Popped(log)) <= Cardinality(Popped(old))
  BY <1>4, <1>5, FS_Subset
<1>7. /\ Len(InWindow(log)) = Len(log) - Cardinality(Popped(log))
      /\ Len(InWindow(old)) = Len(old) - Cardinality(Popped(old))
  BY <1>2, InWindowType
<1>8. /\ Cardinality(Popped(log)) \in Int
      /\ Cardinality(Popped(old)) \in Int
  BY <1>2, PoppedBounds, <1>1
<1> QED
  BY <1>1, <1>6, <1>7, <1>8 DEF old

(* The names of the states, and the values the counters are reset to.       *)
LEMMA States ==
  /\ "Stopped" \in State /\ "Starting" \in State /\ "Healthy" \in State
  /\ "Unhealthy" \in State /\ "Restarting" \in State /\ "Failed" \in State
  /\ "Draining" \in State
BY DEF State

(* The values the counters, timestamps and flags are reset to have their types. *)
LEMMA Resets ==
  /\ <<>> \in CrashLog
  /\ 0 \in 0 .. FastBound /\ 0 \in 0 .. ConfigBound
  /\ 0 \in 0 .. FailBound /\ 0 \in 0 .. StartFailBound
  /\ RESTART_FAIL_STREAK \in 0 .. FailBound
  /\ 0 \in 0 .. FAST_FAIL_WINDOW_SEC \cup {None}
  /\ None \in Nat \cup {None} /\ None \in 0 .. FAST_FAIL_WINDOW_SEC \cup {None}
  /\ TRUE \in BOOLEAN /\ FALSE \in BOOLEAN
BY Bounds, RunnerAssumption DEF CrashLog, FailBound

-----------------------------------------------------------------------------
(* Each update the operations make to a runner yields a runner.             *)

(* A fresh runner, adopted or not, is well typed.                        *)
LEMMA NewRunnerType == NewRunner \in Runner /\ \A b \in BOOLEAN : Reconciled(b) \in Runner
<1>1. NewRunner \in Runner
  BY States, Resets DEF NewRunner, Runner
<1> QED
  BY <1>1, States DEF Reconciled, Runner

(* The passing of a second keeps a runner well typed.                    *)
LEMMA AgedType ==
  ASSUME NEW q \in Runner
  PROVE  Aged(q) \in Runner
<1>1. AgedLog(q.crashes) \in CrashLog
  BY AgedLogType DEF Runner
<1>2. Sooner(q.restart_after) \in Nat \cup {None} /\ Sooner(q.drain_grace_until) \in Nat \cup {None}
  BY DEF Runner, Sooner, None
<1>3. Older(q.last_start_ts, FAST_FAIL_WINDOW_SEC) \in 0 .. FAST_FAIL_WINDOW_SEC \cup {None}
  BY RunnerAssumption DEF Runner, Older, Bump, None
<1> QED
  BY <1>1, <1>2, <1>3 DEF Aged, Runner

(* So do the marks that stops, failed starts, recoveries and restarts leave. *)
LEMMA StopAndStartTypes ==
  ASSUME NEW q \in Runner
  PROVE  /\ mark_start_failed(q) \in Runner
         /\ mark_stopped(q) \in Runner
         /\ Recovered(q) \in Runner
         /\ RestartReset(q) \in Runner
         /\ Started(q) \in Runner
<1>1. start_retry_delay(q.start_fail_streak) \in Nat \cup {None}
  BY DelayTypes, Bounds DEF Runner
<1>2. mark_start_failed(q) \in Runner
  BY <1>1, States, Resets DEF mark_start_failed, Runner
<1>3. mark_stopped(q) \in Runner
  BY States, Resets DEF mark_stopped, Runner
<1>4. Recovered(q) \in Runner
  BY States, Resets DEF Recovered, Runner
<1>5. RestartReset(q) \in Runner
  BY States, Resets DEF RestartReset, Runner
<1>6. Started(q) \in Runner
  BY States, Resets DEF Started, Runner
<1> QED
  BY <1>2, <1>3, <1>4, <1>5, <1>6

(* Charging a restart to its account keeps a runner well typed.          *)
LEMMA ChargedType ==
  ASSUME NEW q \in Runner
  PROVE  Charged(q) \in Runner
<1>1. record_crash(q.crashes) \in CrashLog
  BY RecordCrashType, PolicyAssumption DEF Runner
<1>2. Bump(q.start_fail_streak, StartFailBound) \in 0 .. StartFailBound
  BY BumpType, Bounds DEF Runner
<1> QED
  BY <1>1, <1>2 DEF Charged, Runner

(* So do the fast-fail breaker and the spent schedule of a restart attempt. *)
LEMMA AttemptingType ==
  ASSUME NEW q \in Runner
  PROVE  Attempting(q) \in Runner
<1> DEFINE c == Charged(q)
<1>1. c \in Runner
  BY ChargedType
<1>2. Bump(c.fast_fail_streak, FastBound) \in 0 .. FastBound
  BY <1>1, BumpType, Bounds DEF Runner
<1>3. (c.fast_fail_alerted \/ FastTripped(q)) \in BOOLEAN
  OBVIOUS
<1> HIDE DEF c
<1>4. Attempting(q) = [c EXCEPT
        !.restart_after = None,
        !.fast_fail_streak = IF FastFail(q) THEN Bump(@, FastBound) ELSE @,
        !.fast_fail_alerted = @ \/ FastTripped(q)]
  BY DEF Attempting, c
<1> QED
  BY <1>1, <1>2, <1>3, <1>4 DEF Runner

(* So does the breaker that an exit 78 moves on.                         *)
LEMMA ConfigFatalType ==
  ASSUME NEW q \in Runner
  PROVE  ConfigFatal(q) \in Runner
<1> DEFINE hit == Bump(q.config_fail_streak, ConfigBound)
<1>1. hit \in 0 .. ConfigBound /\ hit \in Nat
  BY BumpType, Bounds DEF Runner
<1>2. escalated_delay(hit) \in Nat
  BY <1>1, DelayTypes
<1> HIDE DEF hit
<1>3. [q EXCEPT
         !.config_fail_streak = hit,
         !.last_start_ts = None,
         !.state = IF hit >= CONFIG_FAIL_CAP THEN "Failed" ELSE @,
         !.restart_after = IF hit >= CONFIG_FAIL_CAP THEN @ ELSE escalated_delay(hit)] \in Runner
  BY <1>1, <1>2 DEF Runner, State
<1> QED
  BY <1>3 DEF ConfigFatal, hit

(* Counting one more failed probe changes nothing but fail_streak.       *)
LEMMA CountedType ==
  ASSUME r \in Runner
  PROVE  /\ Counted \in Runner
         /\ Counted.fail_streak = Bump(r.fail_streak, FailBound)
         /\ Counted.state = r.state /\ Counted.crashes = r.crashes
         /\ Counted.start_retry = r.start_retry
         /\ Counted.config_fail_streak = r.config_fail_streak
<1>1. Bump(r.fail_streak, FailBound) \in 0 .. FailBound
  BY BumpType, Bounds DEF Runner
<1> QED
  BY <1>1 DEF Counted, Runner

(* Whatever the streaks are, the next delay is a number of seconds.      *)
LEMMA NextDelayOfRunner ==
  ASSUME NEW q \in Runner
  PROVE  NextDelay(q) \in Nat
<1>1. /\ q.config_fail_streak \in Nat /\ q.start_fail_streak \in Nat
      /\ q.fast_fail_streak \in Nat
  BY Bounds DEF Runner
<1> QED
  BY <1>1, DelayTypes DEF NextDelay

(* The single-field updates of the handlers keep a runner well typed.    *)
LEMMA FieldTypes ==
  ASSUME NEW q \in Runner, NEW s \in State, NEW t \in Nat \cup {None}
  PROVE  /\ [q EXCEPT !.state = s] \in Runner
         /\ [q EXCEPT !.state = s, !.drain_grace_until = t] \in Runner
         /\ [q EXCEPT !.restart_after = t] \in Runner
         /\ [q EXCEPT !.restart_after = t, !.state = s] \in Runner
         /\ [q EXCEPT !.state = s, !.fail_streak = 0] \in Runner
BY Resets DEF Runner

-----------------------------------------------------------------------------
(* The types of all the variables, an action at a time.  The variables that *)
(* a tick's decision sets are kept apart from the ones the loop sets.      *)

Procs == {"gone", "booting", "up", "stopping"}

DecisionOK ==
  /\ r \in Runner
  /\ raised \in SUBSET AlertKinds
  /\ proc \in Procs
  /\ script \in BOOLEAN
  /\ starts \in StartModes /\ probe \in Probes
  /\ faults \in 0 .. MaxFaults
  /\ intent \in {"run", "stop", "adopted"}
  /\ refused \in 0 .. RESTART_FAIL_STREAK
  /\ start_failed \in BOOLEAN
  /\ attempts \in CrashLog

LoopOK == /\ wait \in Nat /\ prewarm \in 0 .. PrewarmTimeout /\ boot_pending \in BOOLEAN
          /\ by \in {"outside", "daemon"}

(* TypeOK is the two parts together, before and after a step.            *)
LEMMA TypeParts ==
  /\ TypeOK <=> DecisionOK /\ LoopOK
  /\ TypeOK' <=> DecisionOK' /\ LoopOK'
BY DEF TypeOK, DecisionOK, LoopOK, Procs

(* Every interval the loop may sleep is a number of seconds.             *)
LEMMA PollIntervalType == \A s : PollIntervals(s) \subseteq Nat
BY RunnerAssumption DEF PollIntervals

(* Start and stop commands leave the process in one of its four states.  *)
LEMMA ProcTypes ==
  ASSUME NEW p \in Procs, NEW o
  PROVE  AfterStart(p, o) \subseteq Procs /\ AfterStop(p) \subseteq Procs
BY DEF AfterStart, AfterStop, Procs

(* A restart or a rollout leaves a process of a known kind, whether it     *)
(* replaced the old one or found its port still taken.                     *)
LEMMA ReplaceType ==
  ASSUME proc \in Procs, NotStopped \/ \E s \in starts : Replaced(s)
  PROVE  proc' \in Procs
<1>1. CASE NotStopped
  BY <1>1 DEF NotStopped, Procs
<1>2. ASSUME NEW s \in starts, Replaced(s)
      PROVE  proc' \in Procs
  <2>1. AfterStop(proc) \subseteq Procs /\ "gone" \in Procs
    BY ProcTypes DEF Procs
  <2>2. PICK p \in Procs : proc' \in AfterStart(p, s)
    BY <1>2, <2>1 DEF Replaced
  <2> QED
    BY <2>2, ProcTypes
<1> QED
  BY <1>1, <1>2

(* A start command has one of the three outcomes.                        *)
LEMMA StartOutcome == ASSUME DecisionOK PROVE starts \subseteq StartOutcomes
BY RunnerAssumption DEF DecisionOK

(* A refused probe is counted within the bound of the history.           *)
LEMMA RefusalType ==
  ASSUME DecisionOK, NEW o, Refusal(o)
  PROVE  /\ refused' \in 0 .. RESTART_FAIL_STREAK
         /\ intent' = intent /\ start_failed' = start_failed
BY BumpType, RunnerAssumption DEF DecisionOK, Refusal

(* Every decision of a tick that runs no start command keeps the types.  *)
LEMMA QuietDecisionType ==
  ASSUME DecisionOK, NEW o,
         \/ TickDraining(o) \/ TickHealthy(o) \/ TickSuspect(o) \/ TickParked(o)
         \/ TickFirstFailure(o) \/ TickBelowStreak(o) \/ TickSchedule(o) \/ TickHold(o)
         \/ TickGiveUp(o)
  PROVE  DecisionOK'
<1> USE DEF DecisionOK, env, history
<1>1. CASE TickDraining(o)
  <2>1. [r EXCEPT !.state = "Stopped", !.drain_grace_until = None] \in Runner
    BY FieldTypes, States, Resets
  <2>2. {"ServiceDrained"} \in SUBSET AlertKinds /\ {} \in SUBSET AlertKinds
    BY DEF AlertKinds
  <2> QED
    BY <1>1, <2>1, <2>2 DEF TickDraining
<1>2. CASE TickHealthy(o)
  <2>1. Recovered(r) \in Runner /\ [r EXCEPT !.state = "Healthy", !.fail_streak = 0] \in Runner
    BY StopAndStartTypes, FieldTypes, States, Resets
  <2>2. {"ServiceBack"} \in SUBSET AlertKinds /\ {} \in SUBSET AlertKinds
    BY DEF AlertKinds
  <2>3. 0 \in 0 .. RESTART_FAIL_STREAK
    BY RunnerAssumption
  <2> QED
    BY <1>2, <2>1, <2>2, <2>3, Resets DEF TickHealthy
<1>3. CASE TickSuspect(o)
  <2>1. [r EXCEPT !.state = "Unhealthy"] \in Runner
    BY FieldTypes, States, Resets
  <2>2. {"RestartFailed"} \in SUBSET AlertKinds /\ {} \in SUBSET AlertKinds
    BY DEF AlertKinds
  <2> QED
    BY <1>3, <2>1, <2>2 DEF TickSuspect
<1>4. CASE TickParked(o)
  BY <1>4, RefusalType DEF TickParked, AlertKinds
<1>5. CASE TickFirstFailure(o)
  <2>1. [Counted EXCEPT !.state = "Unhealthy"] \in Runner
    BY CountedType, FieldTypes, States, Resets
  <2> QED
    BY <1>5, <2>1, RefusalType DEF TickFirstFailure, AlertKinds
<1>6. CASE TickBelowStreak(o)
  BY <1>6, CountedType, RefusalType DEF TickBelowStreak, AlertKinds
<1>7. CASE TickSchedule(o)
  <2>1. [Counted EXCEPT !.restart_after = NextDelay(r)] \in Runner
    BY CountedType, NextDelayOfRunner, FieldTypes, States
  <2> QED
    BY <1>7, <2>1, RefusalType DEF TickSchedule, Outage, AlertKinds
<1>8. CASE TickHold(o)
  BY <1>8, CountedType, RefusalType DEF TickHold, Outage, AlertKinds
<1>9. CASE TickGiveUp(o)
  <2>1. [Charged(Counted) EXCEPT !.restart_after = None, !.state = "Failed"] \in Runner
    BY CountedType, ChargedType, FieldTypes, States, Resets
  <2> QED
    BY <1>9, <2>1, RefusalType DEF TickGiveUp, Due, Outage, AlertKinds
<1> QED
  BY <1>1, <1>2, <1>3, <1>4, <1>5, <1>6, <1>7, <1>8, <1>9

(* So does the restart, with each outcome of the start command.          *)
LEMMA RestartDecisionType ==
  ASSUME DecisionOK, NEW o, NEW s \in starts, TickRestart(o, s)
  PROVE  DecisionOK'
<1> DEFINE q == Attempting(Counted)
<1>1. q \in Runner
  BY CountedType, AttemptingType DEF DecisionOK
<1>2. Started(q) \in Runner /\ ConfigFatal(q) \in Runner
  BY <1>1, StopAndStartTypes, ConfigFatalType
<1>3. r' \in {q, Started(q), ConfigFatal(q)}
  BY DEF TickRestart
<1>4. r' \in Runner
  BY <1>1, <1>2, <1>3
<1>5. raised' \in SUBSET AlertKinds
  BY DEF TickRestart, AlertKinds
<1>6. attempts' \in CrashLog
  <2>1. 0 \in 0 .. WindowSec + 1
    BY PolicyAssumption
  <2> QED
    BY <2>1, AppendProperties DEF TickRestart, CrashLog, DecisionOK
<1>7. proc' \in Procs
  BY ProcTypes DEF TickRestart, DecisionOK
<1>8. UNCHANGED <<script, starts, probe, faults>> /\ Refusal(o)
  BY DEF TickRestart, Due, Outage
<1> QED
  BY <1>4, <1>5, <1>6, <1>7, <1>8, RefusalType DEF DecisionOK

(* A tick keeps every variable in its type.                              *)
LEMMA TickType ==
  ASSUME TypeOK, Tick
  PROVE  TypeOK'
<1>1. PICK o \in ProbeOf(proc) :
        \/ \/ TickDraining(o) \/ TickHealthy(o) \/ TickSuspect(o) \/ TickParked(o)
           \/ TickFirstFailure(o) \/ TickBelowStreak(o) \/ TickSchedule(o) \/ TickHold(o)
           \/ TickGiveUp(o)
        \/ \E s \in starts : TickRestart(o, s)
  BY DEF Tick
<1>2. DecisionOK'
  BY <1>1, TypeParts, QuietDecisionType, RestartDecisionType
<1>3. LoopOK'
  BY TypeParts, PollIntervalType DEF Tick, LoopOK
<1> QED
  BY <1>2, <1>3, TypeParts

(* So does the passing of time, in the loop and in a rollout.            *)
LEMMA TimeType ==
  ASSUME TypeOK, Elapse \/ Prewarm
  PROVE  TypeOK'
<1>1. DecisionOK /\ LoopOK
  BY TypeParts
<1>2. Aged(r) \in Runner
  BY <1>1, AgedType DEF DecisionOK
<1>3. InWindow(AgedLog(attempts)) \in CrashLog
  <2>1. AgedLog(attempts) \in CrashLog
    BY <1>1, AgedLogType DEF DecisionOK
  <2> QED
    BY <2>1, InWindowType, PolicyAssumption DEF CrashLog
<1>4. CASE Elapse
  <2>1. DecisionOK'
    BY <1>1, <1>2, <1>3, <1>4 DEF DecisionOK, Elapse, env
  <2>2. LoopOK'
    BY <1>1, <1>4 DEF LoopOK, Elapse
  <2> QED
    BY <2>1, <2>2, TypeParts
<1>5. CASE Prewarm
  <2>1. \A s \in State : [Aged(r) EXCEPT !.state = s] \in Runner
    BY <1>2, FieldTypes, Resets
  <2>2. r' \in Runner
    BY <1>2, <1>5, <2>1, States DEF Prewarm
  <2>3. DecisionOK'
    BY <1>1, <1>3, <1>5, <2>2 DEF DecisionOK, Prewarm, env, AlertKinds
  <2>4. LoopOK'
    BY <1>1, <1>5, RunnerAssumption DEF LoopOK, Prewarm, Sooner
  <2> QED
    BY <2>3, <2>4, TypeParts
<1> QED
  BY <1>4, <1>5

(* So does bringing a service up, in each of its outcomes.               *)
LEMMA UpServiceType ==
  ASSUME DecisionOK, NEW batch, UpService(batch)
  PROVE  DecisionOK'
<1>1. /\ mark_stopped(r) \in Runner /\ mark_start_failed(r) \in Runner
      /\ \A s \in State : [r EXCEPT !.state = s] \in Runner
  BY StopAndStartTypes, FieldTypes, Resets DEF DecisionOK
<1>2. r' \in Runner
  BY <1>1, States DEF UpService, UpGateClosed, UpSkipped, UpEnvFailed, UpStarted
<1>3. raised' \in SUBSET AlertKinds
  BY DEF UpService, UpGateClosed, UpSkipped, UpEnvFailed, UpStarted, AlertKinds
<1>4. proc' \in Procs /\ start_failed' \in BOOLEAN
  BY ProcTypes DEF UpService, UpGateClosed, UpSkipped, UpEnvFailed, UpStarted, DecisionOK
<1> QED
  BY <1>2, <1>3, <1>4 DEF UpService, DecisionOK

(* So does every operation a client asks for.                            *)
LEMMA OperationType ==
  ASSUME TypeOK,
         BootUp \/ Up \/ Down \/ RestartOne \/ Drain \/ CancelDrain \/ Rollout
  PROVE  TypeOK'
<1>1. DecisionOK /\ LoopOK
  BY TypeParts
<1>2. /\ mark_stopped(r) \in Runner /\ RestartReset(r) \in Runner
      /\ \A s \in State, t \in Nat \cup {None} :
           [r EXCEPT !.state = s, !.drain_grace_until = t] \in Runner
  BY <1>1, StopAndStartTypes, FieldTypes DEF DecisionOK
<1>3. \A s \in State, q \in Runner : [q EXCEPT !.state = s] \in Runner
  BY FieldTypes, Resets
<1>4. CASE BootUp \/ Up
  <2>1. DecisionOK'
    BY <1>1, <1>4, UpServiceType DEF BootUp, Up
  <2>2. LoopOK'
    BY <1>1, <1>4 DEF LoopOK, BootUp, Up, UpService, Idle
  <2> QED
    BY <2>1, <2>2, TypeParts
<1>5. CASE Down
  <2>1. DecisionOK'
    BY <1>1, <1>2, <1>5, ProcTypes DEF DecisionOK, Down
  <2>2. LoopOK'
    BY <1>1, <1>5 DEF LoopOK, Down, Idle
  <2> QED
    BY <2>1, <2>2, TypeParts
<1>6. CASE RestartOne
  <2>1. \A s : [RestartReset(r) EXCEPT !.state = IF s = "ok" THEN "Starting" ELSE @] \in Runner
    <3> TAKE s
    <3>1. (IF s = "ok" THEN "Starting" ELSE RestartReset(r).state) \in State
      BY <1>2, States DEF Runner
    <3> QED
      BY <1>2, <1>3, <3>1
  <2>5. r' \in Runner
    BY <1>2, <1>6, <2>1 DEF RestartOne
  <2>2. proc' \in Procs
    BY <1>1, <1>6, ReplaceType DEF RestartOne, DecisionOK
  <2>3. DecisionOK'
    BY <1>1, <1>6, <2>5, <2>2, Resets DEF DecisionOK, RestartOne
  <2>4. LoopOK'
    BY <1>1, <1>6 DEF LoopOK, RestartOne, Idle
  <2> QED
    BY <2>3, <2>4, TypeParts
<1>7. CASE Drain \/ CancelDrain
  <2>1. /\ [r EXCEPT !.state = "Draining", !.drain_grace_until = DrainGrace] \in Runner
        /\ [r EXCEPT !.state = "Healthy", !.drain_grace_until = None] \in Runner
    BY <1>2, States, Resets, RunnerAssumption
  <2>4. r' \in Runner
    BY <1>7, <2>1 DEF Drain, CancelDrain
  <2>2. DecisionOK'
    BY <1>1, <1>7, <2>4 DEF DecisionOK, Drain, CancelDrain, env, history
  <2>3. LoopOK'
    BY <1>1, <1>7 DEF LoopOK, Drain, CancelDrain, Idle
  <2> QED
    BY <2>2, <2>3, TypeParts
<1>8. CASE Rollout
  <2> DEFINE stopped == [r EXCEPT !.state = "Stopped", !.drain_grace_until = None]
  <2>1. stopped \in Runner
    BY <1>2, States, Resets
  <2>2. [stopped EXCEPT !.state = "Starting"] \in Runner
    BY <1>3, <2>1, States
  <2>3. r' \in {stopped, [stopped EXCEPT !.state = "Starting"]}
    BY <1>8 DEF Rollout
  <2>4. proc' \in Procs
    BY <1>1, <1>8, ReplaceType DEF Rollout, DecisionOK
  <2>5. raised' \in SUBSET AlertKinds
    BY <1>8 DEF Rollout, AlertKinds
  <2>6. r' \in Runner
    BY <2>1, <2>2, <2>3
  <2>7. DecisionOK'
    BY <1>1, <1>8, <2>4, <2>5, <2>6 DEF DecisionOK, Rollout
  <2>8. LoopOK'
    BY <1>1, <1>8, RunnerAssumption DEF LoopOK, Rollout
  <2> QED
    BY <2>7, <2>8, TypeParts
<1> QED
  BY <1>4, <1>5, <1>6, <1>7, <1>8

(* So does whatever the process and the operator do by themselves.       *)
LEMMA OutsideType ==
  ASSUME TypeOK, ProcUp \/ ProcCrash \/ ProcExit \/ Script
  PROVE  TypeOK'
<1>1. DecisionOK /\ LoopOK
  BY TypeParts
<1>2. proc' \in Procs
  BY <1>1 DEF DecisionOK, ProcUp, ProcCrash, ProcExit, Script, Procs
<1>5. script' \in BOOLEAN
  BY <1>1 DEF DecisionOK, ProcUp, ProcCrash, ProcExit, Script
<1>6. faults' \in 0 .. MaxFaults
  BY <1>1, RunnerAssumption DEF DecisionOK, ProcUp, ProcCrash, ProcExit, Script
<1>3. DecisionOK'
  BY <1>1, <1>2, <1>5, <1>6 DEF DecisionOK, ProcUp, ProcCrash, ProcExit, Script, history
<1>4. LoopOK'
  BY <1>1 DEF LoopOK, ProcUp, ProcCrash, ProcExit, Script
<1> QED
  BY <1>3, <1>4, TypeParts

(* So does a daemon that restarts.                                       *)
LEMMA DaemonRestartType ==
  ASSUME TypeOK, DaemonRestart
  PROVE  TypeOK'
<1>1. DecisionOK /\ LoopOK
  BY TypeParts
<1>2. PICK o \in ProbeOf(proc) :
        /\ r' = Reconciled(o = "healthy")
        /\ intent' = IF o = "healthy" /\ intent = "stop" THEN "adopted" ELSE intent
  BY DEF DaemonRestart
<1>3. r' \in Runner
  BY <1>2, NewRunnerType
<1>4. refused' \in 0 .. RESTART_FAIL_STREAK
  BY RunnerAssumption DEF DaemonRestart
<1>10. start_failed' \in BOOLEAN /\ attempts' \in CrashLog
  BY Resets DEF DaemonRestart
<1>6. intent' \in {"run", "stop", "adopted"}
  BY <1>1, <1>2 DEF DecisionOK
<1>9. starts \in StartModes /\ probe \in Probes
  BY <1>1 DEF DecisionOK
<1>7. UNCHANGED <<proc, script, starts, probe, faults>> /\ raised' = {}
  BY DEF DaemonRestart, env
<1>8. DecisionOK'
  BY <1>1, <1>3, <1>4, <1>6, <1>7, <1>9, <1>10 DEF DecisionOK
<1>5. LoopOK'
  BY PollIntervalType, RunnerAssumption DEF LoopOK, DaemonRestart
<1> QED
  BY <1>5, <1>8, TypeParts

(* The first state of a daemon is well typed.                            *)
LEMMA InitType == Init => TypeOK
<1> SUFFICES ASSUME Init PROVE DecisionOK /\ LoopOK
  BY TypeParts
<1>1. r \in Runner
  BY NewRunnerType DEF Init
<1>2. LoopOK
  BY PollIntervalType, RunnerAssumption DEF LoopOK, Init
<1>3. refused \in 0 .. RESTART_FAIL_STREAK /\ faults \in 0 .. MaxFaults /\ attempts \in CrashLog
  BY Resets, RunnerAssumption DEF Init
<1>4. /\ proc \in Procs /\ starts \in StartModes /\ probe \in Probes /\ script \in BOOLEAN
      /\ start_failed \in BOOLEAN
  BY DEF Init, Procs
<1>5. DecisionOK
  BY <1>1, <1>3, <1>4 DEF DecisionOK, Init
<1> QED
  BY <1>2, <1>5

(* Every step keeps the types.                                           *)
LEMMA StepType == TypeOK /\ [Next]_vars => TypeOK'
<1> SUFFICES ASSUME TypeOK, [Next]_vars PROVE TypeOK'
  OBVIOUS
<1>1. CASE UNCHANGED vars
  BY <1>1 DEF vars, env, history, TypeOK
<1> QED
  BY <1>1, TickType, TimeType, OperationType, OutsideType, DaemonRestartType DEF Next

(* Every reachable state is well typed and within its bounds, for every     *)
(* window, cap and curve, and every choice of operations: no handler of    *)
(* the runner pushes a streak past its cap or loses a timestamp.           *)
THEOREM TypeCorrect == Spec => []TypeOK
BY InitType, StepType, PTL DEF Spec

-----------------------------------------------------------------------------
(* What the updates do to the two fields the invariant speaks of.           *)

(* The state and the streak that each mark of the handlers leaves.          *)
LEMMA Effects ==
  ASSUME NEW q \in Runner
  PROVE  /\ Aged(q).state = q.state /\ Aged(q).fail_streak = q.fail_streak
         /\ mark_stopped(q).state = "Stopped"
         /\ mark_stopped(q).fail_streak = q.fail_streak
         /\ mark_start_failed(q).state = "Unhealthy"
         /\ mark_start_failed(q).start_retry = TRUE
         /\ Recovered(q).state = "Healthy" /\ Recovered(q).fail_streak = 0
         /\ RestartReset(q).state = "Stopped"
         /\ RestartReset(q).fail_streak = q.fail_streak
         /\ Started(q).state = "Restarting" /\ Started(q).fail_streak = q.fail_streak
BY DEF Runner, Aged, mark_stopped, mark_start_failed, Recovered, RestartReset, Started

(* The single-field updates change the state as they say, the streak never. *)
LEMMA FieldEffects ==
  ASSUME NEW q \in Runner, NEW s, NEW t
  PROVE  /\ [q EXCEPT !.state = s].state = s
         /\ [q EXCEPT !.state = s].fail_streak = q.fail_streak
         /\ [q EXCEPT !.state = s, !.drain_grace_until = t].state = s
         /\ [q EXCEPT !.state = s, !.drain_grace_until = t].fail_streak = q.fail_streak
         /\ [q EXCEPT !.restart_after = t].state = q.state
         /\ [q EXCEPT !.restart_after = t].fail_streak = q.fail_streak
         /\ [q EXCEPT !.restart_after = t, !.state = s].state = s
         /\ [q EXCEPT !.restart_after = t, !.state = s].fail_streak = q.fail_streak
BY DEF Runner

(* Charging and attempting a restart change neither the state nor the streak. *)
LEMMA AttemptEffects ==
  ASSUME NEW q \in Runner
  PROVE  /\ Charged(q).state = q.state /\ Charged(q).fail_streak = q.fail_streak
         /\ Attempting(q).state = q.state /\ Attempting(q).fail_streak = q.fail_streak
         /\ ConfigFatal(q).state \in {q.state, "Failed"}
         /\ ConfigFatal(q).fail_streak = q.fail_streak
<1>1. Charged(q).state = q.state /\ Charged(q).fail_streak = q.fail_streak
  BY DEF Charged, Runner
<1>2. /\ Attempting(q).state = Charged(q).state
      /\ Attempting(q).fail_streak = Charged(q).fail_streak
  BY ChargedType DEF Attempting, Runner
<1>3. ConfigFatal(q).state \in {q.state, "Failed"} /\ ConfigFatal(q).fail_streak = q.fail_streak
  BY DEF ConfigFatal, Runner
<1> QED
  BY <1>1, <1>2, <1>3

-----------------------------------------------------------------------------
(* The inductive invariant, an action at a time.                            *)

Evidence == StreakBacked /\ RestartEvidence /\ PrewarmAsked /\ StopHolds

(* The inductive invariant is the type invariant and the evidence.       *)
LEMMA InvParts == IInv <=> TypeOK /\ Evidence
BY DEF IInv, Evidence

(* A refused probe adds one to the history as it does to the streak, so the *)
(* streak stays backed.                                                    *)
LEMMA RefusalBacks ==
  ASSUME DecisionOK, StreakBacked, RestartEvidence, NEW o, Refusal(o)
  PROVE  /\ start_failed \/ Bump(r.fail_streak, FailBound) <= refused'
         /\ start_failed' = start_failed /\ intent' = intent
         /\ refused' >= refused /\ refused' <= RESTART_FAIL_STREAK
<1>1. r.fail_streak \in 0 .. FailBound /\ refused \in 0 .. RESTART_FAIL_STREAK
  BY DEF DecisionOK, Runner
<1>2. refused' = Bump(refused, RESTART_FAIL_STREAK) /\ FailBound = RESTART_FAIL_STREAK
  BY DEF Refusal, FailBound
<1>3. /\ start_failed \/ Bump(r.fail_streak, FailBound) <= refused'
      /\ refused' >= refused /\ refused' <= RESTART_FAIL_STREAK
  BY <1>1, <1>2, RunnerAssumption DEF Bump, StreakBacked
<1> QED
  BY <1>3 DEF Refusal

(* Wherever the runner was, a refusal that leaves it in its state, or moves *)
(* it anywhere but into Restarting, keeps the evidence.                    *)
LEMMA RefusalKeeps ==
  ASSUME DecisionOK, Evidence, NEW o, Refusal(o), UNCHANGED prewarm,
         r'.fail_streak \in {r.fail_streak, Bump(r.fail_streak, FailBound)},
         r'.state = r.state \/ (r.state # "Stopped" /\ r'.state # "Restarting")
  PROVE  Evidence'
<1>1. /\ start_failed \/ Bump(r.fail_streak, FailBound) <= refused'
      /\ start_failed' = start_failed /\ intent' = intent
      /\ refused' >= refused /\ refused' <= RESTART_FAIL_STREAK
  BY RefusalBacks DEF Evidence
<1>2. /\ r.fail_streak \in Nat /\ refused \in Nat /\ refused' \in Nat
      /\ Bump(r.fail_streak, FailBound) \in Nat
  BY RefusalType, BumpType, Bounds, RunnerAssumption DEF DecisionOK, Runner
<1>3. StreakBacked'
  BY <1>1, <1>2 DEF Evidence, StreakBacked
<1>4. RestartEvidence'
  BY <1>1, <1>2, RunnerAssumption DEF Evidence, RestartEvidence
<1>5. PrewarmAsked'
  BY <1>1 DEF Evidence, PrewarmAsked
<1>6. StopHolds'
  BY <1>1 DEF Evidence, StopHolds
<1> QED
  BY <1>3, <1>4, <1>5, <1>6 DEF Evidence

(* Every decision of a tick that runs no start command keeps the evidence. *)
LEMMA QuietDecisionKeeps ==
  ASSUME DecisionOK, Evidence, prewarm = 0, UNCHANGED prewarm, NEW o,
         \/ TickDraining(o) \/ TickHealthy(o) \/ TickSuspect(o) \/ TickParked(o)
         \/ TickFirstFailure(o) \/ TickBelowStreak(o) \/ TickSchedule(o) \/ TickHold(o)
         \/ TickGiveUp(o)
  PROVE  Evidence'
<1>1. r \in Runner /\ Counted \in Runner /\ Charged(Counted) \in Runner
  BY CountedType, ChargedType DEF DecisionOK
<1>2. Counted.state = r.state /\ Counted.fail_streak = Bump(r.fail_streak, FailBound)
  BY <1>1, CountedType
<1>3. CASE TickDraining(o)
  <2> DEFINE q == [r EXCEPT !.state = "Stopped", !.drain_grace_until = None]
  <2>3. q.state = "Stopped" /\ q.fail_streak = r.fail_streak
    BY <1>1, FieldEffects
  <2>4. r.state = "Draining" /\ (r' = r \/ r' = q)
    BY <1>3 DEF TickDraining
  <2>1. /\ r'.fail_streak = r.fail_streak
        /\ r'.state = r.state \/ (r.state = "Draining" /\ r'.state = "Stopped")
    BY <2>3, <2>4
  <2>2. UNCHANGED history
    BY <1>3 DEF TickDraining
  <2> QED
    BY <2>1, <2>2 DEF Evidence, StreakBacked, RestartEvidence, PrewarmAsked, StopHolds, history
<1>4. CASE TickHealthy(o)
  <2> DEFINE q == [r EXCEPT !.state = "Healthy", !.fail_streak = 0]
  <2>3. q.state = "Healthy" /\ q.fail_streak = 0
    BY <1>1 DEF Runner
  <2>5. Recovered(r).state = "Healthy" /\ Recovered(r).fail_streak = 0
    BY <1>1, Effects
  <2>4. r' = q \/ r' = Recovered(r)
    BY <1>4 DEF TickHealthy
  <2>1. r'.state = "Healthy" /\ r'.fail_streak = 0
    BY <2>3, <2>4, <2>5
  <2>2. refused' = 0 /\ intent' # "stop"
    BY <1>4 DEF TickHealthy
  <2> QED
    BY <2>1, <2>2 DEF Evidence, StreakBacked, RestartEvidence, PrewarmAsked, StopHolds
<1>5. CASE TickSuspect(o)
  <2> DEFINE q == [r EXCEPT !.state = "Unhealthy"]
  <2>3. q.state = "Unhealthy" /\ q.fail_streak = r.fail_streak
    BY <1>1, FieldEffects
  <2>4. r' = r \/ (r.state # "Stopped" /\ r' = q)
    BY <1>5 DEF TickSuspect
  <2>1. /\ r'.fail_streak = r.fail_streak
        /\ r'.state = r.state \/ (r.state # "Stopped" /\ r'.state = "Unhealthy")
    BY <2>3, <2>4
  <2>2. UNCHANGED history
    BY <1>5 DEF TickSuspect
  <2> QED
    BY <2>1, <2>2 DEF Evidence, StreakBacked, RestartEvidence, PrewarmAsked, StopHolds, history
<1>6. CASE TickParked(o)
  BY <1>6, RefusalKeeps DEF TickParked
<1>7. CASE TickFirstFailure(o)
  <2>1. r'.fail_streak = Bump(r.fail_streak, FailBound) /\ r'.state = "Unhealthy"
    BY <1>1, <1>2, <1>7, FieldEffects DEF TickFirstFailure
  <2> QED
    BY <1>7, <2>1, RefusalKeeps DEF TickFirstFailure
<1>8. CASE TickBelowStreak(o)
  BY <1>2, <1>8, RefusalKeeps DEF TickBelowStreak
<1>9. CASE TickSchedule(o)
  <2>1. r'.fail_streak = Bump(r.fail_streak, FailBound) /\ r'.state = r.state
    BY <1>1, <1>2, <1>9, FieldEffects DEF TickSchedule
  <2> QED
    BY <1>9, <2>1, RefusalKeeps DEF TickSchedule, Outage
<1>10. CASE TickHold(o)
  BY <1>2, <1>10, RefusalKeeps DEF TickHold, Outage
<1>11. CASE TickGiveUp(o)
  <2>1. r'.fail_streak = Bump(r.fail_streak, FailBound) /\ r'.state = "Failed"
    BY <1>1, <1>2, <1>11, FieldEffects, AttemptEffects DEF TickGiveUp
  <2>2. r.state # "Stopped"
    BY <1>11 DEF TickGiveUp, Due, Outage
  <2> QED
    BY <1>11, <2>1, <2>2, RefusalKeeps DEF TickGiveUp, Due, Outage
<1> QED
  BY <1>3, <1>4, <1>5, <1>6, <1>7, <1>8, <1>9, <1>10, <1>11

(* The one step that makes a service Restarting has the full streak, hence  *)
(* the refused probes or the failed start that back it.                    *)
LEMMA RestartDecisionKeeps ==
  ASSUME DecisionOK, Evidence, prewarm = 0, UNCHANGED prewarm,
         NEW o, NEW s \in starts, TickRestart(o, s)
  PROVE  Evidence'
<1> DEFINE q == Attempting(Counted)
           n == Bump(r.fail_streak, FailBound)
<1>1. r \in Runner /\ Counted \in Runner /\ q \in Runner
  BY CountedType, AttemptingType DEF DecisionOK
<1>2. q.state = r.state /\ q.fail_streak = n
  BY <1>1, CountedType, AttemptEffects
<1>3. /\ Started(q).fail_streak = q.fail_streak /\ ConfigFatal(q).fail_streak = q.fail_streak
      /\ ConfigFatal(q).state \in {q.state, "Failed"}
  BY <1>1, Effects, AttemptEffects
<1>4. r' \in {q, Started(q), ConfigFatal(q)}
  BY DEF TickRestart
<1>5. r'.fail_streak = n
  BY <1>2, <1>3, <1>4
<1>6. /\ r.state \in {"Unhealthy", "Restarting"} /\ Refusal(o) /\ n >= RESTART_FAIL_STREAK
  BY <1>1, CountedType DEF TickRestart, Due, Outage
<1>7. /\ start_failed \/ n <= refused'
      /\ start_failed' = start_failed /\ intent' = intent
      /\ refused' <= RESTART_FAIL_STREAK
  BY <1>6, RefusalBacks DEF Evidence
<1>8. n \in Nat /\ refused' \in Nat
  BY <1>1, <1>6, RefusalType, BumpType, Bounds, RunnerAssumption DEF Runner
<1> HIDE DEF q, n
<1>9. start_failed' \/ refused' = RESTART_FAIL_STREAK
  BY <1>6, <1>7, <1>8, RunnerAssumption
<1>10. StreakBacked' /\ RestartEvidence'
  BY <1>5, <1>7, <1>9 DEF StreakBacked, RestartEvidence
<1>11. PrewarmAsked'
  BY <1>7 DEF Evidence, PrewarmAsked
<1>12. StopHolds'
  BY <1>6, <1>7 DEF Evidence, StopHolds
<1> QED
  BY <1>10, <1>11, <1>12 DEF Evidence

(* A tick keeps the evidence.                                            *)
LEMMA TickKeeps ==
  ASSUME DecisionOK, Evidence, Tick
  PROVE  Evidence'
<1>1. PICK o \in ProbeOf(proc) :
        \/ \/ TickDraining(o) \/ TickHealthy(o) \/ TickSuspect(o) \/ TickParked(o)
           \/ TickFirstFailure(o) \/ TickBelowStreak(o) \/ TickSchedule(o) \/ TickHold(o)
           \/ TickGiveUp(o)
        \/ \E s \in starts : TickRestart(o, s)
  BY DEF Tick
<1>2. prewarm = 0 /\ UNCHANGED prewarm
  BY DEF Tick, RoundDue
<1> QED
  BY <1>1, <1>2, QuietDecisionKeeps, RestartDecisionKeeps

(* A step that leaves the history and the streak alone keeps the evidence,  *)
(* if it does not make the service Restarting and the operator's stop is   *)
(* respected.                                                              *)
LEMMA QuietStepKeeps ==
  ASSUME Evidence, r'.fail_streak = r.fail_streak, refused' = refused,
         start_failed' = start_failed,
         r'.state = r.state \/ r'.state # "Restarting",
         prewarm' > 0 => intent' = "run",
         intent' = "stop" => r'.state = "Stopped"
  PROVE  Evidence'
<1>1. StreakBacked' /\ RestartEvidence'
  BY DEF Evidence, StreakBacked, RestartEvidence
<1>2. PrewarmAsked' /\ StopHolds'
  BY DEF PrewarmAsked, StopHolds
<1> QED
  BY <1>1, <1>2 DEF Evidence

(* The passing of time keeps it, in the loop and in a rollout.           *)
LEMMA TimeKeeps ==
  ASSUME DecisionOK, LoopOK, Evidence, Elapse \/ Prewarm
  PROVE  Evidence'
<1>1. /\ Aged(r) \in Runner /\ Aged(r).state = r.state
      /\ Aged(r).fail_streak = r.fail_streak
  BY AgedType, Effects DEF DecisionOK
<1>2. CASE Elapse
  BY <1>1, <1>2, QuietStepKeeps DEF Elapse, Evidence, PrewarmAsked, StopHolds
<1>3. CASE Prewarm
  <2>1. /\ prewarm > 0 /\ prewarm' \in Int
        /\ UNCHANGED <<intent, refused, start_failed>>
    BY <1>3 DEF Prewarm, LoopOK
  <2>2. intent = "run"
    BY <2>1 DEF Evidence, PrewarmAsked
  <2>3. \A s : /\ [Aged(r) EXCEPT !.state = s].state = s
               /\ [Aged(r) EXCEPT !.state = s].fail_streak = r.fail_streak
    BY <1>1, FieldEffects
  <2>4. /\ r'.fail_streak = r.fail_streak
        /\ r'.state = r.state \/ r'.state \in {"Stopped", "Healthy"}
    BY <1>1, <1>3, <2>3 DEF Prewarm
  <2> QED
    BY <2>1, <2>2, <2>4, QuietStepKeeps
<1> QED
  BY <1>2, <1>3

(* Bringing a service up keeps it: a full streak comes with a failed start. *)
LEMMA UpServiceKeeps ==
  ASSUME DecisionOK, LoopOK, Evidence, NEW batch, UpService(batch)
  PROVE  Evidence'
<1>1. r \in Runner /\ intent' = "run" /\ refused' = refused
  BY DEF UpService, DecisionOK
<1>2. /\ mark_stopped(r).state = "Stopped" /\ mark_stopped(r).fail_streak = r.fail_streak
      /\ mark_start_failed(r).state = "Unhealthy"
  BY <1>1, Effects
<1>3. \A s : [r EXCEPT !.state = s].state = s /\ [r EXCEPT !.state = s].fail_streak = r.fail_streak
  BY <1>1, FieldEffects
<1>4. CASE UpGateClosed \/ UpSkipped \/ (batch /\ UpEnvFailed)
  <2>1. start_failed' = start_failed
    BY <1>4 DEF UpGateClosed, UpSkipped, UpEnvFailed
  <2>2. r'.fail_streak = r.fail_streak /\ r'.state \in {"Stopped", "Healthy", "Failed"}
    BY <1>2, <1>3, <1>4 DEF UpGateClosed, UpSkipped, UpEnvFailed
  <2> QED
    BY <1>1, <2>1, <2>2, QuietStepKeeps
<1>5. CASE \E s \in starts : UpStarted(s)
  <2>1. PICK s \in starts : UpStarted(s)
    BY <1>5
  <2>2. s \in StartOutcomes
    BY StartOutcome
  <2>3. CASE s = "err"
    <3>1. start_failed' /\ r' = mark_start_failed(r)
      BY <2>1, <2>3 DEF UpStarted
    <3> QED
      BY <1>1, <1>2, <3>1 DEF Evidence, StreakBacked, RestartEvidence, PrewarmAsked, StopHolds
  <2>4. CASE s # "err"
    <3>1. r' = [r EXCEPT !.state = "Starting"] \/ r' = [r EXCEPT !.state = "Failed"]
      BY <2>1, <2>2, <2>4 DEF UpStarted, StartOutcomes
    <3>2. start_failed' = start_failed
      BY <2>1, <2>4 DEF UpStarted, DecisionOK
    <3>3. r'.fail_streak = r.fail_streak /\ r'.state \in {"Starting", "Failed"}
      BY <1>3, <3>1
    <3> QED
      BY <1>1, <3>2, <3>3, QuietStepKeeps
  <2> QED
    BY <2>3, <2>4
<1> QED
  BY <1>4, <1>5 DEF UpService

(* Every operation a client asks for keeps it.                           *)
LEMMA OperationKeeps ==
  ASSUME DecisionOK, LoopOK, Evidence,
         BootUp \/ Up \/ Down \/ RestartOne \/ Drain \/ CancelDrain \/ Rollout
  PROVE  Evidence'
<1>1. r \in Runner
  BY DEF DecisionOK
<1>2. CASE BootUp \/ Up
  BY <1>2, UpServiceKeeps DEF BootUp, Up
<1>3. CASE Down
  <2>1. r'.state = "Stopped" /\ r'.fail_streak = r.fail_streak
    BY <1>1, <1>3, Effects DEF Down
  <2>2. refused' = refused /\ start_failed' = start_failed /\ prewarm' = 0
    BY <1>3 DEF Down, Idle
  <2> QED
    BY <2>1, <2>2, QuietStepKeeps
<1>4. CASE RestartOne
  <2>1. RestartReset(r) \in Runner /\ RestartReset(r).fail_streak = r.fail_streak
        /\ RestartReset(r).state = "Stopped"
    BY <1>1, Effects, StopAndStartTypes
  <2>2. \A t : /\ [RestartReset(r) EXCEPT !.state = t].state = t
               /\ [RestartReset(r) EXCEPT !.state = t].fail_streak = r.fail_streak
    BY <2>1, FieldEffects
  <2>3. \/ r' = RestartReset(r)
        \/ \E s \in starts :
             r' = [RestartReset(r) EXCEPT !.state = IF s = "ok" THEN "Starting" ELSE @]
    BY <1>4 DEF RestartOne
  <2>4. r'.fail_streak = r.fail_streak /\ r'.state \in {"Starting", "Stopped"}
    <3>1. CASE r' = RestartReset(r)
      BY <2>1, <3>1
    <3>2. ASSUME NEW s \in starts,
                 r' = [RestartReset(r) EXCEPT !.state = IF s = "ok" THEN "Starting" ELSE @]
          PROVE  r'.fail_streak = r.fail_streak /\ r'.state \in {"Starting", "Stopped"}
      BY <2>1, <2>2, <3>2
    <3> QED
      BY <2>3, <3>1, <3>2
  <2>5. /\ refused' = refused /\ start_failed' = start_failed /\ prewarm' = 0
        /\ intent' = "run"
    BY <1>4 DEF RestartOne, Idle
  <2> QED
    BY <2>4, <2>5, QuietStepKeeps
<1>5. CASE Drain \/ CancelDrain
  <2> DEFINE draining == [r EXCEPT !.state = "Draining", !.drain_grace_until = DrainGrace]
             back == [r EXCEPT !.state = "Healthy", !.drain_grace_until = None]
  <2>1. /\ draining.state = "Draining" /\ draining.fail_streak = r.fail_streak
        /\ back.state = "Healthy" /\ back.fail_streak = r.fail_streak
    BY <1>1, FieldEffects
  <2>2. r' \in {draining, back}
    BY <1>5 DEF Drain, CancelDrain
  <2> HIDE DEF draining, back
  <2>5. r'.fail_streak = r.fail_streak /\ r'.state \in {"Draining", "Healthy"}
    BY <2>1, <2>2
  <2>3. UNCHANGED history /\ prewarm' = 0 /\ r.state # "Stopped"
    BY <1>5 DEF Drain, CancelDrain, Idle
  <2>4. intent' # "stop"
    BY <2>3 DEF history, Evidence, StopHolds
  <2> QED
    BY <2>3, <2>4, <2>5, QuietStepKeeps DEF history
<1>6. CASE Rollout
  <2> DEFINE stopped == [r EXCEPT !.state = "Stopped", !.drain_grace_until = None]
  <2>1. stopped.state = "Stopped" /\ stopped.fail_streak = r.fail_streak
    BY <1>1, FieldEffects
  <2>2. stopped \in Runner
    BY <1>1, FieldTypes, States, Resets
  <2>3. r' \in {stopped, [stopped EXCEPT !.state = "Starting"]}
    BY <1>6 DEF Rollout
  <2> HIDE DEF stopped
  <2>4. /\ [stopped EXCEPT !.state = "Starting"].state = "Starting"
        /\ [stopped EXCEPT !.state = "Starting"].fail_streak = r.fail_streak
    BY <2>1, <2>2, FieldEffects
  <2>5. r'.fail_streak = r.fail_streak /\ r'.state \in {"Starting", "Stopped"}
    BY <2>1, <2>3, <2>4
  <2>6. /\ refused' = refused /\ start_failed' = start_failed /\ intent' = "run"
    BY <1>6 DEF Rollout
  <2> QED
    BY <2>5, <2>6, QuietStepKeeps
<1> QED
  BY <1>2, <1>3, <1>4, <1>5, <1>6

(* A daemon that starts knows no streak, and only the states it can see. *)
LEMMA ReconciledEffects ==
  ASSUME NEW b \in BOOLEAN
  PROVE  /\ Reconciled(b).fail_streak = 0
         /\ Reconciled(b).state = IF b THEN "Healthy" ELSE "Stopped"
<1>1. NewRunner.fail_streak = 0 /\ NewRunner.state = "Stopped"
  BY DEF NewRunner
<1>2. [NewRunner EXCEPT !.state = "Healthy"].state = "Healthy"
      /\ [NewRunner EXCEPT !.state = "Healthy"].fail_streak = 0
  BY <1>1, NewRunnerType, FieldEffects
<1> QED
  BY <1>1, <1>2 DEF Reconciled

(* A daemon that restarts keeps the evidence: it has forgotten every streak. *)
LEMMA DaemonRestartKeeps ==
  ASSUME DecisionOK, Evidence, DaemonRestart
  PROVE  Evidence'
<1>1. PICK o \in ProbeOf(proc) :
        /\ r' = Reconciled(o = "healthy")
        /\ intent' = IF o = "healthy" /\ intent = "stop" THEN "adopted" ELSE intent
  BY DEF DaemonRestart
<1>2. r'.fail_streak = 0 /\ r'.state = IF o = "healthy" THEN "Healthy" ELSE "Stopped"
  BY <1>1, ReconciledEffects
<1>3. refused' = 0 /\ prewarm' = 0
  BY DEF DaemonRestart
<1> QED
  BY <1>1, <1>2, <1>3
     DEF Evidence, StreakBacked, RestartEvidence, PrewarmAsked, StopHolds

(* The invariant holds when the daemon starts.                           *)
LEMMA InvInit == Init => IInv
<1> SUFFICES ASSUME Init PROVE Evidence
  BY InitType, InvParts
<1>1. r.fail_streak = 0 /\ r.state \in {"Healthy", "Stopped"}
  BY ReconciledEffects DEF Init
<1>2. refused = 0 /\ prewarm = 0 /\ intent = "run"
  BY DEF Init
<1> QED
  BY <1>1, <1>2 DEF Evidence, StreakBacked, RestartEvidence, PrewarmAsked, StopHolds

(* Every step keeps the invariant.                                       *)
LEMMA InvStep == IInv /\ [Next]_vars => IInv'
<1> SUFFICES ASSUME TypeOK, Evidence, [Next]_vars PROVE Evidence'
  BY StepType, InvParts DEF IInv, Evidence
<1>1. DecisionOK /\ LoopOK
  BY TypeParts
<1>2. CASE ProcUp \/ ProcCrash \/ ProcExit \/ Script \/ UNCHANGED vars
  <2>1. UNCHANGED <<r, prewarm, history>>
    BY <1>2 DEF ProcUp, ProcCrash, ProcExit, Script, vars
  <2> QED
    BY <2>1 DEF Evidence, StreakBacked, RestartEvidence, PrewarmAsked, StopHolds, history
<1> QED
  BY <1>1, <1>2, TickKeeps, TimeKeeps, OperationKeeps, DaemonRestartKeeps DEF Next

(* The inductive invariant holds in every reachable state.                  *)
THEOREM Invariant == Spec => []IInv
BY InvInit, InvStep, PTL DEF Spec

(* The supervisor restarts a service on its own only with the full streak   *)
(* of refused probes, or after a failed start, behind it: a flapping probe *)
(* never gets there, however the thresholds are set (handle_unhealthy).    *)
THEOREM RestartNeedsEvidence == Spec => []RestartEvidence
<1>1. IInv => RestartEvidence
  BY DEF IInv
<1> QED
  BY <1>1, Invariant, PTL

(* A service taken down by hand stays Stopped until somebody asks for it or *)
(* a tick finds it alive, with any schedule and streak left over (down_one, *)
(* mark_stopped, handle_unhealthy).                                        *)
THEOREM ManualStopHolds == Spec => []StopHolds
<1>1. IInv => StopHolds
  BY DEF IInv
<1> QED
  BY <1>1, Invariant, PTL

-----------------------------------------------------------------------------
(* What a parked service may become.                                        *)

(* Bringing a parked service up turns it red only after a failed start.     *)
LEMMA UpServiceParked ==
  ASSUME DecisionOK, NEW batch, UpService(batch)
  PROVE  \/ r'.state \in Parked \cup {"Healthy", "Starting"}
         \/ r'.state = "Unhealthy" /\ r'.start_retry /\ start_failed'
<1>1. r \in Runner
  BY DEF DecisionOK
<1>2. CASE UpGateClosed \/ UpSkipped \/ UpEnvFailed
  <2>1. r' \in {mark_stopped(r), [r EXCEPT !.state = "Healthy"], [r EXCEPT !.state = "Failed"]}
    BY <1>2 DEF UpGateClosed, UpSkipped, UpEnvFailed
  <2>2. mark_stopped(r).state = "Stopped"
    BY <1>1, Effects
  <2>3. /\ [r EXCEPT !.state = "Healthy"].state = "Healthy"
        /\ [r EXCEPT !.state = "Failed"].state = "Failed"
    BY <1>1, FieldEffects
  <2> QED
    BY <2>1, <2>2, <2>3 DEF Parked
<1>3. CASE \E s \in starts : UpStarted(s)
  <2>1. PICK s \in starts : UpStarted(s)
    BY <1>3
  <2>2. /\ [r EXCEPT !.state = "Starting"].state = "Starting"
        /\ [r EXCEPT !.state = "Failed"].state = "Failed"
    BY <1>1, FieldEffects
  <2>6. mark_start_failed(r).state = "Unhealthy" /\ mark_start_failed(r).start_retry
    BY <1>1, Effects
  <2>3. s \in StartOutcomes
    BY StartOutcome
  <2>4. CASE s = "err"
    <3>1. r' = mark_start_failed(r) /\ start_failed'
      BY <2>1, <2>4 DEF UpStarted
    <3> QED
      BY <2>6, <3>1
  <2>5. CASE s \in {"ok", "err78"}
    <3>1. r' \in {[r EXCEPT !.state = "Starting"], [r EXCEPT !.state = "Failed"]}
      BY <2>1, <2>5 DEF UpStarted
    <3> QED
      BY <2>2, <3>1 DEF Parked
  <2> QED
    BY <2>3, <2>4, <2>5 DEF StartOutcomes
<1>4. (UpGateClosed \/ UpSkipped \/ UpEnvFailed) \/ (\E s \in starts : UpStarted(s))
  BY DEF UpService
<1> QED
  BY <1>2, <1>3, <1>4

(* The tick leaves a parked service parked, unless its probe finds it alive. *)
LEMMA TickParkedStays ==
  ASSUME DecisionOK, r.state \in Parked, Tick
  PROVE  r'.state \in Parked \cup {"Healthy"}
<1>1. r \in Runner
  BY DEF DecisionOK
<1>2. PICK o \in ProbeOf(proc) :
        \/ TickDraining(o) \/ TickHealthy(o) \/ TickSuspect(o) \/ TickParked(o)
        \/ TickFirstFailure(o) \/ TickBelowStreak(o) \/ TickSchedule(o) \/ TickHold(o)
        \/ TickGiveUp(o) \/ \E s \in starts : TickRestart(o, s)
  BY DEF Tick
<1>3. r.state \in {"Stopped", "Failed", "Draining"}
  BY DEF Parked
<1>4. TickDraining(o) \/ TickHealthy(o) \/ TickSuspect(o) \/ TickParked(o)
  BY <1>2, <1>3 DEF TickFirstFailure, TickBelowStreak, TickSchedule, TickHold, TickGiveUp,
                    TickRestart, Due, Outage
<1>5. \/ r' = r
      \/ r' = [r EXCEPT !.state = "Stopped", !.drain_grace_until = None]
      \/ r' = [r EXCEPT !.state = "Healthy", !.fail_streak = 0]
  BY <1>3, <1>4 DEF TickDraining, TickHealthy, TickSuspect, TickParked
<1>6. /\ [r EXCEPT !.state = "Stopped", !.drain_grace_until = None].state = "Stopped"
      /\ [r EXCEPT !.state = "Healthy", !.fail_streak = 0].state = "Healthy"
  BY <1>1 DEF Runner
<1> QED
  BY <1>3, <1>5, <1>6 DEF Parked

(* The state after every other step that may leave Parked.                  *)
LEMMA OperationParked ==
  ASSUME DecisionOK, r.state \in Parked,
         Elapse \/ Prewarm \/ Down \/ RestartOne \/ Drain \/ CancelDrain \/ Rollout \/ DaemonRestart
  PROVE  r'.state \in Parked \cup {"Healthy", "Starting"}
<1>1. r \in Runner /\ Aged(r) \in Runner /\ RestartReset(r) \in Runner
  BY AgedType, StopAndStartTypes DEF DecisionOK
<1>2. r.state \in {"Stopped", "Failed", "Draining"}
  BY DEF Parked
<1>3. CASE Elapse \/ Prewarm
  <2>1. r' \in {Aged(r), [Aged(r) EXCEPT !.state = "Stopped"], [Aged(r) EXCEPT !.state = "Healthy"]}
    BY <1>3 DEF Elapse, Prewarm
  <2>2. Aged(r).state = r.state
    BY <1>1, Effects
  <2>3. /\ [Aged(r) EXCEPT !.state = "Stopped"].state = "Stopped"
        /\ [Aged(r) EXCEPT !.state = "Healthy"].state = "Healthy"
    BY <1>1, FieldEffects
  <2> QED
    BY <1>2, <2>1, <2>2, <2>3 DEF Parked
<1>4. CASE Down
  BY <1>1, <1>4, Effects DEF Down, Parked
<1>5. CASE RestartOne
  <2>1. \/ r' = RestartReset(r)
        \/ \E s \in starts :
             r' = [RestartReset(r) EXCEPT !.state = IF s = "ok" THEN "Starting" ELSE @]
    BY <1>5 DEF RestartOne
  <2>2. RestartReset(r).state = "Stopped"
    BY <1>1, Effects
  <2>3. \A t : [RestartReset(r) EXCEPT !.state = t].state = t
    BY <1>1, FieldEffects
  <2>4. CASE r' = RestartReset(r)
    BY <2>2, <2>4 DEF Parked
  <2>5. ASSUME NEW s \in starts,
               r' = [RestartReset(r) EXCEPT !.state = IF s = "ok" THEN "Starting" ELSE @]
        PROVE  r'.state \in {"Starting", "Stopped"}
    BY <2>2, <2>3, <2>5
  <2> QED
    BY <2>1, <2>4, <2>5 DEF Parked
<1>6. CASE CancelDrain
  <2>1. [r EXCEPT !.state = "Healthy", !.drain_grace_until = None].state = "Healthy"
    BY <1>1, FieldEffects
  <2> QED
    BY <1>6, <2>1 DEF CancelDrain
<1>7. CASE Drain \/ Rollout
  BY <1>2, <1>7 DEF Drain, Rollout
<1>8. CASE DaemonRestart
  <2>1. \A b \in BOOLEAN : Reconciled(b).state \in {"Healthy", "Stopped"}
    BY ReconciledEffects
  <2>2. \E b \in BOOLEAN : r' = Reconciled(b)
    BY <1>8 DEF DaemonRestart
  <2> QED
    BY <2>1, <2>2 DEF Parked
<1> QED
  BY <1>3, <1>4, <1>5, <1>6, <1>7, <1>8

(* Stopped, Failed and Draining are left only through an operator, a daemon *)
(* restart or a probe that finds the service alive, for every choice of     *)
(* thresholds (handle_unhealthy, tick, up_one).                             *)
THEOREM ParkedStays == Spec => ParkedStaysParked
<1> DEFINE Leaves == r.state \in Parked /\ r'.state \notin Parked
           Allowed == \/ r'.state \in {"Healthy", "Starting"}
                      \/ r'.state = "Unhealthy" /\ r'.start_retry /\ start_failed'
<1>1. TypeOK /\ [Next]_vars => [Leaves => Allowed]_vars
  <2> SUFFICES ASSUME TypeOK, Next, Leaves PROVE Allowed
    OBVIOUS
  <2>1. DecisionOK /\ r.state \in Parked /\ r'.state \notin Parked
    BY TypeParts
  <2>2. CASE Tick
    BY <2>1, <2>2, TickParkedStays
  <2>3. CASE BootUp \/ Up
    BY <2>1, <2>3, UpServiceParked DEF BootUp, Up
  <2>4. CASE ProcUp \/ ProcCrash \/ ProcExit \/ Script
    <3>1. r' = r
      BY <2>4 DEF ProcUp, ProcCrash, ProcExit, Script
    <3> QED
      BY <2>1, <3>1
  <2>5. CASE Elapse \/ Prewarm \/ Down \/ RestartOne \/ Drain \/ CancelDrain \/ Rollout
             \/ DaemonRestart
    BY <2>1, <2>5, OperationParked
  <2> QED
    BY <2>2, <2>3, <2>4, <2>5 DEF Next
<1> QED
  BY <1>1, TypeCorrect, PTL DEF Spec, ParkedStaysParked

-----------------------------------------------------------------------------
(* What may charge a crash.                                                 *)

(* The crash log that each update of the handlers leaves.                   *)
LEMMA CrashFields ==
  ASSUME NEW q \in Runner
  PROVE  /\ Aged(q).crashes = AgedLog(q.crashes)
         /\ mark_stopped(q).crashes = q.crashes
         /\ mark_start_failed(q).crashes = q.crashes
         /\ Recovered(q).crashes = <<>>
         /\ RestartReset(q).crashes = <<>>
         /\ Started(q).crashes = q.crashes
         /\ ConfigFatal(q).crashes = q.crashes
BY DEF Runner, Aged, mark_stopped, mark_start_failed, Recovered, RestartReset, Started, ConfigFatal

(* The single-field updates leave the crash log alone.                      *)
LEMMA FieldCrashes ==
  ASSUME NEW q \in Runner, NEW s, NEW t
  PROVE  /\ [q EXCEPT !.state = s].crashes = q.crashes
         /\ [q EXCEPT !.state = s, !.drain_grace_until = t].crashes = q.crashes
         /\ [q EXCEPT !.restart_after = t].crashes = q.crashes
         /\ [q EXCEPT !.restart_after = t, !.state = s].crashes = q.crashes
         /\ [q EXCEPT !.state = s, !.fail_streak = 0].crashes = q.crashes
BY DEF Runner

(* A log that is kept, aged or cleared is not charged.                      *)
LEMMA Uncharged ==
  ASSUME r \in Runner, r'.crashes \in {r.crashes, AgedLog(r.crashes), <<>>}
  PROVE  ~CrashCharged
<1> DEFINE log == r.crashes
<1>1. log \in CrashLog /\ <<>> \in CrashLog /\ AgedLog(log) \in CrashLog
  BY AgedLogType, Resets DEF Runner
<1>2. \A c \in CrashLog : c \in Seq(Int)
  BY SeqMonotonic, PolicyAssumption DEF CrashLog
<1>3. Len(InWindow(AgedLog(log))) <= Len(InWindow(log))
  BY <1>1, AgeingForgets
<1>4. \A c \in CrashLog : Len(InWindow(c)) \in Nat /\ Len(InWindow(c)) <= Len(c)
  <2> SUFFICES ASSUME NEW c \in CrashLog
               PROVE  Len(InWindow(c)) \in Nat /\ Len(InWindow(c)) <= Len(c)
    OBVIOUS
  <2>1. c \in Seq(Int)
    BY <1>2
  <2>2. Len(InWindow(c)) = Len(c) - Cardinality(Popped(c)) /\ InWindow(c) \in Seq(Int)
    BY <2>1, InWindowType
  <2>3. Cardinality(Popped(c)) \in 0 .. Len(c) /\ Len(c) \in Nat
    BY <2>1, PoppedBounds, LenProperties
  <2> QED
    BY <2>2, <2>3
<1>5. Len(InWindow(<<>>)) <= Len(InWindow(log))
  <2>1. Len(<<>>) = 0
    OBVIOUS
  <2> QED
    BY <1>1, <1>4, <2>1
<1>6. r'.crashes = log \/ r'.crashes = AgedLog(log) \/ r'.crashes = <<>>
  OBVIOUS
<1> HIDE DEF log
<1>7. Len(InWindow(r'.crashes)) <= Len(InWindow(log))
  BY <1>1, <1>3, <1>4, <1>5, <1>6
<1>8. Len(InWindow(r'.crashes)) \in Nat /\ Len(InWindow(log)) \in Nat
  BY <1>1, <1>4, <1>6
<1> QED
  BY <1>7, <1>8 DEF CrashCharged, log

(* A restart that is due and charges anything charges a real crash.         *)
LEMMA DueCharges ==
  ASSUME DecisionOK, StreakBacked, RestartEvidence, NEW o, Due(o), CrashCharged,
         r'.crashes = Charged(Counted).crashes
  PROVE  /\ r.state \in {"Unhealthy", "Restarting"}
         /\ refused' = RESTART_FAIL_STREAK \/ start_failed
         /\ ~script /\ ~r.start_retry /\ r.config_fail_streak = 0
<1>1. r \in Runner /\ Counted \in Runner
  BY CountedType DEF DecisionOK
<1>2. /\ Refusal(o) /\ ~script /\ r.state \in {"Unhealthy", "Restarting"}
      /\ Bump(r.fail_streak, FailBound) >= RESTART_FAIL_STREAK
  BY <1>1, CountedType DEF Due, Outage
<1>3. /\ start_failed \/ Bump(r.fail_streak, FailBound) <= refused'
      /\ refused' <= RESTART_FAIL_STREAK
  BY <1>2, RefusalBacks
<1>4. Bump(r.fail_streak, FailBound) \in Nat /\ refused' \in Nat
  BY <1>1, <1>2, RefusalType, BumpType, Bounds, RunnerAssumption DEF Runner
<1>5. refused' = RESTART_FAIL_STREAK \/ start_failed
  BY <1>2, <1>3, <1>4, RunnerAssumption
<1>6. Counted.crashes = r.crashes
  BY <1>1, CountedType
<1>7. r'.crashes # r.crashes
  BY <1>1, Uncharged
<1>8. ASSUME r.config_fail_streak > 0 \/ r.start_retry PROVE FALSE
  <2>1. Counted.config_fail_streak > 0 \/ Counted.start_retry
    BY <1>1, <1>8, CountedType
  <2>2. Charged(Counted).crashes = Counted.crashes
    BY <1>1, <2>1 DEF Charged, Runner
  <2> QED
    BY <1>6, <1>7, <2>2
<1>9. r.config_fail_streak \in Nat
  BY <1>1, Bounds DEF Runner
<1>10. ~r.start_retry /\ ~(r.config_fail_streak > 0)
  BY <1>8
<1>11. r.config_fail_streak = 0
  BY <1>9, <1>10
<1> QED
  BY <1>2, <1>5, <1>10, <1>11

(* What a step may do to the crash log and to the restarts it stands for:   *)
(* keep both, forget both, or let both grow a second older.                 *)
Kept == r'.crashes = r.crashes /\ attempts' = attempts
Forgotten == r'.crashes = <<>> /\ attempts' = <<>>
GrownOld == r'.crashes = AgedLog(r.crashes) /\ attempts' = InWindow(AgedLog(attempts))

(* No decision of a tick but a restart or a give-up that is due touches the *)
(* crash log, unless a recovery forgets it, and the outage with it.         *)
LEMMA QuietTickLogs ==
  ASSUME DecisionOK, NEW o,
         \/ TickDraining(o) \/ TickHealthy(o) \/ TickSuspect(o) \/ TickParked(o)
         \/ TickFirstFailure(o) \/ TickBelowStreak(o) \/ TickSchedule(o) \/ TickHold(o)
  PROVE  Kept \/ Forgotten
<1> USE DEF Kept, Forgotten
<1>1. r \in Runner /\ Counted \in Runner /\ Counted.crashes = r.crashes
  BY CountedType DEF DecisionOK
<1>2. CASE TickDraining(o) \/ TickSuspect(o) \/ TickParked(o)
  <2>1. \/ r' = r
        \/ r' = [r EXCEPT !.state = "Stopped", !.drain_grace_until = None]
        \/ r' = [r EXCEPT !.state = "Unhealthy"]
    BY <1>2 DEF TickDraining, TickSuspect, TickParked
  <2>3. /\ [r EXCEPT !.state = "Stopped", !.drain_grace_until = None].crashes = r.crashes
        /\ [r EXCEPT !.state = "Unhealthy"].crashes = r.crashes
    BY <1>1, FieldCrashes
  <2>2. r'.crashes = r.crashes
    BY <2>1, <2>3
  <2>4. attempts' = attempts
    BY <1>2 DEF TickDraining, TickSuspect, TickParked, history
  <2> QED
    BY <2>2, <2>4
<1>3. CASE TickHealthy(o)
  <2>1. \/ r' = Recovered(r) /\ attempts' = <<>>
        \/ r' = [r EXCEPT !.state = "Healthy", !.fail_streak = 0] /\ attempts' = attempts
    BY <1>3 DEF TickHealthy
  <2>2. Recovered(r).crashes = <<>>
    BY <1>1, CrashFields
  <2>3. [r EXCEPT !.state = "Healthy", !.fail_streak = 0].crashes = r.crashes
    BY <1>1 DEF Runner
  <2> QED
    BY <2>1, <2>2, <2>3
<1>4. CASE TickFirstFailure(o) \/ TickBelowStreak(o) \/ TickSchedule(o) \/ TickHold(o)
  <2>1. \/ r' = Counted
        \/ r' = [Counted EXCEPT !.state = "Unhealthy"]
        \/ r' = [Counted EXCEPT !.restart_after = NextDelay(r)]
    BY <1>4 DEF TickFirstFailure, TickBelowStreak, TickSchedule, TickHold
  <2>3. /\ [Counted EXCEPT !.state = "Unhealthy"].crashes = Counted.crashes
        /\ [Counted EXCEPT !.restart_after = NextDelay(r)].crashes = Counted.crashes
    BY <1>1, FieldCrashes
  <2>2. r'.crashes = Counted.crashes
    BY <2>1, <2>3
  <2>4. attempts' = attempts
    BY <1>4 DEF TickFirstFailure, TickBelowStreak, TickSchedule, TickHold
  <2> QED
    BY <1>1, <2>2, <2>4
<1> QED
  BY <1>2, <1>3, <1>4

(* Neither does any operation or the outside world; time ages both logs.    *)
LEMMA OtherLogs ==
  ASSUME DecisionOK,
         \/ Elapse \/ Prewarm \/ BootUp \/ Up \/ Down \/ RestartOne \/ Drain \/ CancelDrain
         \/ Rollout \/ DaemonRestart \/ ProcUp \/ ProcCrash \/ ProcExit \/ Script
  PROVE  Kept \/ Forgotten \/ GrownOld
<1> USE DEF Kept, Forgotten, GrownOld
<1>1. r \in Runner /\ Aged(r) \in Runner /\ RestartReset(r) \in Runner
  BY AgedType, StopAndStartTypes DEF DecisionOK
<1>2. CASE Elapse \/ Prewarm
  <2>1. r' \in {Aged(r), [Aged(r) EXCEPT !.state = "Stopped"], [Aged(r) EXCEPT !.state = "Healthy"]}
    BY <1>2 DEF Elapse, Prewarm
  <2>2. Aged(r).crashes = AgedLog(r.crashes)
    BY <1>1, CrashFields
  <2>3. /\ [Aged(r) EXCEPT !.state = "Stopped"].crashes = Aged(r).crashes
        /\ [Aged(r) EXCEPT !.state = "Healthy"].crashes = Aged(r).crashes
    BY <1>1, FieldCrashes
  <2>4. r'.crashes = AgedLog(r.crashes)
    BY <2>1, <2>2, <2>3
  <2>9. attempts' = InWindow(AgedLog(attempts))
    BY <1>2 DEF Elapse, Prewarm
  <2> QED
    BY <2>4, <2>9
<1>3. CASE BootUp \/ Up \/ Down
  <2>1. \/ r' \in {mark_stopped(r), mark_start_failed(r)}
        \/ r' \in {[r EXCEPT !.state = "Healthy"], [r EXCEPT !.state = "Failed"],
                   [r EXCEPT !.state = "Starting"]}
    BY <1>3 DEF BootUp, Up, Down, UpService, UpGateClosed, UpSkipped, UpEnvFailed, UpStarted
  <2>2. mark_stopped(r).crashes = r.crashes /\ mark_start_failed(r).crashes = r.crashes
    BY <1>1, CrashFields
  <2>3. /\ [r EXCEPT !.state = "Healthy"].crashes = r.crashes
        /\ [r EXCEPT !.state = "Failed"].crashes = r.crashes
        /\ [r EXCEPT !.state = "Starting"].crashes = r.crashes
    BY <1>1, FieldCrashes
  <2>4. r'.crashes = r.crashes
    BY <2>1, <2>2, <2>3
  <2>9. attempts' = attempts
    BY <1>3 DEF BootUp, Up, Down, UpService
  <2> QED
    BY <2>4, <2>9
<1>4. CASE RestartOne
  <2>1. \/ r' = RestartReset(r)
        \/ \E s \in starts :
             r' = [RestartReset(r) EXCEPT !.state = IF s = "ok" THEN "Starting" ELSE @]
    BY <1>4 DEF RestartOne
  <2>2. RestartReset(r).crashes = <<>>
    BY <1>1, CrashFields
  <2>3. \A t : [RestartReset(r) EXCEPT !.state = t].crashes = RestartReset(r).crashes
    BY <1>1, FieldCrashes
  <2>4. r'.crashes = <<>>
    BY <2>1, <2>2, <2>3
  <2>9. attempts' = <<>>
    BY <1>4 DEF RestartOne
  <2> QED
    BY <2>4, <2>9
<1>5. CASE Drain \/ CancelDrain
  <2>1. \/ r' = [r EXCEPT !.state = "Draining", !.drain_grace_until = DrainGrace]
        \/ r' = [r EXCEPT !.state = "Healthy", !.drain_grace_until = None]
    BY <1>5 DEF Drain, CancelDrain
  <2>2. /\ [r EXCEPT !.state = "Draining", !.drain_grace_until = DrainGrace].crashes = r.crashes
        /\ [r EXCEPT !.state = "Healthy", !.drain_grace_until = None].crashes = r.crashes
    BY <1>1, FieldCrashes
  <2>3. r'.crashes = r.crashes
    BY <2>1, <2>2
  <2>9. attempts' = attempts
    BY <1>5 DEF Drain, CancelDrain, history
  <2> QED
    BY <2>3, <2>9
<1>6. CASE Rollout
  <2> DEFINE stopped == [r EXCEPT !.state = "Stopped", !.drain_grace_until = None]
  <2>1. stopped.crashes = r.crashes /\ stopped \in Runner
    BY <1>1, FieldCrashes, FieldTypes, States, Resets
  <2>2. r' \in {stopped, [stopped EXCEPT !.state = "Starting"]}
    BY <1>6 DEF Rollout
  <2> HIDE DEF stopped
  <2>3. [stopped EXCEPT !.state = "Starting"].crashes = stopped.crashes
    BY <2>1, FieldCrashes
  <2>4. r'.crashes = r.crashes
    BY <2>1, <2>2, <2>3
  <2>9. attempts' = attempts
    BY <1>6 DEF Rollout
  <2> QED
    BY <2>4, <2>9
<1>7. CASE DaemonRestart
  <2>1. NewRunner \in Runner /\ NewRunner.crashes = <<>>
    BY NewRunnerType DEF NewRunner
  <2>2. [NewRunner EXCEPT !.state = "Healthy"].crashes = <<>>
    BY <2>1, FieldCrashes
  <2>3. r' \in {NewRunner, [NewRunner EXCEPT !.state = "Healthy"]}
    BY <1>7 DEF DaemonRestart, Reconciled
  <2>4. r'.crashes = <<>>
    BY <2>1, <2>2, <2>3
  <2>9. attempts' = <<>>
    BY <1>7 DEF DaemonRestart
  <2> QED
    BY <2>4, <2>9
<1>8. CASE ProcUp \/ ProcCrash \/ ProcExit \/ Script
  <2>1. r' = r
    BY <1>8 DEF ProcUp, ProcCrash, ProcExit, Script
  <2>9. attempts' = attempts
    BY <1>8 DEF ProcUp, ProcCrash, ProcExit, Script, history
  <2> QED
    BY <2>1, <2>9
<1> QED
  BY <1>2, <1>3, <1>4, <1>5, <1>6, <1>7, <1>8

(* A restart or a give-up that is due leaves the log that Charged leaves;   *)
(* only a restart charged as a crash is remembered as one.                  *)
LEMMA DueLogs ==
  ASSUME DecisionOK, NEW o, TickGiveUp(o) \/ \E s \in starts : TickRestart(o, s)
  PROVE  /\ Due(o)
         /\ r'.crashes = Charged(Counted).crashes
         /\ \/ attempts' = attempts
            \/ IsCrash(r) /\ ~CapHit(r) /\ attempts' = Append(attempts, 0)
<1>1. Counted \in Runner /\ Charged(Counted) \in Runner
  BY CountedType, ChargedType DEF DecisionOK
<1>2. CASE TickGiveUp(o)
  <2>1. /\ r' = [Charged(Counted) EXCEPT !.restart_after = None, !.state = "Failed"]
        /\ Due(o) /\ attempts' = attempts
    BY <1>2 DEF TickGiveUp
  <2>2. [Charged(Counted) EXCEPT !.restart_after = None, !.state = "Failed"].crashes
          = Charged(Counted).crashes
    BY <1>1, FieldCrashes
  <2> QED
    BY <2>1, <2>2
<1>3. CASE \E s \in starts : TickRestart(o, s)
  <2>1. PICK s \in starts : TickRestart(o, s)
    BY <1>3
  <2> DEFINE q == Attempting(Counted)
  <2>2. q \in Runner
    BY <1>1, AttemptingType
  <2>3. q.crashes = Charged(Counted).crashes
    BY <1>1 DEF Attempting, Runner
  <2>4. r' \in {q, Started(q), ConfigFatal(q)} /\ Due(o)
    BY <2>1 DEF TickRestart
  <2>5. \/ attempts' = attempts
        \/ IsCrash(r) /\ ~CapHit(r) /\ attempts' = Append(attempts, 0)
    BY <2>1 DEF TickRestart
  <2> HIDE DEF q
  <2>6. Started(q).crashes = q.crashes /\ ConfigFatal(q).crashes = q.crashes
    BY <2>2, CrashFields
  <2> QED
    BY <2>3, <2>4, <2>5, <2>6
<1> QED
  BY <1>2, <1>3

(* The tick that charges a crash restarts, or gives up, what is due.        *)
LEMMA TickCharges ==
  ASSUME DecisionOK, StreakBacked, RestartEvidence, Tick, CrashCharged
  PROVE  /\ r.state \in {"Unhealthy", "Restarting"}
         /\ refused' = RESTART_FAIL_STREAK \/ start_failed
         /\ ~script /\ ~r.start_retry /\ r.config_fail_streak = 0
<1>1. PICK o \in ProbeOf(proc) :
        \/ TickDraining(o) \/ TickHealthy(o) \/ TickSuspect(o) \/ TickParked(o)
        \/ TickFirstFailure(o) \/ TickBelowStreak(o) \/ TickSchedule(o) \/ TickHold(o)
        \/ TickGiveUp(o) \/ \E s \in starts : TickRestart(o, s)
  BY DEF Tick
<1>2. ~(Kept \/ Forgotten)
  BY Uncharged DEF DecisionOK, Kept, Forgotten
<1>3. TickGiveUp(o) \/ \E s \in starts : TickRestart(o, s)
  BY <1>1, <1>2, QuietTickLogs
<1> QED
  BY <1>3, DueLogs, DueCharges

(* Only a real outage charges a crash: never a start that somebody waits    *)
(* for, a config-fatal retry, or a service in the hands of its script, for  *)
(* every window, threshold and cap (handle_unhealthy, RestartPolicy).       *)
THEOREM CrashesCharged == Spec => OnlyCrashesCharged
<1> DEFINE RealOutage == /\ r.state \in {"Unhealthy", "Restarting"}
                         /\ refused' = RESTART_FAIL_STREAK \/ start_failed
                         /\ ~script
                         /\ ~r.start_retry
                         /\ r.config_fail_streak = 0
<1>1. IInv /\ [Next]_vars => [CrashCharged => RealOutage]_vars
  <2> SUFFICES ASSUME IInv, Next, CrashCharged PROVE RealOutage
    OBVIOUS
  <2>1. DecisionOK /\ StreakBacked /\ RestartEvidence
    BY TypeParts DEF IInv
  <2>2. CASE Tick
    BY <2>1, <2>2, TickCharges
  <2>3. ~(Kept \/ Forgotten \/ GrownOld)
    BY <2>1, Uncharged DEF DecisionOK, Kept, Forgotten, GrownOld
  <2> QED
    BY <2>1, <2>2, <2>3, OtherLogs DEF Next
<1> QED
  BY <1>1, Invariant, PTL DEF Spec, OnlyCrashesCharged
-----------------------------------------------------------------------------
(* The budget of an outage: the automatic restarts that are still in the    *)
(* window are among the crashes the policy counts.                          *)

(* The stale crashes are the first ones, as many as there are: popping them *)
(* one by one is dropping a prefix.                                         *)
LEMMA PoppedIsPrefix ==
  ASSUME NEW c \in Seq(Int), NEW i \in 1 .. Len(c)
  PROVE  i \in Popped(c) <=> i <= Cardinality(Popped(c))
<1> DEFINE P == Popped(c)
           k == Cardinality(P)
<1>1. IsFiniteSet(P) /\ k \in Nat /\ Len(c) \in Nat
  BY PoppedBounds, LenProperties
<1>2. \A a \in P, b \in 1 .. Len(c) : b <= a => b \in P
  BY <1>1 DEF Popped
<1>3. P \subseteq 1 .. Len(c)
  BY DEF Popped
<1>4. \A n \in Nat : IsFiniteSet(1 .. n) /\ Cardinality(1 .. n) = n
  BY FS_Interval
<1> HIDE DEF P
<1>5. ASSUME i \in P PROVE i <= k
  <2>1. 1 .. i \in SUBSET P
    BY <1>1, <1>2, <1>5
  <2>2. Cardinality(1 .. i) <= k
    BY <1>1, <2>1, FS_Subset
  <2> QED
    BY <1>4, <2>2
<1>6. ASSUME i \notin P PROVE k < i
  <2>1. P \in SUBSET (1 .. i - 1)
    BY <1>1, <1>2, <1>3, <1>6
  <2>2. IsFiniteSet(1 .. i - 1) /\ Cardinality(1 .. i - 1) = i - 1
    BY <1>4
  <2>3. k <= i - 1
    BY <2>1, <2>2, FS_Subset
  <2> QED
    BY <1>1, <2>3
<1>7. i \in P <=> i <= k
  BY <1>1, <1>5, <1>6
<1> QED
  BY <1>7 DEF P

(* What is left of a log is what stands behind its stale prefix.            *)
LEMMA InWindowIndex ==
  ASSUME NEW c \in CrashLog
  PROVE  LET k == Cardinality(Popped(c))
         IN  /\ InWindow(c) \in CrashLog
             /\ k \in 0 .. Len(c) /\ Len(InWindow(c)) = Len(c) - k
             /\ \A i \in 1 .. Len(c) - k : InWindow(c)[i] = c[i + k]
<1> DEFINE k == Cardinality(Popped(c))
<1>1. c \in Seq(Int) /\ Len(c) \in Nat
  BY SeqMonotonic, LenProperties, PolicyAssumption DEF CrashLog
<1>2. k \in 0 .. Len(c) /\ k \in Int
  BY <1>1, PoppedBounds
<1>3. InWindow(c) \in CrashLog /\ Len(InWindow(c)) = Len(c) - k
  BY InWindowType, PolicyAssumption DEF CrashLog
<1>4. InWindow(c) = SubSeq(c, k + 1, Len(c))
  BY DEF InWindow
<1> HIDE DEF k
<1>5. \A i \in k + 1 .. Len(c) : c[i] \in Int
  BY <1>1, <1>2, ElementOfSeq
<1>6. \A i \in 1 .. Len(c) - (k + 1) + 1 : SubSeq(c, k + 1, Len(c))[i] = c[k + 1 + i - 1]
  BY <1>1, <1>2, <1>5, SubSeqProperties
<1>7. \A i \in 1 .. Len(c) - k : InWindow(c)[i] = c[i + k]
  <2> SUFFICES ASSUME NEW i \in 1 .. Len(c) - k PROVE InWindow(c)[i] = c[i + k]
    OBVIOUS
  <2>1. i \in 1 .. Len(c) - (k + 1) + 1 /\ k + 1 + i - 1 = i + k
    BY <1>1, <1>2
  <2> QED
    BY <1>4, <1>6, <2>1
<1> QED
  BY <1>2, <1>3, <1>7 DEF k

(* The restarts of a log, oldest first and none of them outside the window. *)
OldestFirst(log) == \A i, j \in DOMAIN log : i < j => log[i] >= log[j]
Current(log) == \A i \in DOMAIN log : log[i] <= WindowSec

(* Each of the restarts att is a crash of its own in the log.               *)
Accounted(att, log) ==
  \E f \in [1 .. Len(att) -> 1 .. Len(log)] :
    /\ \A i \in 1 .. Len(att) : log[f[i]] = att[i]
    /\ \A i, j \in 1 .. Len(att) : f[i] = f[j] => i = j

BudgetInv == /\ OldestFirst(attempts) /\ Current(attempts)
             /\ Accounted(attempts, r.crashes)
             /\ OutageBudget

(* Restarts that are each accounted for are no more than the crashes.       *)
LEMMA AccountedBound ==
  ASSUME NEW att \in CrashLog, NEW log \in CrashLog, Accounted(att, log)
  PROVE  Len(att) <= Len(log)
<1>1. Len(att) \in Nat /\ Len(log) \in Nat
  BY LenProperties DEF CrashLog
<1>2. PICK f \in [1 .. Len(att) -> 1 .. Len(log)] :
        \A i, j \in 1 .. Len(att) : f[i] = f[j] => i = j
  BY DEF Accounted
<1>3. /\ IsFiniteSet(1 .. Len(att)) /\ Cardinality(1 .. Len(att)) = Len(att)
      /\ IsFiniteSet(1 .. Len(log)) /\ Cardinality(1 .. Len(log)) = Len(log)
  <2>1. \A n \in Nat : IsFiniteSet(1 .. n) /\ Cardinality(1 .. n) = n
    BY FS_Interval
  <2> QED
    BY <1>1, <2>1
<1>4. ~(Len(log) < Len(att))
  BY <1>2, <1>3, FS_PigeonHole
<1> QED
  BY <1>1, <1>4

(* A second later every entry of a log is the old one, bumped.              *)
LEMMA AgedEntries ==
  ASSUME NEW log \in CrashLog
  PROVE  /\ AgedLog(log) \in CrashLog /\ Len(AgedLog(log)) = Len(log)
         /\ \A i \in 1 .. Len(log) : AgedLog(log)[i] = Bump(log[i], WindowSec + 1)
<1>1. DOMAIN log = 1 .. Len(log)
  BY LenProperties DEF CrashLog
<1> QED
  BY <1>1, AgedLogType DEF AgedLog

(* Ageing keeps the order, and what the window then drops is what became    *)
(* too old: the restarts that remain are all current.                       *)
LEMMA AgedRestarts ==
  ASSUME NEW att \in CrashLog, OldestFirst(att)
  PROVE  LET left == InWindow(AgedLog(att))
         IN  left \in CrashLog /\ OldestFirst(left) /\ Current(left)
<1> DEFINE old == AgedLog(att)
           k == Cardinality(Popped(old))
           left == InWindow(old)
           n == Len(att)
<1>1. old \in CrashLog /\ Len(old) = n /\ n \in Nat
  BY AgedEntries, LenProperties DEF CrashLog
<1>2. \A i \in 1 .. n : att[i] \in 0 .. WindowSec + 1
  BY ElementOfSeq DEF CrashLog
<1>3. \A i \in 1 .. n : old[i] = Bump(att[i], WindowSec + 1)
  BY AgedEntries
<1>4. \A i, j \in 1 .. n : i < j => att[i] >= att[j]
  BY LenProperties DEF OldestFirst, CrashLog
<1>5. /\ left \in CrashLog /\ k \in 0 .. n /\ Len(left) = n - k
      /\ \A i \in 1 .. n - k : left[i] = old[i + k]
  BY <1>1, InWindowIndex
<1>6. \A i \in 1 .. n : i \in Popped(old) <=> i <= k
  <2>1. old \in Seq(Int)
    BY <1>1, SeqMonotonic, PolicyAssumption DEF CrashLog
  <2> QED
    BY <1>1, <2>1, PoppedIsPrefix
<1>7. \A i \in 1 .. n : i \in Popped(old) <=> \A j \in 1 .. i : old[j] > WindowSec
  BY <1>1 DEF Popped
<1> HIDE DEF old, left, k, n
<1>8. DOMAIN left = 1 .. n - k
  <2>1. DOMAIN left = 1 .. Len(left)
    BY <1>5, LenProperties DEF CrashLog
  <2> QED
    BY <1>5, <2>1
<1>9. ASSUME NEW i \in 1 .. n, NEW j \in 1 .. n, i < j
      PROVE  old[i] >= old[j]
  <2>1. att[i] >= att[j] /\ att[i] \in 0 .. WindowSec + 1 /\ att[j] \in 0 .. WindowSec + 1
    BY <1>2, <1>4, <1>9
  <2>2. old[i] = Bump(att[i], WindowSec + 1) /\ old[j] = Bump(att[j], WindowSec + 1)
    BY <1>3
  <2> QED
    BY <2>1, <2>2, PolicyAssumption DEF Bump
<1>10. \A i \in 1 .. n : old[i] \in 0 .. WindowSec + 1
  BY <1>2, <1>3, PolicyAssumption DEF Bump
<1>11. OldestFirst(left)
  <2> SUFFICES ASSUME NEW i \in 1 .. n - k, NEW j \in 1 .. n - k, i < j
               PROVE  left[i] >= left[j]
    BY <1>8 DEF OldestFirst
  <2>1. i + k \in 1 .. n /\ j + k \in 1 .. n /\ i + k < j + k
    BY <1>1, <1>5
  <2>2. left[i] = old[i + k] /\ left[j] = old[j + k]
    BY <1>5
  <2> QED
    BY <1>9, <2>1, <2>2
<1>12. Current(left)
  <2> SUFFICES ASSUME NEW i \in 1 .. n - k PROVE left[i] <= WindowSec
    BY <1>8 DEF Current
  <2>1. i + k \in 1 .. n /\ ~(i + k <= k) /\ left[i] = old[i + k]
    BY <1>1, <1>5
  <2>2. PICK j \in 1 .. i + k : ~(old[j] > WindowSec)
    BY <1>6, <1>7, <2>1
  <2>3. j \in 1 .. n /\ (j = i + k \/ j < i + k)
    BY <1>1, <2>1, <2>2
  <2>4. old[j] >= old[i + k] /\ old[j] \in Int /\ old[i + k] \in Int
    BY <1>9, <1>10, <2>1, <2>3
  <2> QED
    BY <2>1, <2>2, <2>4, PolicyAssumption
<1> QED
  BY <1>5, <1>11, <1>12 DEF left, old

(* So does the account of the restarts: the ones that are left are those    *)
(* behind the stale prefix, and their crashes age with them.                *)
LEMMA AgedAccount ==
  ASSUME NEW att \in CrashLog, NEW log \in CrashLog, Accounted(att, log)
  PROVE  /\ Accounted(InWindow(AgedLog(att)), AgedLog(log))
         /\ Len(InWindow(AgedLog(att))) <= Len(att)
<1> DEFINE old == AgedLog(att)
           k == Cardinality(Popped(old))
           left == InWindow(old)
           aged == AgedLog(log)
           n == Len(att)
<1>1. /\ old \in CrashLog /\ Len(old) = n /\ n \in Nat
      /\ Len(aged) = Len(log) /\ Len(log) \in Nat
  BY AgedEntries, LenProperties DEF CrashLog
<1>2. /\ \A i \in 1 .. n : old[i] = Bump(att[i], WindowSec + 1)
      /\ \A i \in 1 .. Len(log) : aged[i] = Bump(log[i], WindowSec + 1)
  BY AgedEntries
<1>3. /\ k \in 0 .. n /\ Len(left) = n - k
      /\ \A i \in 1 .. n - k : left[i] = old[i + k]
  BY <1>1, InWindowIndex
<1>4. PICK f \in [1 .. n -> 1 .. Len(log)] :
        /\ \A i \in 1 .. n : log[f[i]] = att[i]
        /\ \A i, j \in 1 .. n : f[i] = f[j] => i = j
  BY DEF Accounted
<1> HIDE DEF old, k, left, aged, n
<1> DEFINE g == [i \in 1 .. n - k |-> f[i + k]]
<1>5. \A i \in 1 .. n - k : i + k \in 1 .. n /\ g[i] = f[i + k]
  BY <1>1, <1>3
<1>6. g \in [1 .. n - k -> 1 .. Len(log)]
  BY <1>4, <1>5
<1> HIDE DEF g
<1>7. \A i \in 1 .. n - k : aged[g[i]] = left[i]
  BY <1>2, <1>3, <1>4, <1>5
<1>8. ASSUME NEW i \in 1 .. n - k, NEW j \in 1 .. n - k, g[i] = g[j]
      PROVE  i = j
  <2>1. i + k = j + k
    BY <1>4, <1>5, <1>8
  <2> QED
    BY <1>3, <2>1
<1>9. Accounted(left, aged)
  <2>1. Len(left) = n - k /\ Len(aged) = Len(log)
    BY <1>1, <1>3
  <2> QED
    BY <1>6, <1>7, <1>8, <2>1 DEF Accounted
<1>10. Len(left) <= n
  BY <1>1, <1>3
<1> QED
  BY <1>9, <1>10 DEF left, old, aged, n

(* Recording a crash drops none of the current restarts, and the crash that *)
(* it adds accounts for one more.                                           *)
LEMMA RecordedAccount ==
  ASSUME NEW att \in CrashLog, NEW log \in CrashLog, Current(att), Accounted(att, log)
  PROVE  /\ Accounted(att, record_crash(log))
         /\ Accounted(Append(att, 0), record_crash(log))
<1> DEFINE k == Cardinality(Popped(log))
           left == InWindow(log)
           new == record_crash(log)
           m == Len(log) - k
           n == Len(att)
<1>1. n \in Nat /\ Len(log) \in Nat /\ DOMAIN att = 1 .. n
  BY LenProperties DEF CrashLog
<1>2. /\ left \in CrashLog /\ k \in 0 .. Len(log) /\ Len(left) = m
      /\ \A i \in 1 .. m : left[i] = log[i + k]
  BY InWindowIndex
<1>3. \A i \in 1 .. Len(log) : i <= k => log[i] > WindowSec
  <2>1. log \in Seq(Int)
    BY SeqMonotonic, PolicyAssumption DEF CrashLog
  <2>2. \A i \in 1 .. Len(log) : i <= k => i \in Popped(log)
    BY <2>1, PoppedIsPrefix
  <2> QED
    BY <1>1, <2>2 DEF Popped
<1>4. PICK f \in [1 .. n -> 1 .. Len(log)] :
        /\ \A i \in 1 .. n : log[f[i]] = att[i]
        /\ \A i, j \in 1 .. n : f[i] = f[j] => i = j
  BY DEF Accounted
<1>5. ASSUME NEW i \in 1 .. n
      PROVE  att[i] <= WindowSec /\ att[i] \in Int
  <2>1. i \in DOMAIN att /\ att[i] \in 0 .. WindowSec + 1
    BY <1>1, ElementOfSeq DEF CrashLog
  <2>2. att[i] <= WindowSec
    BY <2>1 DEF Current
  <2> QED
    BY <2>1, <2>2, PolicyAssumption
<1>6. /\ Len(new) = m + 1 /\ new[m + 1] = 0
      /\ \A i \in 1 .. m : new[i] = left[i]
  <2>1. 0 \in 0 .. WindowSec + 1
    BY PolicyAssumption
  <2>2. new = Append(left, 0)
    BY DEF record_crash
  <2> HIDE DEF new, left, m
  <2> QED
    BY <1>2, <2>1, <2>2, AppendProperties DEF CrashLog
<1>7. /\ Len(Append(att, 0)) = n + 1 /\ Append(att, 0)[n + 1] = 0
      /\ \A i \in 1 .. n : Append(att, 0)[i] = att[i]
  <2>1. 0 \in 0 .. WindowSec + 1
    BY PolicyAssumption
  <2> QED
    BY <2>1, AppendProperties DEF CrashLog
<1>8. m \in Nat /\ m + k = Len(log)
  BY <1>1, <1>2
<1> HIDE DEF k, left, new, m, n
<1>9. \A i \in 1 .. n : f[i] \in 1 .. Len(log) /\ f[i] - k \in 1 .. m
  <2> SUFFICES ASSUME NEW i \in 1 .. n
               PROVE  f[i] \in 1 .. Len(log) /\ f[i] - k \in 1 .. m
    OBVIOUS
  <2>1. f[i] \in 1 .. Len(log) /\ log[f[i]] = att[i]
    BY <1>4
  <2>2. ~(f[i] <= k)
    BY <1>3, <1>5, <2>1, PolicyAssumption
  <2> QED
    BY <1>1, <1>2, <1>8, <2>1, <2>2
<1>10. \A i \in 1 .. n : new[f[i] - k] = att[i]
  <2> SUFFICES ASSUME NEW i \in 1 .. n PROVE new[f[i] - k] = att[i]
    OBVIOUS
  <2>1. f[i] - k \in 1 .. m /\ (f[i] - k) + k = f[i]
    BY <1>2, <1>9
  <2>2. new[f[i] - k] = log[f[i]]
    BY <1>2, <1>6, <2>1
  <2> QED
    BY <1>4, <2>2
<1>11. Accounted(att, new)
  <2> DEFINE g == [i \in 1 .. n |-> f[i] - k]
  <2>1. g \in [1 .. n -> 1 .. Len(new)]
    BY <1>6, <1>8, <1>9
  <2>2. \A i \in 1 .. n : new[g[i]] = att[i]
    BY <1>10
  <2>3. \A i, j \in 1 .. n : g[i] = g[j] => i = j
    BY <1>2, <1>4, <1>9
  <2> HIDE DEF g
  <2> QED
    BY <2>1, <2>2, <2>3 DEF Accounted, n
<1>12. Accounted(Append(att, 0), new)
  <2> DEFINE g == [i \in 1 .. n + 1 |-> IF i = n + 1 THEN m + 1 ELSE f[i] - k]
  <2>1. g[n + 1] = m + 1 /\ \A i \in 1 .. n : g[i] = f[i] - k
    BY <1>1
  <2>2. \A i \in 1 .. n + 1 : i = n + 1 \/ i \in 1 .. n
    BY <1>1
  <2>3. DOMAIN g = 1 .. n + 1 /\ g = [i \in 1 .. n + 1 |-> g[i]]
    OBVIOUS
  <2> HIDE DEF g
  <2>4. \A i \in 1 .. n + 1 : g[i] \in 1 .. Len(new)
    BY <1>6, <1>8, <1>9, <2>1, <2>2
  <2>5. g \in [1 .. n + 1 -> 1 .. Len(new)]
    BY <2>3, <2>4
  <2>6. \A i \in 1 .. n + 1 : new[g[i]] = Append(att, 0)[i]
    BY <1>6, <1>7, <1>10, <2>1, <2>2
  <2>7. ASSUME NEW i \in 1 .. n + 1, NEW j \in 1 .. n + 1, g[i] = g[j]
        PROVE  i = j
    <3>1. CASE i = n + 1 \/ j = n + 1
      BY <1>8, <1>9, <2>1, <2>2, <2>7, <3>1
    <3>2. CASE i \in 1 .. n /\ j \in 1 .. n
      <4>1. f[i] - k = f[j] - k /\ f[i] \in Int /\ f[j] \in Int
        BY <1>9, <2>1, <2>7, <3>2
      <4>2. f[i] = f[j]
        BY <1>2, <4>1
      <4> QED
        BY <1>4, <3>2, <4>2
    <3> QED
      BY <2>2, <3>1, <3>2
  <2>8. Len(Append(att, 0)) = n + 1
    BY <1>7
  <2> QED
    BY <2>5, <2>6, <2>7, <2>8 DEF Accounted
<1> QED
  BY <1>11, <1>12 DEF new

(* Forgetting the restarts leaves nothing to account for.                   *)
LEMMA ForgottenBudget ==
  ASSUME MaxCrashes \in Nat, attempts' = <<>>, r'.crashes \in CrashLog
  PROVE  BudgetInv'
<1>1. DOMAIN attempts' = {} /\ Len(attempts') = 0 /\ 1 .. 0 = {}
  OBVIOUS
<1>2. OldestFirst(attempts)' /\ Current(attempts)'
  BY <1>1 DEF OldestFirst, Current
<1>3. Accounted(attempts, r.crashes)'
  <2> DEFINE f == [i \in 1 .. Len(attempts') |-> 1]
  <2>1. f \in [1 .. Len(attempts') -> 1 .. Len(r'.crashes)]
    BY <1>1
  <2> HIDE DEF f
  <2> QED
    BY <1>1, <2>1 DEF Accounted
<1>4. OutageBudget'
  BY <1>1 DEF OutageBudget
<1> QED
  BY <1>2, <1>3, <1>4 DEF BudgetInv

(* Nothing but a restart charged as a crash adds to the budget, and that    *)
(* one is let through only while the crashes themselves are below the cap.  *)
LEMMA BudgetKept ==
  ASSUME DecisionOK, DecisionOK', BudgetInv, Kept \/ Forgotten \/ GrownOld
  PROVE  BudgetInv'
<1>1. /\ attempts \in CrashLog /\ r.crashes \in CrashLog /\ r'.crashes \in CrashLog
      /\ attempts' \in CrashLog
  BY DEF DecisionOK, Runner
<1>2. CASE Kept
  BY <1>2 DEF Kept, BudgetInv, OldestFirst, Current, Accounted, OutageBudget
<1>3. CASE Forgotten
  BY <1>1, <1>3, ForgottenBudget, PolicyAssumption DEF Forgotten
<1>4. CASE GrownOld
  <2>1. attempts' = InWindow(AgedLog(attempts)) /\ r'.crashes = AgedLog(r.crashes)
    BY <1>4 DEF GrownOld
  <2>2. OldestFirst(attempts) /\ Accounted(attempts, r.crashes) /\ Len(attempts) <= MaxCrashes
    BY DEF BudgetInv, OutageBudget
  <2>3. OldestFirst(attempts') /\ Current(attempts')
    BY <1>1, <2>1, <2>2, AgedRestarts
  <2>4. Accounted(attempts', r'.crashes) /\ Len(attempts') <= Len(attempts)
    BY <1>1, <2>1, <2>2, AgedAccount
  <2>5. Len(attempts') <= MaxCrashes
    BY <1>1, <2>2, <2>4, LenProperties, PolicyAssumption DEF CrashLog
  <2> QED
    BY <2>3, <2>4, <2>5 DEF BudgetInv, OutageBudget, OldestFirst, Current, Accounted
<1> QED
  BY <1>2, <1>3, <1>4

(* A restart of this very moment comes last, and is current.                *)
LEMMA AppendedRestart ==
  ASSUME NEW att \in CrashLog, OldestFirst(att), Current(att)
  PROVE  OldestFirst(Append(att, 0)) /\ Current(Append(att, 0))
<1> DEFINE n == Len(att)
           new == Append(att, 0)
<1>1. n \in Nat /\ DOMAIN att = 1 .. n
  BY LenProperties DEF CrashLog
<1>2. 0 \in 0 .. WindowSec + 1
  BY PolicyAssumption
<1>3. /\ new \in CrashLog /\ Len(new) = n + 1 /\ new[n + 1] = 0
      /\ \A i \in 1 .. n : new[i] = att[i]
  BY <1>2, AppendProperties DEF CrashLog
<1>4. \A i \in 1 .. n : att[i] \in 0 .. WindowSec + 1
  BY <1>1, ElementOfSeq DEF CrashLog
<1> HIDE DEF n, new
<1>5. DOMAIN new = 1 .. n + 1
  <2>1. DOMAIN new = 1 .. Len(new)
    BY <1>3, LenProperties DEF CrashLog
  <2> QED
    BY <1>3, <2>1
<1>6. \A i \in 1 .. n + 1 : i \in 1 .. n \/ i = n + 1
  BY <1>1
<1>7. OldestFirst(new)
  <2> SUFFICES ASSUME NEW i \in 1 .. n + 1, NEW j \in 1 .. n + 1, i < j
               PROVE  new[i] >= new[j]
    BY <1>5 DEF OldestFirst
  <2>1. i \in 1 .. n
    BY <1>1
  <2>2. CASE j \in 1 .. n
    <3>1. att[i] >= att[j]
      BY <1>1, <2>1, <2>2 DEF OldestFirst
    <3> QED
      BY <1>3, <2>1, <2>2, <3>1
  <2>3. CASE j = n + 1
    <3>1. att[i] >= 0
      BY <1>4, <2>1, PolicyAssumption
    <3> QED
      BY <1>3, <2>1, <2>3, <3>1
  <2> QED
    BY <1>6, <2>2, <2>3
<1>8. Current(new)
  <2> SUFFICES ASSUME NEW i \in 1 .. n + 1 PROVE new[i] <= WindowSec
    BY <1>5 DEF Current
  <2>1. CASE i \in 1 .. n
    <3>1. att[i] <= WindowSec
      BY <1>1, <2>1 DEF Current
    <3> QED
      BY <1>3, <2>1, <3>1
  <2>2. CASE i = n + 1
    BY <1>3, <2>2, PolicyAssumption
  <2> QED
    BY <1>6, <2>1, <2>2
<1> QED
  BY <1>7, <1>8 DEF new

(* A restart that is due is charged before it is remembered.                *)
LEMMA DueBudget ==
  ASSUME DecisionOK, DecisionOK', BudgetInv, NEW o,
         TickGiveUp(o) \/ \E s \in starts : TickRestart(o, s)
  PROVE  BudgetInv'
<1>1. /\ attempts \in CrashLog /\ r.crashes \in CrashLog /\ r'.crashes \in CrashLog
      /\ attempts' \in CrashLog /\ r \in Runner
  BY DEF DecisionOK, Runner
<1>2. /\ OldestFirst(attempts) /\ Current(attempts) /\ Accounted(attempts, r.crashes)
      /\ Len(attempts) <= MaxCrashes
  BY DEF BudgetInv, OutageBudget
<1>3. /\ r'.crashes = Charged(Counted).crashes
      /\ \/ attempts' = attempts
         \/ IsCrash(r) /\ ~CapHit(r) /\ attempts' = Append(attempts, 0)
  BY DueLogs
<1>4. /\ Charged(Counted).crashes \in {r.crashes, record_crash(r.crashes)}
      /\ IsCrash(r) => Charged(Counted).crashes = record_crash(r.crashes)
                       /\ Charged(r).crashes = record_crash(r.crashes)
  <2>1. /\ Counted \in Runner /\ Counted.crashes = r.crashes
        /\ Counted.start_retry = r.start_retry
        /\ Counted.config_fail_streak = r.config_fail_streak
    BY <1>1, CountedType
  <2>2. ASSUME NEW q \in Runner
        PROVE  /\ Charged(q).crashes \in {q.crashes, record_crash(q.crashes)}
               /\ IsCrash(q) => Charged(q).crashes = record_crash(q.crashes)
    BY DEF Charged, IsCrash, Runner
  <2>3. IsCrash(r) => IsCrash(Counted)
    BY <2>1 DEF IsCrash
  <2> QED
    BY <1>1, <2>1, <2>2, <2>3
<1>5. /\ Accounted(attempts, record_crash(r.crashes))
      /\ Accounted(Append(attempts, 0), record_crash(r.crashes))
  BY <1>1, <1>2, RecordedAccount
<1>6. CASE attempts' = attempts
  <2>1. Accounted(attempts, r'.crashes)
    BY <1>2, <1>3, <1>4, <1>5
  <2> QED
    BY <1>2, <1>6, <2>1 DEF BudgetInv, OutageBudget, OldestFirst, Current, Accounted
<1>7. CASE IsCrash(r) /\ ~CapHit(r) /\ attempts' = Append(attempts, 0)
  <2>1. Accounted(attempts', r'.crashes)
    BY <1>3, <1>4, <1>5, <1>7
  <2>2. ~(Len(r'.crashes) > MaxCrashes)
    BY <1>3, <1>4, <1>7 DEF CapHit, IsCrash, is_capped
  <2>3. Len(attempts') <= Len(r'.crashes)
    BY <1>1, <2>1, AccountedBound
  <2>4. Len(attempts') <= MaxCrashes
    BY <1>1, <2>2, <2>3, LenProperties, PolicyAssumption DEF CrashLog
  <2>5. OldestFirst(attempts') /\ Current(attempts')
    BY <1>1, <1>2, <1>7, AppendedRestart
  <2> QED
    BY <2>1, <2>4, <2>5 DEF BudgetInv, OutageBudget, OldestFirst, Current, Accounted
<1> QED
  BY <1>3, <1>6, <1>7

(* Between two recoveries no more automatic restarts charged as crashes     *)
(* fall into one window than the cap allows, though give-ups charge crashes *)
(* no restart followed, stale crashes are popped only when the next one     *)
(* comes, and the operator starts the service again after a give-up         *)
(* (RestartPolicy, handle_unhealthy).                                       *)
THEOREM BudgetHolds == Spec => []OutageBudget
<1>1. Init => BudgetInv
  <2> SUFFICES ASSUME Init PROVE BudgetInv
    OBVIOUS
  <2>1. attempts = <<>> /\ DOMAIN attempts = {} /\ Len(attempts) = 0 /\ 1 .. 0 = {}
    BY DEF Init
  <2>2. OldestFirst(attempts) /\ Current(attempts)
    BY <2>1 DEF OldestFirst, Current
  <2>3. Accounted(attempts, r.crashes)
    <3> DEFINE f == [i \in 1 .. Len(attempts) |-> 1]
    <3>1. f \in [1 .. Len(attempts) -> 1 .. Len(r.crashes)]
      BY <2>1
    <3> HIDE DEF f
    <3> QED
      BY <2>1, <3>1 DEF Accounted
  <2>4. OutageBudget
    BY <2>1, PolicyAssumption DEF OutageBudget
  <2> QED
    BY <2>2, <2>3, <2>4 DEF BudgetInv
<1>2. TypeOK /\ TypeOK' /\ BudgetInv /\ [Next]_vars => BudgetInv'
  <2> SUFFICES ASSUME TypeOK, TypeOK', BudgetInv, [Next]_vars PROVE BudgetInv'
    OBVIOUS
  <2>1. DecisionOK /\ DecisionOK'
    BY TypeParts
  <2>2. CASE Tick
    <3>1. PICK o \in ProbeOf(proc) :
            \/ TickDraining(o) \/ TickHealthy(o) \/ TickSuspect(o) \/ TickParked(o)
            \/ TickFirstFailure(o) \/ TickBelowStreak(o) \/ TickSchedule(o) \/ TickHold(o)
            \/ TickGiveUp(o) \/ \E s \in starts : TickRestart(o, s)
      BY <2>2 DEF Tick
    <3>2. CASE TickGiveUp(o) \/ \E s \in starts : TickRestart(o, s)
      BY <2>1, <3>2, DueBudget
    <3>3. CASE ~(TickGiveUp(o) \/ \E s \in starts : TickRestart(o, s))
      <4>1. Kept \/ Forgotten
        BY <2>1, <3>1, <3>3, QuietTickLogs
      <4> QED
        BY <2>1, <4>1, BudgetKept
    <3> QED
      BY <3>2, <3>3
  <2>3. CASE Next /\ ~Tick
    <3>1. Kept \/ Forgotten \/ GrownOld
      BY <2>1, <2>3, OtherLogs DEF Next
    <3> QED
      BY <2>1, <3>1, BudgetKept
  <2>4. CASE UNCHANGED vars
    <3>1. Kept
      BY <2>4 DEF vars, history, Kept
    <3> QED
      BY <2>1, <3>1, BudgetKept
  <2> QED
    BY <2>2, <2>3, <2>4
<1>3. BudgetInv => OutageBudget
  BY DEF BudgetInv
<1>4. Spec => []TypeOK
  BY Invariant, PTL DEF IInv
<1> QED
  BY <1>1, <1>2, <1>3, <1>4, PTL DEF Spec
-----------------------------------------------------------------------------
(* Deadlines come closer.  That a drain ends and that an outage is resolved *)
(* is liveness; these are the facts about single steps it rests on.        *)

(* While a service drains its grace period is set, is never renewed, gets  *)
(* shorter with every second, and no round after it leaves the service     *)
(* draining (begin_drain, tick).                                           *)
DrainBounded == r.state = "Draining" => r.drain_grace_until \in 0 .. DrainGrace

DrainStep ==
  r.state = "Draining" /\ r'.state = "Draining" =>
    /\ r'.drain_grace_until <= r.drain_grace_until
    /\ Elapse => r'.drain_grace_until = Sooner(r.drain_grace_until)
    /\ Tick => r.drain_grace_until > 0
DrainNeverPutOff == [][DrainStep]_vars

(* During an outage the daemon never puts off a restart that it has         *)
(* scheduled, whatever its probes say, until the restart is due            *)
(* (handle_unhealthy).                                                     *)
RestartStep ==
  InOutage /\ InOutage' /\ r.restart_after # None /\ by' = "daemon" =>
    \/ /\ r'.restart_after # None /\ r'.restart_after <= r.restart_after
       /\ Elapse => r'.restart_after = Sooner(r.restart_after)
    \/ \E o \in ProbeOf(proc) : Due(o)
RestartNeverPutOff == [][RestartStep]_vars

(* The deadlines that the updates leave.                                   *)
LEMMA Deadlines ==
  ASSUME NEW q \in Runner, NEW s
  PROVE  /\ Aged(q).restart_after = Sooner(q.restart_after)
         /\ Aged(q).drain_grace_until = Sooner(q.drain_grace_until)
         /\ [q EXCEPT !.state = s].restart_after = q.restart_after
         /\ [q EXCEPT !.state = s].drain_grace_until = q.drain_grace_until
BY DEF Runner, Aged

(* A second brings a deadline closer and leaves none unset.                *)
LEMMA SoonerIsCloser ==
  ASSUME NEW t \in Nat \cup {None}
  PROVE  /\ Sooner(t) <= t /\ (t # None => Sooner(t) # None)
         /\ \A n \in Nat : t \in 0 .. n => Sooner(t) \in 0 .. n
BY DEF Sooner, None

(* No other operation leaves a service draining.                           *)
LEMMA OperationUndrains ==
  ASSUME TypeOK, Down \/ RestartOne \/ CancelDrain \/ Rollout \/ DaemonRestart \/ Up \/ BootUp
  PROVE  r'.state # "Draining"
<1>1. r \in Runner
  BY DEF TypeOK
<1>2. CASE Down
  BY <1>1, <1>2, Effects DEF Down
<1>3. CASE RestartOne
  <2>1. RestartReset(r) \in Runner /\ RestartReset(r).state = "Stopped"
    BY <1>1, Effects, StopAndStartTypes
  <2>2. \A t : [RestartReset(r) EXCEPT !.state = t].state = t
    BY <2>1, FieldEffects
  <2>3. CASE r' = RestartReset(r)
    BY <2>1, <2>3
  <2>4. ASSUME NEW s \in starts,
               r' = [RestartReset(r) EXCEPT !.state = IF s = "ok" THEN "Starting" ELSE @]
        PROVE  r'.state \in {"Starting", "Stopped"}
    BY <2>1, <2>2, <2>4
  <2> QED
    BY <1>3, <2>3, <2>4 DEF RestartOne
<1>4. CASE CancelDrain
  <2>1. [r EXCEPT !.state = "Healthy", !.drain_grace_until = None].state = "Healthy"
    BY <1>1, FieldEffects
  <2> QED
    BY <1>4, <2>1 DEF CancelDrain
<1>5. CASE Rollout
  <2> DEFINE stopped == [r EXCEPT !.state = "Stopped", !.drain_grace_until = None]
  <2>1. stopped \in Runner /\ stopped.state = "Stopped"
    BY <1>1, States, Resets DEF Runner
  <2> HIDE DEF stopped
  <2>2. [stopped EXCEPT !.state = "Starting"].state = "Starting"
    BY <2>1, FieldEffects
  <2>3. r' = stopped \/ r' = [stopped EXCEPT !.state = "Starting"]
    BY <1>5 DEF Rollout, stopped
  <2> QED
    BY <2>1, <2>2, <2>3
<1>6. CASE DaemonRestart
  <2>1. \A b \in BOOLEAN : Reconciled(b).state \in {"Healthy", "Stopped"}
    BY ReconciledEffects
  <2>2. \E b \in BOOLEAN : r' = Reconciled(b)
    BY <1>6 DEF DaemonRestart
  <2> QED
    BY <2>1, <2>2
<1>7. CASE Up \/ BootUp
  <2>1. r' \in {mark_stopped(r), [r EXCEPT !.state = "Healthy"], [r EXCEPT !.state = "Failed"],
                [r EXCEPT !.state = "Starting"], mark_start_failed(r)}
    BY <1>7 DEF Up, BootUp, UpService, UpGateClosed, UpSkipped, UpEnvFailed, UpStarted
  <2>2. mark_stopped(r).state = "Stopped" /\ mark_start_failed(r).state = "Unhealthy"
    BY <1>1, Effects
  <2>3. \A t : [r EXCEPT !.state = t].state = t
    BY <1>1 DEF Runner
  <2> QED
    BY <2>1, <2>2, <2>3
<1> QED
  BY <1>2, <1>3, <1>4, <1>5, <1>6, <1>7

(* No service comes to be draining but by a drain that was asked for.      *)
LEMMA DrainOnlyByDrain ==
  ASSUME TypeOK, Next, ~Drain, r.state # "Draining"
  PROVE  r'.state # "Draining"
<1>1. r \in Runner /\ Aged(r) \in Runner
  BY AgedType DEF TypeOK
<1>2. CASE Tick
  <2>1. PICK o \in ProbeOf(proc) :
          \/ TickDraining(o) \/ TickHealthy(o) \/ TickSuspect(o) \/ TickParked(o)
          \/ TickFirstFailure(o) \/ TickBelowStreak(o) \/ TickSchedule(o) \/ TickHold(o)
          \/ TickGiveUp(o) \/ \E s \in starts : TickRestart(o, s)
    BY <1>2 DEF Tick
  <2>2. Counted \in Runner /\ Counted.state = r.state
    BY <1>1, CountedType
  <2>3. CASE TickDraining(o)
    BY <2>3 DEF TickDraining
  <2>4. CASE TickHealthy(o)
    <3>1. r' \in {Recovered(r), [r EXCEPT !.state = "Healthy", !.fail_streak = 0]}
      BY <2>4 DEF TickHealthy
    <3>2. [r EXCEPT !.state = "Healthy", !.fail_streak = 0].state = "Healthy"
      BY <1>1 DEF Runner
    <3> QED
      BY <1>1, <3>1, <3>2, Effects
  <2>5. CASE TickSuspect(o) \/ TickParked(o) \/ TickFirstFailure(o) \/ TickBelowStreak(o) \/ TickHold(o)
    <3>1. r' \in {r, [r EXCEPT !.state = "Unhealthy"], Counted, [Counted EXCEPT !.state = "Unhealthy"]}
      BY <2>5 DEF TickSuspect, TickParked, TickFirstFailure, TickBelowStreak, TickHold
    <3>2. /\ [r EXCEPT !.state = "Unhealthy"].state = "Unhealthy"
          /\ [Counted EXCEPT !.state = "Unhealthy"].state = "Unhealthy"
      BY <1>1, <2>2, FieldEffects
    <3> QED
      BY <2>2, <3>1, <3>2
  <2>6. CASE TickSchedule(o)
    <3>1. r' = [Counted EXCEPT !.restart_after = NextDelay(r)]
      BY <2>6 DEF TickSchedule
    <3> QED
      BY <2>2, <3>1, FieldEffects
  <2>7. CASE TickGiveUp(o)
    <3>1. r' = [Charged(Counted) EXCEPT !.restart_after = None, !.state = "Failed"]
      BY <2>7 DEF TickGiveUp
    <3> QED
      BY <2>2, <3>1, ChargedType, FieldEffects
  <2>8. CASE \E s \in starts : TickRestart(o, s)
    <3> DEFINE q == Attempting(Counted)
    <3>1. q \in Runner /\ q.state = r.state
      BY <2>2, AttemptingType, AttemptEffects
    <3>2. /\ Started(q).state = "Restarting"
          /\ ConfigFatal(q).state \in {q.state, "Failed"}
      BY <3>1, Effects, AttemptEffects
    <3>3. r' \in {Started(q), ConfigFatal(q), q}
      BY <2>8 DEF TickRestart
    <3> HIDE DEF q
    <3> QED
      BY <3>1, <3>2, <3>3
  <2> QED
    BY <2>1, <2>3, <2>4, <2>5, <2>6, <2>7, <2>8
<1>3. CASE Elapse \/ Prewarm
  <2>1. r' \in {Aged(r), [Aged(r) EXCEPT !.state = "Stopped"], [Aged(r) EXCEPT !.state = "Healthy"]}
    BY <1>3 DEF Elapse, Prewarm
  <2>2. Aged(r).state = r.state
    BY <1>1, Effects
  <2>3. \A t : [Aged(r) EXCEPT !.state = t].state = t
    BY <1>1 DEF Runner
  <2> QED
    BY <2>1, <2>2, <2>3
<1>4. CASE ProcUp \/ ProcCrash \/ ProcExit \/ Script
  BY <1>4 DEF ProcUp, ProcCrash, ProcExit, Script
<1> QED
  BY <1>2, <1>3, <1>4, OperationUndrains DEF Next

(* What a step can make of a service that drains and goes on draining.     *)
LEMMA StillDraining ==
  ASSUME TypeOK, Next, r.state = "Draining", r'.state = "Draining"
  PROVE  \/ /\ r'.drain_grace_until = r.drain_grace_until /\ ~Elapse
            /\ Tick => r.drain_grace_until > 0
         \/ r'.drain_grace_until = Sooner(r.drain_grace_until) /\ ~Tick
<1>1. r \in Runner /\ Aged(r) \in Runner /\ DecisionOK
  BY AgedType, TypeParts DEF DecisionOK
<1>2. r.drain_grace_until \in Nat \cup {None} /\ wait \in Nat /\ prewarm \in Nat
  BY <1>1, RunnerAssumption DEF Runner, TypeOK
<1>3. CASE Tick
  <2>1. PICK o \in ProbeOf(proc) :
          \/ TickDraining(o) \/ TickHealthy(o) \/ TickSuspect(o) \/ TickParked(o)
          \/ TickFirstFailure(o) \/ TickBelowStreak(o) \/ TickSchedule(o) \/ TickHold(o)
          \/ TickGiveUp(o) \/ \E s \in starts : TickRestart(o, s)
    BY <1>3 DEF Tick
  <2>2. ~(TickHealthy(o) \/ TickParked(o) \/ TickFirstFailure(o) \/ TickBelowStreak(o)
            \/ TickSchedule(o) \/ TickHold(o) \/ TickGiveUp(o) \/ \E s \in starts : TickRestart(o, s))
    BY DEF TickHealthy, TickParked, TickFirstFailure, TickBelowStreak, TickSchedule, TickHold,
           TickGiveUp, TickRestart, Due, Outage
  <2>3. ~TickSuspect(o)
    BY DEF TickSuspect
  <2>4. TickDraining(o)
    BY <2>1, <2>2, <2>3
  <2>5. [r EXCEPT !.state = "Stopped", !.drain_grace_until = None].state = "Stopped"
    BY <1>1, FieldEffects
  <2>6. r' = r /\ ~(r.drain_grace_until <= 0)
    BY <2>4, <2>5 DEF TickDraining
  <2>7. ~Elapse
    BY <1>2, <1>3 DEF Tick, RoundDue, Elapse
  <2> QED
    BY <1>2, <2>6, <2>7 DEF None
<1>4. CASE Elapse
  <2>1. r' = Aged(r) /\ ~Tick
    BY <1>2, <1>4 DEF Tick, RoundDue, Elapse
  <2> QED
    BY <1>1, <2>1, Deadlines
<1>5. CASE Prewarm
  <2>1. r' \in {Aged(r), [Aged(r) EXCEPT !.state = "Stopped"], [Aged(r) EXCEPT !.state = "Healthy"]}
    BY <1>5 DEF Prewarm
  <2>2. /\ [Aged(r) EXCEPT !.state = "Stopped"].state = "Stopped"
        /\ [Aged(r) EXCEPT !.state = "Healthy"].state = "Healthy"
    BY <1>1, FieldEffects
  <2>3. r' = Aged(r)
    BY <2>1, <2>2
  <2>4. ~Tick
    BY <1>2, <1>5 DEF Tick, RoundDue, Prewarm
  <2> QED
    BY <1>1, <2>3, <2>4, Deadlines
<1>6. CASE ProcUp \/ ProcCrash \/ ProcExit \/ Script
  <2>1. r' = r /\ wait' = wait /\ prewarm' = prewarm
    BY <1>6 DEF ProcUp, ProcCrash, ProcExit, Script
  <2>2. ~Elapse
    BY <1>2, <2>1 DEF Elapse
  <2> QED
    BY <1>3, <2>1, <2>2
<1>7. CASE Down \/ RestartOne \/ CancelDrain \/ Rollout \/ DaemonRestart \/ Up \/ BootUp
  BY <1>7, OperationUndrains
<1>8. ~Drain
  BY DEF Drain
<1> QED
  BY <1>3, <1>4, <1>5, <1>6, <1>7, <1>8 DEF Next

(* A drain gets its grace period once, within its bound.                   *)
LEMMA DrainBoundedStep ==
  ASSUME TypeOK, DrainBounded, [Next]_vars
  PROVE  DrainBounded'
<1>1. r \in Runner /\ r.drain_grace_until \in Nat \cup {None} /\ DrainGrace \in Nat
  BY RunnerAssumption DEF TypeOK, Runner
<1>2. CASE UNCHANGED vars
  BY <1>2 DEF vars, DrainBounded
<1>3. SUFFICES ASSUME Next, r'.state = "Draining"
               PROVE  r'.drain_grace_until \in 0 .. DrainGrace
  BY <1>2 DEF DrainBounded
<1>4. CASE r.state = "Draining"
  <2>1. r'.drain_grace_until \in {r.drain_grace_until, Sooner(r.drain_grace_until)}
    BY <1>3, <1>4, StillDraining
  <2>2. r.drain_grace_until \in 0 .. DrainGrace
    BY <1>4 DEF DrainBounded
  <2> QED
    BY <1>1, <2>1, <2>2, SoonerIsCloser
<1>5. CASE r.state # "Draining"
  <2>1. CASE Drain
    <3>1. r' = [r EXCEPT !.state = "Draining", !.drain_grace_until = DrainGrace]
      BY <2>1 DEF Drain
    <3>2. r'.drain_grace_until = DrainGrace
      BY <1>1, <3>1 DEF Runner
    <3> QED
      BY <1>1, <3>2
  <2>2. CASE ~Drain
    BY <1>3, <1>5, <2>2, DrainOnlyByDrain
  <2> QED
    BY <2>1, <2>2
<1> QED
  BY <1>4, <1>5

(* No drain is put off or forgotten: it is over in the first round after    *)
(* its grace period at the latest.                                         *)
THEOREM DrainsRunOut == Spec => []DrainBounded /\ DrainNeverPutOff
<1>1. Init => DrainBounded
  <2> SUFFICES ASSUME Init PROVE DrainBounded
    OBVIOUS
  <2>1. \E b \in BOOLEAN : r = Reconciled(b)
    BY DEF Init
  <2> QED
    BY <2>1, ReconciledEffects DEF DrainBounded
<1>2. TypeOK /\ DrainBounded /\ [Next]_vars => DrainBounded'
  BY DrainBoundedStep
<1>3. TypeOK /\ [Next]_vars => [DrainStep]_vars
  <2> SUFFICES ASSUME TypeOK, Next, r.state = "Draining", r'.state = "Draining"
               PROVE  /\ r'.drain_grace_until <= r.drain_grace_until
                      /\ Elapse => r'.drain_grace_until = Sooner(r.drain_grace_until)
                      /\ Tick => r.drain_grace_until > 0
    BY DEF DrainStep
  <2>1. r.drain_grace_until \in Nat \cup {None}
    BY DEF TypeOK, Runner
  <2> QED
    BY <2>1, StillDraining, SoonerIsCloser DEF None
<1> QED
  BY <1>1, <1>2, <1>3, TypeCorrect, PTL DEF Spec, DrainNeverPutOff

(* What the daemon can do to the schedule of an outage that goes on.       *)
LEMMA StillOut ==
  ASSUME TypeOK, Next, InOutage, r'.state \in {"Unhealthy", "Restarting"},
         r.restart_after # None, by' = "daemon"
  PROVE  \/ r'.restart_after = r.restart_after /\ ~Elapse
         \/ r'.restart_after = Sooner(r.restart_after)
         \/ \E o \in ProbeOf(proc) : Due(o)
<1>1. r \in Runner /\ Aged(r) \in Runner
  BY AgedType DEF TypeOK
<1>2. wait \in Nat /\ prewarm \in Nat
  BY RunnerAssumption DEF TypeOK
<1>3. r.state \in {"Unhealthy", "Restarting"}
  BY DEF InOutage
<1>4. CASE Tick
  <2>1. PICK o \in ProbeOf(proc) :
          \/ TickDraining(o) \/ TickHealthy(o) \/ TickSuspect(o) \/ TickParked(o)
          \/ TickFirstFailure(o) \/ TickBelowStreak(o) \/ TickSchedule(o) \/ TickHold(o)
          \/ TickGiveUp(o) \/ \E s \in starts : TickRestart(o, s)
    BY <1>4 DEF Tick
  <2>2. ~Elapse
    BY <1>2, <1>4 DEF Tick, RoundDue, Elapse
  <2>3. ~(TickDraining(o) \/ TickParked(o) \/ TickFirstFailure(o) \/ TickSchedule(o))
    BY <1>3 DEF TickDraining, TickParked, TickFirstFailure, TickSchedule
  <2>4. CASE TickHealthy(o)
    BY <1>1, <1>3, <2>4, Effects DEF TickHealthy
  <2>5. CASE TickSuspect(o)
    <3>1. r' = [r EXCEPT !.state = "Unhealthy"]
      BY <1>3, <2>5 DEF TickSuspect
    <3> QED
      BY <1>1, <2>2, <3>1, Deadlines
  <2>6. CASE TickBelowStreak(o) \/ TickHold(o)
    <3>1. r' = Counted
      BY <2>6 DEF TickBelowStreak, TickHold
    <3>2. Counted.restart_after = r.restart_after
      BY <1>1 DEF Counted, Runner
    <3> QED
      BY <2>2, <3>1, <3>2
  <2>7. CASE TickGiveUp(o) \/ \E s \in starts : TickRestart(o, s)
    BY <2>7 DEF TickGiveUp, TickRestart
  <2> QED
    BY <2>1, <2>3, <2>4, <2>5, <2>6, <2>7
<1>5. CASE Elapse
  <2>1. r' = Aged(r)
    BY <1>5 DEF Elapse
  <2> QED
    BY <1>1, <2>1, Deadlines
<1>6. CASE Prewarm
  <2>1. r' \in {Aged(r), [Aged(r) EXCEPT !.state = "Stopped"], [Aged(r) EXCEPT !.state = "Healthy"]}
    BY <1>6 DEF Prewarm
  <2>2. /\ [Aged(r) EXCEPT !.state = "Stopped"].state = "Stopped"
        /\ [Aged(r) EXCEPT !.state = "Healthy"].state = "Healthy"
    BY <1>1, FieldEffects
  <2>3. r' = Aged(r)
    BY <2>1, <2>2
  <2> QED
    BY <1>1, <2>3, Deadlines
<1>7. CASE ProcUp \/ ProcCrash \/ ProcExit \/ Script
  <2>1. r' = r /\ wait' = wait
    BY <1>7 DEF ProcUp, ProcCrash, ProcExit, Script
  <2>2. ~Elapse
    BY <1>2, <2>1 DEF Elapse
  <2> QED
    BY <2>1, <2>2
<1>8. ~(BootUp \/ Up \/ Down \/ RestartOne \/ Drain \/ CancelDrain \/ Rollout \/ DaemonRestart)
  BY DEF BootUp, Up, Down, RestartOne, Drain, CancelDrain, Rollout, DaemonRestart
<1> QED
  BY <1>4, <1>5, <1>6, <1>7, <1>8 DEF Next

(* A scheduled restart comes closer with every second of the outage and is *)
(* pushed off by no probe, hold or streak: the outage waits for it only as *)
(* long as it was scheduled for and a script is at work.                   *)
THEOREM RestartsComeDue == Spec => RestartNeverPutOff
<1>1. TypeOK /\ [Next]_vars => [RestartStep]_vars
  <2> SUFFICES ASSUME TypeOK, Next PROVE RestartStep
    OBVIOUS
  <2>1. r.restart_after \in Nat \cup {None}
    BY DEF TypeOK, Runner
  <2>2. InOutage' => r'.state \in {"Unhealthy", "Restarting"}
    BY DEF InOutage
  <2>3. SUFFICES ASSUME InOutage, InOutage', r.restart_after # None, by' = "daemon",
                        ~\E o \in ProbeOf(proc) : Due(o)
                 PROVE  /\ r'.restart_after # None /\ r'.restart_after <= r.restart_after
                        /\ Elapse => r'.restart_after = Sooner(r.restart_after)
    BY DEF RestartStep
  <2>4. \/ r'.restart_after = r.restart_after /\ ~Elapse
        \/ r'.restart_after = Sooner(r.restart_after)
    BY <2>2, <2>3, StillOut
  <2> QED
    BY <2>1, <2>3, <2>4, SoonerIsCloser DEF None
<1> QED
  BY <1>1, TypeCorrect, PTL DEF Spec, RestartNeverPutOff

=============================================================================
