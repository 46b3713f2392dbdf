--------------------------- MODULE ContractProofs ---------------------------
(***************************************************************************)
(* The runner of one service implements the contract, for every length of  *)
(* the windows, caps and curves and every behaviour of the process.        *)
(***************************************************************************)
EXTENDS RunnerProofs, RunnerContract

(* A rollout waits for a service it has just started. *)
PrewarmStarting == prewarm > 0 => r.state = "Starting"

(* While a rollout waits nothing else moves the runner.                     *)
LEMMA PrewarmStep ==
  ASSUME TypeOK, PrewarmStarting, [Next]_vars
  PROVE  PrewarmStarting'
<1>1. r \in Runner /\ Aged(r) \in Runner /\ prewarm \in Nat /\ DecisionOK
  BY AgedType, TypeParts, RunnerAssumption DEF TypeOK
<1>2. CASE prewarm' = 0 \/ prewarm' \notin Int
  BY <1>1, <1>2, StepType, RunnerAssumption DEF PrewarmStarting, TypeOK
<1>3. CASE UNCHANGED vars
  BY <1>3 DEF vars, PrewarmStarting
<1>4. CASE ProcUp \/ ProcCrash \/ ProcExit \/ Script
  BY <1>4 DEF ProcUp, ProcCrash, ProcExit, Script, PrewarmStarting
<1>5. CASE Tick \/ Elapse \/ BootUp \/ Up \/ Down \/ RestartOne \/ Drain \/ CancelDrain
           \/ DaemonRestart
  <2>1. prewarm' = 0
    BY <1>5 DEF Tick, RoundDue, Elapse, BootUp, Up, UpService, Down, RestartOne, Drain,
                CancelDrain, DaemonRestart, Idle
  <2> QED
    BY <1>2, <2>1
<1>6. CASE Prewarm /\ prewarm' # 0
  <2>1. prewarm > 0 /\ r' = Aged(r)
    BY <1>6 DEF Prewarm
  <2>2. Aged(r).state = r.state
    BY <1>1, Effects
  <2> QED
    BY <2>1, <2>2 DEF PrewarmStarting
<1>7. CASE Rollout /\ prewarm' # 0
  <2> DEFINE stopped == [r EXCEPT !.state = "Stopped", !.drain_grace_until = None]
  <2>1. r' = [stopped EXCEPT !.state = "Starting"]
    BY <1>7 DEF Rollout
  <2>2. [stopped EXCEPT !.state = "Starting"].state = "Starting"
    BY <1>1 DEF Runner
  <2> QED
    BY <2>1, <2>2 DEF PrewarmStarting
<1> QED
  BY <1>2, <1>3, <1>4, <1>5, <1>6, <1>7 DEF Next

(* The runner is in a state of its own, and the operator's word one of three. *)
LEMMA ContractTypes ==
  ASSUME TypeOK
  PROVE  r \in Runner /\ r.state \in State /\ intent \in {"run", "stop", "adopted"}
BY DEF TypeOK, Runner

(* A step that leaves the state and the operator's word alone is no step.   *)
LEMMA Quiet ==
  ASSUME r'.state = r.state, intent' = intent
  PROVE  UNCHANGED <<Phase, intent>>
BY DEF Phase

(* Clients, the boot task and the crash of the daemon are outside, the tick, *)
(* the rest of a rollout, time and the process are the daemon's own.         *)
FromOutside == Up \/ Down \/ RestartOne \/ Drain \/ CancelDrain \/ Rollout
               \/ BootUp \/ DaemonRestart
OnItsOwn == Tick \/ Elapse \/ Prewarm \/ ProcUp \/ ProcCrash \/ ProcExit \/ Script

(* Every step is marked as the one or the other.                            *)
LEMMA Marked == /\ FromOutside => by' = "outside"
                /\ OnItsOwn => by' = "daemon"
                /\ Next => FromOutside \/ OnItsOwn
<1>1. FromOutside => by' = "outside"
  BY DEF FromOutside, Up, Down, RestartOne, Drain, CancelDrain, Rollout, BootUp, DaemonRestart
<1>2. OnItsOwn => by' = "daemon"
  BY DEF OnItsOwn, Tick, Elapse, Prewarm, ProcUp, ProcCrash, ProcExit, Script
<1> QED
  BY <1>1, <1>2 DEF Next, FromOutside, OnItsOwn
-----------------------------------------------------------------------------
(* What the daemon does of its own accord.                                  *)

(* What the tick does to state and intent, whatever it decides.             *)
LEMMA TickMoves ==
  ASSUME TypeOK, Tick
  PROVE  \/ r'.state = r.state /\ intent' = intent
         \/ r.state = "Draining" /\ r'.state = "Stopped" /\ intent' = intent
         \/ /\ r.state # "Draining" /\ r'.state = "Healthy"
            /\ intent' = IF intent = "stop" THEN "adopted" ELSE intent
         \/ /\ r.state \in {"Healthy", "Starting", "Unhealthy", "Restarting"}
            /\ r'.state = "Unhealthy" /\ intent' = intent
         \/ /\ r.state \in {"Unhealthy", "Restarting"}
            /\ r'.state \in {"Unhealthy", "Restarting", "Failed"} /\ intent' = intent
<1>1. r \in Runner /\ r.state \in State /\ Counted \in Runner /\ Charged(Counted) \in Runner
  BY ContractTypes, CountedType, ChargedType
<1>2. PICK o \in ProbeOf(proc) :
        \/ TickDraining(o) \/ TickHealthy(o) \/ TickSuspect(o) \/ TickParked(o)
        \/ TickFirstFailure(o) \/ TickBelowStreak(o) \/ TickSchedule(o) \/ TickHold(o)
        \/ TickGiveUp(o) \/ \E s \in starts : TickRestart(o, s)
  BY DEF Tick
<1>3. Counted.state = r.state
  BY <1>1 DEF Counted, Runner
<1>4. CASE TickDraining(o)
  <2>1. [r EXCEPT !.state = "Stopped", !.drain_grace_until = None].state = "Stopped"
    BY <1>1, FieldEffects
  <2> QED
    BY <1>4, <2>1 DEF TickDraining, history
<1>5. CASE TickHealthy(o)
  <2>1. /\ Recovered(r).state = "Healthy"
        /\ [r EXCEPT !.state = "Healthy", !.fail_streak = 0].state = "Healthy"
    BY <1>1, Effects DEF Runner
  <2> QED
    BY <1>5, <2>1 DEF TickHealthy
<1>6. CASE TickSuspect(o)
  <2>1. [r EXCEPT !.state = "Unhealthy"].state = "Unhealthy"
    BY <1>1, FieldEffects
  <2> QED
    BY <1>1, <1>6, <2>1 DEF TickSuspect, State, history
<1>7. CASE TickParked(o) \/ TickBelowStreak(o) \/ TickHold(o)
  BY <1>3, <1>7 DEF TickParked, TickBelowStreak, TickHold, Refusal, Outage
<1>8. CASE TickFirstFailure(o)
  <2>1. [Counted EXCEPT !.state = "Unhealthy"].state = "Unhealthy"
    BY <1>1, FieldEffects
  <2>2. r.state # "Failed" /\ r.state \in {"Healthy", "Starting"} /\ intent' = intent
        /\ r' = [Counted EXCEPT !.state = "Unhealthy"]
    BY <1>8 DEF TickFirstFailure, Refusal
  <2> QED
    BY <2>1, <2>2
<1>9. CASE TickSchedule(o)
  <2>1. [Counted EXCEPT !.restart_after = NextDelay(r)].state = r.state
    BY <1>1, <1>3, FieldEffects
  <2> QED
    BY <1>9, <2>1 DEF TickSchedule, Outage, Refusal
<1>10. CASE TickGiveUp(o)
  <2>1. [Charged(Counted) EXCEPT !.restart_after = None, !.state = "Failed"].state = "Failed"
    BY <1>1, FieldEffects
  <2> QED
    BY <1>10, <2>1 DEF TickGiveUp, Due, Outage, Refusal
<1>11. ASSUME NEW s \in starts, TickRestart(o, s)
       PROVE  /\ r.state \in {"Unhealthy", "Restarting"}
              /\ r'.state \in {"Unhealthy", "Restarting", "Failed"} /\ intent' = intent
  <2> DEFINE q == Attempting(Counted)
  <2>1. q \in Runner /\ q.state = r.state
    BY <1>1, <1>3, AttemptingType, AttemptEffects
  <2>2. r' \in {q, Started(q), ConfigFatal(q)}
    BY <1>11 DEF TickRestart
  <2> HIDE DEF q
  <2>3. Started(q).state = "Restarting" /\ ConfigFatal(q).state \in {q.state, "Failed"}
    BY <2>1, Effects, AttemptEffects
  <2>4. r.state \in {"Unhealthy", "Restarting"} /\ intent' = intent
    BY <1>11 DEF TickRestart, Due, Outage, Refusal
  <2> QED
    BY <2>1, <2>2, <2>3, <2>4
<1> QED
  BY <1>2, <1>4, <1>5, <1>6, <1>7, <1>8, <1>9, <1>10, <1>11

(* Whatever the daemon does of its own accord the contract allows it to.    *)
LEMMA DaemonStep ==
  ASSUME TypeOK, PrewarmStarting, PrewarmAsked, OnItsOwn
  PROVE  Promised!Daemon
<1>1. r \in Runner /\ Aged(r) \in Runner /\ intent \in {"run", "stop", "adopted"}
  BY ContractTypes, AgedType
<1>5. by' = "daemon"
  BY Marked
<1>2. CASE Tick
  <2>1. CASE r'.state = r.state /\ intent' = intent
    BY <2>1, Quiet, <1>5 DEF Promised!Daemon
  <2>2. CASE r.state = "Draining" /\ r'.state = "Stopped" /\ intent' = intent
    BY <2>2, <1>5 DEF Promised!Daemon, Promised!Finish, Phase
  <2>3. CASE /\ r.state # "Draining" /\ r'.state = "Healthy"
             /\ intent' = IF intent = "stop" THEN "adopted" ELSE intent
    <3>1. Phase # "draining" /\ Phase' = "on"
      BY <2>3 DEF Phase
    <3> QED
      BY <2>3, <3>1, <1>5 DEF Promised!Daemon, Promised!Sighted, Promised!Seen
  <2>4. CASE /\ r.state \in {"Healthy", "Starting", "Unhealthy", "Restarting"}
             /\ r'.state = "Unhealthy" /\ intent' = intent
    <3>1. Phase \in {"on", "trouble"} /\ Phase' = "trouble"
      BY <2>4 DEF Phase
    <3> QED
      BY <2>4, <3>1, <1>5 DEF Promised!Daemon, Promised!Lost
  <2>5. CASE /\ r.state \in {"Unhealthy", "Restarting"}
             /\ r'.state \in {"Unhealthy", "Restarting", "Failed"} /\ intent' = intent
    <3>1. Phase = "trouble" /\ Phase' \in {"trouble", "failed"}
      BY <2>5 DEF Phase
    <3> QED
      BY <2>5, <3>1, <1>5 DEF Promised!Daemon, Promised!GiveUp
  <2> QED
    BY <1>2, <2>1, <2>2, <2>3, <2>4, <2>5, TickMoves
<1>3. CASE Elapse \/ ProcUp \/ ProcCrash \/ ProcExit \/ Script
  <2>1. r' \in {r, Aged(r)} /\ intent' = intent
    BY <1>3 DEF Elapse, ProcUp, ProcCrash, ProcExit, Script, history
  <2>2. r'.state = r.state
    BY <1>1, <2>1, Effects
  <2> QED
    BY <2>1, <2>2, Quiet, <1>5 DEF Promised!Daemon
<1>4. CASE Prewarm
  <2>1. /\ r' \in {Aged(r), [Aged(r) EXCEPT !.state = "Stopped"], [Aged(r) EXCEPT !.state = "Healthy"]}
        /\ intent' = intent /\ prewarm > 0
    BY <1>4 DEF Prewarm
  <2>2. Aged(r).state = r.state
    BY <1>1, Effects
  <2>6. /\ [Aged(r) EXCEPT !.state = "Stopped"].state = "Stopped"
        /\ [Aged(r) EXCEPT !.state = "Healthy"].state = "Healthy"
    BY <1>1, FieldEffects
  <2>3. r.state = "Starting" /\ intent = "run"
    BY <2>1 DEF PrewarmStarting, PrewarmAsked
  <2>4. r'.state \in {"Starting", "Stopped", "Healthy"}
    BY <2>1, <2>2, <2>3, <2>6
  <2>5. Phase = "on" /\ Phase' \in {"on", "off"}
    BY <2>3, <2>4 DEF Phase
  <2> QED
    BY <2>1, <2>3, <2>5, <1>5 DEF Promised!Daemon, Promised!Finish
<1> QED
  BY <1>2, <1>3, <1>4 DEF OnItsOwn
-----------------------------------------------------------------------------
(* What is asked from outside.                                              *)

(* Bringing a service up leaves it in any state but Draining.               *)
LEMMA UpMoves ==
  ASSUME TypeOK, BootUp \/ Up
  PROVE  r'.state \in {"Stopped", "Healthy", "Failed", "Starting", "Unhealthy"} /\ intent' = "run"
<1>1. r \in Runner
  BY ContractTypes
<1>2. PICK batch \in BOOLEAN : UpService(batch)
  BY DEF BootUp, Up
<1>3. r' \in {mark_stopped(r), mark_start_failed(r), [r EXCEPT !.state = "Healthy"],
              [r EXCEPT !.state = "Failed"], [r EXCEPT !.state = "Starting"]}
  BY <1>2 DEF UpService, UpGateClosed, UpSkipped, UpEnvFailed, UpStarted
<1>4. mark_stopped(r).state = "Stopped" /\ mark_start_failed(r).state = "Unhealthy"
  BY <1>1, Effects
<1>5. /\ [r EXCEPT !.state = "Healthy"].state = "Healthy"
      /\ [r EXCEPT !.state = "Failed"].state = "Failed"
      /\ [r EXCEPT !.state = "Starting"].state = "Starting"
  BY <1>1, FieldEffects
<1>6. r'.state \in {"Stopped", "Healthy", "Failed", "Starting", "Unhealthy"}
  BY <1>3, <1>4, <1>5
<1> QED
  BY <1>2, <1>6 DEF UpService

(* restart and rollout leave the service stopped or starting, or as it was. *)
LEMMA ReplaceMoves ==
  ASSUME TypeOK, RestartOne \/ Rollout
  PROVE  r'.state \in {"Stopped", "Starting"} /\ intent' = "run"
<1> DEFINE stopped == [r EXCEPT !.state = "Stopped", !.drain_grace_until = None]
<1>1. r \in Runner /\ RestartReset(r) \in Runner
  BY ContractTypes, StopAndStartTypes
<1>2. /\ RestartReset(r).state = "Stopped" /\ stopped.state = "Stopped"
      /\ [stopped EXCEPT !.state = "Starting"].state = "Starting"
      /\ \A t : [RestartReset(r) EXCEPT !.state = t].state = t
  BY <1>1, Effects, FieldEffects DEF Runner
<1>3. CASE RestartOne
  <2>1. \/ r' = RestartReset(r)
        \/ \E s \in starts :
             r' = [RestartReset(r) EXCEPT !.state = IF s = "ok" THEN "Starting" ELSE @]
    BY <1>3 DEF RestartOne
  <2>2. ASSUME NEW s \in starts,
               r' = [RestartReset(r) EXCEPT !.state = IF s = "ok" THEN "Starting" ELSE @]
        PROVE  r'.state \in {"Starting", "Stopped"}
    BY <1>2, <2>2
  <2>3. r'.state \in {"Starting", "Stopped"}
    BY <1>2, <2>1, <2>2
  <2> QED
    BY <1>3, <2>3 DEF RestartOne
<1>4. CASE Rollout
  <2>1. r' \in {stopped, [stopped EXCEPT !.state = "Starting"]}
    BY <1>4 DEF Rollout
  <2> HIDE DEF stopped
  <2>2. r'.state \in {"Starting", "Stopped"}
    BY <1>2, <2>1
  <2> QED
    BY <1>4, <2>2 DEF Rollout
<1> QED
  BY <1>3, <1>4

(* Whatever is done from outside is one of the requests of the contract.    *)
LEMMA OutsideStep ==
  ASSUME TypeOK, FromOutside
  PROVE  Promised!Outside
<1>1. r \in Runner /\ by' = "outside"
  BY ContractTypes, Marked
<1>2. CASE BootUp \/ Up
  BY <1>1, <1>2, UpMoves DEF Promised!Outside, Promised!AskRun, Phase
<1>3. CASE RestartOne \/ Rollout
  BY <1>1, <1>3, ReplaceMoves DEF Promised!Outside, Promised!AskRun, Phase
<1>4. CASE Down
  <2>1. r'.state = "Stopped" /\ intent' = "stop"
    BY <1>1, <1>4, Effects DEF Down
  <2> QED
    BY <1>1, <2>1 DEF Promised!Outside, Promised!AskStop, Phase
<1>5. CASE Drain
  <2>1. /\ r.state \in {"Healthy", "Starting", "Unhealthy"} /\ intent' = intent
        /\ r' = [r EXCEPT !.state = "Draining", !.drain_grace_until = DrainGrace]
    BY <1>5 DEF Drain, history
  <2>2. r'.state = "Draining"
    BY <1>1, <2>1, FieldEffects
  <2> QED
    BY <1>1, <2>1, <2>2 DEF Promised!Outside, Promised!BeginDrain, Phase
<1>6. CASE CancelDrain
  <2>1. /\ r.state = "Draining" /\ intent' = intent
        /\ r' = [r EXCEPT !.state = "Healthy", !.drain_grace_until = None]
    BY <1>6 DEF CancelDrain, history
  <2>2. r'.state = "Healthy"
    BY <1>1, <2>1, FieldEffects
  <2> QED
    BY <1>1, <2>1, <2>2 DEF Promised!Outside, Promised!CancelDrain, Phase
<1>7. CASE DaemonRestart
  <2>1. PICK o \in ProbeOf(proc) :
          /\ r' = Reconciled(o = "healthy")
          /\ intent' = IF o = "healthy" /\ intent = "stop" THEN "adopted" ELSE intent
    BY <1>7 DEF DaemonRestart
  <2>2. /\ Reconciled(TRUE).state = "Healthy" /\ Reconciled(FALSE).state = "Stopped"
    BY NewRunnerType DEF Reconciled, NewRunner
  <2>3. CASE o = "healthy"
    <3>1. r'.state = "Healthy" /\ intent' = IF intent = "stop" THEN "adopted" ELSE intent
      BY <2>1, <2>2, <2>3
    <3> QED
      BY <1>1, <3>1 DEF Promised!Outside, Promised!Forget, Promised!Seen, Phase
  <2>4. CASE o # "healthy"
    <3>1. r'.state = "Stopped" /\ intent' = intent
      BY <2>1, <2>2, <2>4
    <3> QED
      BY <1>1, <3>1 DEF Promised!Outside, Promised!Forget, Phase
  <2> QED
    BY <2>3, <2>4
<1> QED
  BY <1>2, <1>3, <1>4, <1>5, <1>6, <1>7 DEF FromOutside
-----------------------------------------------------------------------------
(* The runner implements the contract: for every choice of constants what   *)
(* an operator, a tick, a rollout or a new daemon does to a service is one  *)
(* of the moves ServiceContract grants it, the daemon's own moves included. *)
THEOREM KeepsContract == Spec => Contract
<1>1. Init => Promised!Init
  <2> SUFFICES ASSUME Init PROVE Promised!Init
    OBVIOUS
  <2>1. PICK o \in ProbeOf(proc) : r = Reconciled(o = "healthy")
    BY DEF Init
  <2>2. Reconciled(TRUE).state = "Healthy" /\ Reconciled(FALSE).state = "Stopped"
    BY NewRunnerType DEF Reconciled, NewRunner
  <2>3. r.state \in {"Healthy", "Stopped"} /\ intent = "run" /\ by = "outside"
    BY <2>1, <2>2 DEF Init
  <2> QED
    BY <2>3 DEF Promised!Init, Phase
<1>2. IInv /\ PrewarmStarting /\ [Next]_vars
        => [Promised!Outside \/ Promised!Daemon]_(Promised!vars)
  <2> SUFFICES ASSUME IInv, PrewarmStarting, [Next]_vars
               PROVE  [Promised!Outside \/ Promised!Daemon]_(Promised!vars)
    OBVIOUS
  <2>1. TypeOK /\ PrewarmAsked
    BY DEF IInv
  <2>2. CASE FromOutside
    BY <2>1, <2>2, OutsideStep
  <2>3. CASE OnItsOwn
    BY <2>1, <2>3, DaemonStep
  <2>4. CASE UNCHANGED vars
    BY <2>4 DEF vars, history, Promised!vars, Phase
  <2> QED
    BY <2>2, <2>3, <2>4, Marked
<1>3. Spec => []PrewarmStarting
  <2>1. Init => PrewarmStarting
    BY DEF Init, PrewarmStarting
  <2>2. TypeOK /\ PrewarmStarting /\ [Next]_vars => PrewarmStarting'
    BY PrewarmStep
  <2> QED
    BY <2>1, <2>2, TypeCorrect, PTL DEF Spec
<1> QED
  BY <1>1, <1>2, <1>3, Invariant, PTL DEF Spec, Contract, Promised!Spec
=============================================================================
