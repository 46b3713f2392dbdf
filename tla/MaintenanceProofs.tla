-------------------------- MODULE MaintenanceProofs --------------------------
(***************************************************************************)
(* The two schedules, for every interval, retention and number of sets:    *)
(* the one stamp of the last backup, set by success and by the scheduled   *)
(* failure, is enough to keep attempts apart and to bring every one of     *)
(* them; and the sweep bounds the age of every row.                        *)
(***************************************************************************)
EXTENDS Maintenance, FiniteSetTheorems, TLAPS

(* The part of TypeOK the schedule rests on: flags and clocks.             *)
Flags ==
  /\ at \in {"idle", "pg", "qdrant", "sweep", "sweep_event"}
  /\ manual \in BOOLEAN /\ target \in BOOLEAN /\ ticked \in BOOLEAN

Clocks ==
  /\ last_backup \in 0 .. Schedule \cup {Never}
  /\ waited \in 0 .. Schedule + 1
  /\ attempted \in 0 .. Schedule \cup {Never}

Dumping == at \in {"pg", "qdrant"}

(* But while it is itself at work, a scheduled attempt has left a stamp    *)
(* that is no older than it is; it was made in a round of its own.         *)
Stamped == /\ attempted # Never => (Dumping /\ ~manual) \/ last_backup \in 0 .. attempted
           /\ Dumping /\ ~manual => attempted = 0
           /\ attempted = 0 => ticked

(* The wait for a backup is no longer than the last stamp is old, and the  *)
(* round of a unit of time leaves a stamp that is not due.                 *)
WaitCovered ==
  /\ last_backup # Never => waited <= last_backup
  /\ Dumping => waited = 0
  /\ ~target => waited = 0
  /\ ticked /\ ~(Dumping /\ ~manual) => last_backup \in 0 .. Schedule - 1
  /\ NotForgotten

ScheduleInv == Flags /\ Clocks /\ Stamped /\ WaitCovered

(* The steps by what they do to the schedule.                              *)
LEMMA Ageing ==
  ASSUME NEW age \in 0 .. Schedule \cup {Never}
  PROVE  /\ Older(age, Schedule) \in 0 .. Schedule \cup {Never}
         /\ age = Never => Older(age, Schedule) = Never
         /\ age # Never => Older(age, Schedule) \in 0 .. Schedule /\ Older(age, Schedule) >= age
         /\ age # Never /\ age < Schedule => Older(age, Schedule) = age + 1
         /\ age = Schedule => Older(age, Schedule) = Schedule
BY MaintenanceAssumption DEF Older, Bump, Never

(* The schedule's account holds at the start.                              *)
LEMMA InitSchedule == Init => ScheduleInv
<1> SUFFICES ASSUME Init PROVE ScheduleInv
  OBVIOUS
<1>1. /\ at = "idle" /\ manual = FALSE /\ last_backup = -1 /\ target \in BOOLEAN
      /\ ticked = FALSE /\ waited = 0 /\ attempted = -1 /\ Never = -1
  BY DEF Init, Never
<1>2. Flags
  BY <1>1 DEF Flags
<1>6. Clocks
  BY <1>1, MaintenanceAssumption DEF Clocks
<1>3. ~Dumping /\ ~ticked
  BY <1>1 DEF Dumping
<1>4. Stamped
  BY <1>1, <1>3 DEF Stamped
<1>5. WaitCovered
  BY <1>1, <1>3, MaintenanceAssumption DEF WaitCovered, NotForgotten
<1> QED
  BY <1>2, <1>6, <1>4, <1>5 DEF ScheduleInv

(* Every step keeps the schedule's account.                                *)
LEMMA StepSchedule == ScheduleInv /\ [Next]_vars => ScheduleInv'
<1> SUFFICES ASSUME ScheduleInv, [Next]_vars PROVE ScheduleInv'
  OBVIOUS
<1> USE DEF ScheduleInv, Flags, Clocks, Stamped, WaitCovered, NotForgotten, Dumping, Never
<1>0. Schedule \in Nat \ {0}
  BY MaintenanceAssumption
<1>1. CASE UNCHANGED vars
  BY <1>1 DEF vars, backup, retention
<1>2. CASE Round
  <2>1. /\ at = "idle" /\ ~ticked /\ ticked' = TRUE /\ target' = target
        /\ CheckBackup \/ CheckBackupRefused
    BY <1>2 DEF Round
  <2>2. CASE CheckBackup
    <3>1. CASE ~backup_due(last_backup, Schedule) /\ at' = "sweep" /\ UNCHANGED backup
      BY <1>0, <2>1, <3>1 DEF backup, backup_due
    <3>2. CASE /\ backup_due(last_backup, Schedule) /\ ~target /\ at' = "sweep" /\ last_backup' = 0
               /\ UNCHANGED <<manual, sets, fresh, waited, attempted>>
      BY <1>0, <2>1, <3>2
    <3>3. CASE backup_due(last_backup, Schedule) /\ target /\ BeginRun(FALSE)
      <4>1. /\ at' = "pg" /\ manual' = FALSE /\ waited' = 0 /\ attempted' = 0
            /\ last_backup' = last_backup
        BY <3>3 DEF BeginRun
      <4>2. Dumping' /\ ~manual'
        BY <4>1
      <4>6. Flags'
        BY <2>1, <4>1
      <4>3. Clocks'
        BY <1>0, <4>1
      <4>4. Stamped'
        BY <2>1, <4>1, <4>2
      <4>5. WaitCovered'
        BY <1>0, <2>1, <4>1, <4>2
      <4> QED
        BY <4>3, <4>4, <4>5, <4>6
    <3> QED
      BY <2>2, <3>1, <3>2, <3>3 DEF CheckBackup
  <2>3. CASE CheckBackupRefused
    BY <1>0, <2>1, <2>3 DEF CheckBackupRefused
  <2> QED
    BY <2>1, <2>2, <2>3
<1>3. CASE SweepHealth \/ SweepEvent
  <2>1. /\ at \in {"sweep", "sweep_event"} /\ at' \in {"idle", "sweep_event"}
        /\ UNCHANGED <<target, ticked, backup>>
    BY <1>3 DEF SweepHealth, SweepEvent
  <2> QED
    BY <1>0, <2>1 DEF backup
<1>4. CASE ManualBackup
  <2>1. CASE target /\ BeginRun(TRUE) /\ UNCHANGED events
    BY <1>0, <1>4, <2>1 DEF ManualBackup, BeginRun
  <2>2. CASE Refuse /\ UNCHANGED <<at, manual, last_backup, waited, attempted>>
    BY <1>0, <1>4, <2>2 DEF ManualBackup
  <2> QED
    BY <1>4, <2>1, <2>2 DEF ManualBackup
<1>5. CASE PgDump \/ Qdrant
  <2>1. Dumping /\ UNCHANGED <<waited, attempted, target, ticked>>
    BY <1>5 DEF PgDump, Qdrant
  <2>2. \/ at' = "qdrant" /\ UNCHANGED <<manual, last_backup>>
        \/ \E ok \in BOOLEAN : Finish(ok)
    BY <1>5 DEF PgDump, Qdrant, PgDumped, PgFails, QdrantDone, QdrantFails
  <2>3. CASE at' = "qdrant" /\ UNCHANGED <<manual, last_backup>>
    BY <1>0, <2>1, <2>3
  <2>4. ASSUME NEW ok \in BOOLEAN, Finish(ok) PROVE ScheduleInv'
    <3>1. /\ last_backup' = (IF ok \/ ~manual THEN 0 ELSE last_backup)
          /\ at' = (IF manual THEN "idle" ELSE "sweep") /\ manual' = manual
      BY <2>4 DEF Finish
    <3> QED
      BY <1>0, <2>1, <3>1
  <2> QED
    BY <2>2, <2>3, <2>4
<1>6. CASE Elapse
  <2>1. /\ at = "idle" /\ ticked /\ ticked' = FALSE /\ at' = at /\ UNCHANGED <<manual, target>>
        /\ last_backup' = Older(last_backup, Schedule)
        /\ attempted' = Older(attempted, Schedule)
        /\ waited' = IF target THEN Bump(waited, Schedule + 1) ELSE 0
    BY <1>6 DEF Elapse
  <2>2. last_backup' = last_backup + 1 /\ last_backup \in 0 .. Schedule - 1
    BY <1>0, <2>1, Ageing
  <2>3. waited' \in 0 .. last_backup' /\ (~target => waited' = 0)
    BY <1>0, <2>1, <2>2 DEF Bump
  <2>4. attempted' \in 0 .. Schedule \cup {Never}
    BY <2>1, Ageing
  <2>5. attempted' # Never => last_backup' \in 0 .. attempted'
    <3>1. CASE attempted = Never
      BY <2>1, <3>1, Ageing
    <3>2. CASE attempted # Never /\ attempted < Schedule
      BY <1>0, <2>1, <2>2, <3>2, Ageing
    <3>3. CASE attempted = Schedule
      BY <1>0, <2>1, <2>2, <3>3, Ageing
    <3> QED
      BY <1>0, <3>1, <3>2, <3>3
  <2>6. attempted' # 0
    BY <1>0, <2>1, Ageing DEF Older, Bump
  <2>7. ~Dumping' /\ ~ticked' /\ last_backup' \in 0 .. Schedule
    BY <1>0, <2>1, <2>2
  <2>11. Flags'
    BY <2>1
  <2>8. Clocks'
    BY <1>0, <2>3, <2>4, <2>7
  <2>9. Stamped'
    BY <2>5, <2>6, <2>7
  <2>12. target' = target
    BY <2>1
  <2>13. waited' <= last_backup' /\ last_backup' # Never /\ NotForgotten'
    BY <1>0, <2>3, <2>7
  <2>10. WaitCovered'
    BY <2>3, <2>7, <2>12, <2>13
  <2> QED
    BY <2>8, <2>9, <2>10, <2>11
<1>7. CASE EditEnv
  BY <1>0, <1>7 DEF EditEnv
<1>8. CASE DaemonRestart
  <2>1. /\ at' = "idle" /\ manual' = FALSE /\ last_backup' = Never /\ attempted' = Never
        /\ ticked' = FALSE /\ UNCHANGED <<target, waited>>
    BY <1>8 DEF DaemonRestart
  <2>2. Flags'
    BY <2>1
  <2>3. Clocks'
    BY <1>0, <2>1
  <2>4. Stamped'
    BY <2>1
  <2>5. WaitCovered'
    BY <2>1
  <2> QED
    BY <2>2, <2>3, <2>4, <2>5
<1> QED
  BY <1>1, <1>2, <1>3, <1>4, <1>5, <1>6, <1>7, <1>8 DEF Next

(* The stamp and the schedule agree in every reachable state.              *)
THEOREM ScheduleAgrees == Spec => []ScheduleInv
BY InitSchedule, StepSchedule, PTL DEF Spec

(* A configured target is tried within one schedule, through failures,     *)
(* restarts and edits of the environment (check_backup_schedule), for      *)
(* every schedule.                                                         *)
THEOREM AlwaysTried == Spec => []NotForgotten
<1>1. ScheduleInv => NotForgotten
  BY DEF ScheduleInv, WaitCovered
<1> QED
  BY <1>1, ScheduleAgrees, PTL

(* One daemon's scheduled attempts are a schedule apart, though every dump *)
(* fails and clients run backups between them (check_backup_schedule).     *)
THEOREM AttemptsApart == Spec => NoRetryStorm
<1> DEFINE Apart == attempted' = 0 /\ ticked' /\ ~ticked =>
                      attempted = Never \/ attempted >= Schedule
<1>1. ScheduleInv /\ [Next]_vars => [Apart]_vars
  <2> SUFFICES ASSUME ScheduleInv, Next, attempted' = 0, ticked', ~ticked
               PROVE  attempted = Never \/ attempted >= Schedule
    OBVIOUS
  <2>0. Schedule \in Nat \ {0} /\ last_backup \in 0 .. Schedule \cup {Never}
        /\ attempted \in 0 .. Schedule \cup {Never} /\ Never = -1
    BY MaintenanceAssumption DEF ScheduleInv, Flags, Clocks, Never
  <2>1. Round
    BY DEF Next, Round, SweepHealth, SweepEvent, ManualBackup, PgDump, Qdrant, Elapse, EditEnv,
           DaemonRestart, ScheduleInv, Flags, Clocks
  <2>2. attempted' = attempted \/ backup_due(last_backup, Schedule)
    BY <2>1 DEF Round, CheckBackup, CheckBackupRefused, backup
  <2>3. at = "idle"
    BY <2>1 DEF Round
  <2>4. attempted # Never => last_backup \in 0 .. attempted
    BY <2>3 DEF ScheduleInv, Stamped, Dumping
  <2>5. CASE backup_due(last_backup, Schedule)
    BY <2>0, <2>4, <2>5 DEF backup_due
  <2>6. attempted # 0
    BY DEF ScheduleInv, Stamped
  <2> QED
    BY <2>2, <2>5, <2>6
<1> QED
  BY <1>1, ScheduleAgrees, PTL DEF Spec, NoRetryStorm
-----------------------------------------------------------------------------
(* The history.  A row is as old as the retention, the sweeps that were    *)
(* missed since and the time since the last one; without a last one, the   *)
(* time it would have been due at.                                         *)
SincePrune == IF last_prune = Never THEN PruneSchedule ELSE last_prune
Limit == Retain - 1 + misses * PruneSchedule + SincePrune

RowTypes ==
  /\ last_prune \in 0 .. PruneSchedule \cup {Never}
  /\ misses \in Nat
  /\ health \subseteq Nat
  /\ events \subseteq [ts : Nat, at : Nat]

RowsCovered ==
  /\ \A age \in health : age <= Limit
  /\ \A row \in events : row.at <= Limit /\ row.at <= row.ts

SweepsInTime == ticked /\ (at = "idle" \/ (Dumping /\ manual)) => last_prune \in 0 .. PruneSchedule - 1

HalfSwept == at = "sweep_event" => \A age \in health : age < Retain

RowsInv == RowTypes /\ RowsCovered /\ SweepsInTime /\ HalfSwept

(* The bound of a row is a number no lower than the age of a new one.      *)
LEMMA LimitType ==
  ASSUME RowTypes
  PROVE  /\ misses * PruneSchedule \in Nat /\ (misses + 1) * PruneSchedule = misses * PruneSchedule + PruneSchedule
         /\ SincePrune \in 0 .. PruneSchedule
         /\ Limit \in Nat
         /\ Limit <= Retain - 1 + misses * PruneSchedule + PruneSchedule
<1>1. PruneSchedule \in Nat \ {0} /\ Retain \in Nat \ {0} /\ misses \in Nat
  BY MaintenanceAssumption DEF RowTypes
<1>2. SincePrune \in 0 .. PruneSchedule
  BY <1>1 DEF RowTypes, SincePrune, Never
<1>3. misses * PruneSchedule \in Nat /\ (misses + 1) * PruneSchedule = misses * PruneSchedule + PruneSchedule
  BY <1>1
<1> QED
  BY <1>1, <1>2, <1>3 DEF Limit

(* What is written is a new row, stamped now or at the beginning of time.  *)
LEMMA Written ==
  ASSUME RowTypes, RowsCovered, NEW rows \in SUBSET {record_event, BackupFailed}, Write(rows)
  PROVE  /\ events' \subseteq [ts : Nat, at : Nat]
         /\ \A row \in events' : row.at <= Limit /\ row.at <= row.ts
<1>1. AgeBound \in Nat
  BY MaintenanceAssumption DEF AgeBound
<1>2. \A row \in rows : row \in [ts : Nat, at : Nat] /\ row.at = 0 /\ row.ts \in Nat
  BY <1>1 DEF record_event, BackupFailed, Row
<1>3. events' = events \/ \E row \in rows : events' = {row}
  BY DEF Write, Watched
<1>4. CASE events' = events
  BY <1>4 DEF RowTypes, RowsCovered
<1>5. ASSUME NEW row \in rows, events' = {row}
      PROVE  /\ events' \subseteq [ts : Nat, at : Nat]
             /\ \A q \in events' : q.at <= Limit /\ q.at <= q.ts
  BY <1>2, <1>5, LimitType
<1> QED
  BY <1>3, <1>4, <1>5

(* The outcome of a backup is written with the clock unmoved.              *)
LEMMA OutcomeRows == \A ok \in BOOLEAN : Outcome(ok) \subseteq {record_event, BackupFailed}
BY DEF Outcome

(* A step that moves neither the clock of the sweeps nor health, and writes *)
(* at most new events, keeps every row covered.                            *)
LEMMA Unswept ==
  ASSUME RowsInv, UNCHANGED retention,
         UNCHANGED events \/ \E rows \in SUBSET {record_event, BackupFailed} : Write(rows)
  PROVE  RowTypes' /\ RowsCovered'
<1>1. Limit' = Limit
  BY DEF retention, Limit, SincePrune
<1>2. /\ events' \subseteq [ts : Nat, at : Nat]
      /\ \A row \in events' : row.at <= Limit /\ row.at <= row.ts
  BY Written DEF RowsInv, RowTypes, RowsCovered
<1> QED
  BY <1>1, <1>2 DEF RowsInv, RowTypes, RowsCovered, retention

(* The rows' account holds at the start.                                   *)
LEMMA InitRows == Init => RowsInv
<1> SUFFICES ASSUME Init PROVE RowsInv
  OBVIOUS
<1>1. health = {} /\ events = {} /\ misses = 0 /\ last_prune = Never /\ ~ticked /\ at = "idle"
  BY DEF Init
<1> QED
  BY <1>1 DEF RowsInv, RowTypes, RowsCovered, SweepsInTime, HalfSwept

(* A round keeps the account of the rows.                                  *)
LEMMA RoundRows == RowsInv /\ Round => RowsInv'
<1> SUFFICES ASSUME RowsInv, Round PROVE RowsInv'
  OBVIOUS
<1>1. /\ UNCHANGED <<last_prune, misses>>
      /\ health' \in Watched(health, {0})
      /\ at' = "sweep" \/ (at' = "pg" /\ manual' = FALSE)
      /\ \E rows \in SUBSET {record_event, BackupFailed} : Write(rows)
  <2>1. PICK told \in {Quiet, {record_event}} :
          \/ CheckBackup /\ Write(told)
          \/ CheckBackupRefused /\ Write(told \cup {BackupFailed})
    BY DEF Round
  <2>2. told \subseteq {record_event, BackupFailed}
        /\ told \cup {BackupFailed} \subseteq {record_event, BackupFailed}
    BY DEF Quiet
  <2>3. at' = "sweep" \/ (at' = "pg" /\ manual' = FALSE)
    BY <2>1 DEF CheckBackup, CheckBackupRefused, BeginRun
  <2>4. \E rows \in SUBSET {record_event, BackupFailed} : Write(rows)
    BY <2>1, <2>2
  <2> QED
    BY <2>3, <2>4 DEF Round
<1>2. Limit' = Limit
  BY <1>1 DEF Limit, SincePrune
<1>3. health' = health \/ health' = {0}
  BY <1>1 DEF Watched
<1>4. Limit \in Nat /\ health \subseteq Nat /\ \A age \in health : age <= Limit
  BY LimitType DEF RowsInv, RowTypes, RowsCovered
<1>5. health' \subseteq Nat /\ \A age \in health' : age <= Limit
  <2>1. CASE health' = health
    BY <1>4, <2>1
  <2>2. CASE health' = {0}
    BY <1>4, <2>2
  <2> QED
    BY <1>3, <2>1, <2>2
<1>6. /\ events' \subseteq [ts : Nat, at : Nat]
      /\ \A row \in events' : row.at <= Limit /\ row.at <= row.ts
  BY <1>1, Written DEF RowsInv
<1>7. RowTypes' /\ RowsCovered'
  BY <1>1, <1>2, <1>5, <1>6 DEF RowsInv, RowTypes, RowsCovered
<1>8. SweepsInTime' /\ HalfSwept'
  BY <1>1 DEF SweepsInTime, HalfSwept, Dumping
<1> QED
  BY <1>7, <1>8 DEF RowsInv

(* A sweep that succeeds leaves only what is younger than the retention;    *)
(* one that fails leaves the next one a whole schedule away.               *)
LEMMA SweepRows == RowsInv /\ (SweepHealth \/ SweepEvent) => RowsInv'
<1> SUFFICES ASSUME RowsInv, SweepHealth \/ SweepEvent PROVE RowsInv'
  OBVIOUS
<1>0. /\ PruneSchedule \in Nat \ {0} /\ Retain \in Nat \ {0} /\ misses \in Nat
      /\ health \subseteq Nat /\ events \subseteq [ts : Nat, at : Nat]
      /\ last_prune \in 0 .. PruneSchedule \cup {Never} /\ Never = -1
      /\ \A age \in health : age <= Limit
      /\ \A row \in events : row.at <= Limit /\ row.at <= row.ts
  BY MaintenanceAssumption DEF RowsInv, RowTypes, RowsCovered, Never
<1>1. CASE /\ SweepHealth /\ ~backup_due(last_prune, PruneSchedule)
           /\ at' = "idle" /\ UNCHANGED retention
  <2>1. UNCHANGED events /\ ~backup_due(last_prune, PruneSchedule)
    BY <1>1 DEF SweepHealth
  <2>2. last_prune \in 0 .. PruneSchedule - 1 /\ last_prune' = last_prune
    BY <1>0, <1>1, <2>1 DEF backup_due, retention
  <2>3. RowTypes' /\ RowsCovered'
    BY <1>1, <2>1, Unswept
  <2> QED
    BY <1>1, <2>2, <2>3 DEF RowsInv, SweepsInTime, HalfSwept
<1>2. CASE /\ SweepHealth /\ at' = "sweep_event" /\ health' = {age \in health : ~Expired(age)}
           /\ UNCHANGED <<last_prune, misses>>
  <2>1. UNCHANGED events /\ Limit' = Limit
    BY <1>2 DEF SweepHealth, Limit, SincePrune
  <2>2. RowTypes' /\ RowsCovered'
    BY <1>0, <1>2, <2>1 DEF RowTypes, RowsCovered
  <2>3. \A age \in health' : age < Retain
    BY <1>0, <1>2 DEF Expired
  <2>4. SweepsInTime' /\ HalfSwept'
    BY <1>2, <2>3 DEF SweepsInTime, HalfSwept, Dumping
  <2> QED
    BY <2>2, <2>4 DEF RowsInv
<1>3. CASE /\ at' = "idle" /\ last_prune' = 0 /\ misses' = misses + 1 /\ UNCHANGED <<health, events>>
  <2>1. Limit' = Retain - 1 + (misses + 1) * PruneSchedule
    BY <1>0, <1>3 DEF Limit, SincePrune
  <2>2. Limit \in Nat /\ Limit' \in Int /\ Limit <= Limit'
    BY <1>0, <2>1, LimitType DEF RowsInv
  <2>3. \A age \in health : age <= Limit'
    BY <1>0, <2>2
  <2>4. \A row \in events : row.at <= Limit'
    <3> TAKE row \in events
    <3>1. row.at \in Nat /\ row.at <= Limit
      BY <1>0
    <3> QED
      BY <2>2, <3>1
  <2>5. RowTypes' /\ RowsCovered'
    BY <1>0, <1>3, <2>3, <2>4 DEF RowTypes, RowsCovered
  <2>6. SweepsInTime' /\ HalfSwept'
    BY <1>0, <1>3 DEF SweepsInTime, HalfSwept
  <2> QED
    BY <2>5, <2>6 DEF RowsInv
<1>4. CASE /\ SweepEvent /\ events' = {row \in events : ~Expired(row.ts)} /\ misses' = 0
  <2>1. at = "sweep_event" /\ at' = "idle" /\ last_prune' = 0 /\ UNCHANGED health
    BY <1>4 DEF SweepEvent
  <2>2. Limit' = Retain - 1
    BY <1>0, <1>4, <2>1 DEF Limit, SincePrune
  <2>3. \A age \in health : age <= Retain - 1
    <3>1. \A age \in health : age < Retain
      BY <2>1 DEF RowsInv, HalfSwept
    <3> QED
      BY <1>0, <3>1
  <2>4. \A row \in events' : row.at <= Retain - 1 /\ row.at <= row.ts
    <3> SUFFICES ASSUME NEW row \in events, ~Expired(row.ts)
                 PROVE  row.at <= Retain - 1 /\ row.at <= row.ts
      BY <1>4
    <3>1. row.at \in Nat /\ row.ts \in Nat /\ row.at <= row.ts
      BY <1>0
    <3> QED
      BY <1>0, <3>1 DEF Expired
  <2>5. RowTypes' /\ RowsCovered'
    BY <1>0, <1>4, <2>1, <2>2, <2>3, <2>4 DEF RowTypes, RowsCovered
  <2>6. SweepsInTime' /\ HalfSwept'
    BY <1>0, <2>1 DEF SweepsInTime, HalfSwept
  <2> QED
    BY <2>5, <2>6 DEF RowsInv
<1> QED
  BY <1>1, <1>2, <1>3, <1>4 DEF SweepHealth, SweepEvent

(* A unit of time passes only after a sweep that is not yet due again.     *)
LEMMA ElapseRows == RowsInv /\ Elapse => RowsInv'
<1> SUFFICES ASSUME RowsInv, Elapse PROVE RowsInv'
  OBVIOUS
<1>0. /\ PruneSchedule \in Nat \ {0} /\ Retain \in Nat \ {0} /\ misses \in Nat /\ AgeBound \in Nat
      /\ health \subseteq Nat /\ events \subseteq [ts : Nat, at : Nat] /\ Never = -1
  BY MaintenanceAssumption DEF RowsInv, RowTypes, Never, AgeBound
<1>1. /\ at = "idle" /\ ticked /\ ticked' = FALSE /\ at' = at /\ misses' = misses
      /\ last_prune' = Older(last_prune, PruneSchedule)
      /\ health' = {Bump(age, AgeBound) : age \in health}
      /\ events' = {AgedRow(row) : row \in events}
  BY DEF Elapse
<1>2. last_prune \in 0 .. PruneSchedule - 1
  BY <1>1 DEF RowsInv, SweepsInTime
<1>3. last_prune' = last_prune + 1
  BY <1>0, <1>1, <1>2 DEF Older, Bump
<1>4. Limit \in Nat /\ Limit' = Limit + 1
  <2>1. misses * PruneSchedule \in Nat /\ Limit \in Nat
    BY LimitType DEF RowsInv
  <2>2. Limit = Retain - 1 + misses * PruneSchedule + last_prune
    BY <1>0, <1>2 DEF Limit, SincePrune
  <2>3. Limit' = Retain - 1 + misses * PruneSchedule + (last_prune + 1)
    BY <1>0, <1>1, <1>2, <1>3 DEF Limit, SincePrune
  <2> QED
    BY <1>0, <1>2, <2>1, <2>2, <2>3
<1>5. \A n \in Nat : /\ Bump(n, AgeBound) \in Nat /\ Bump(n, AgeBound) <= n + 1
                     /\ \A m \in Nat : n <= m => Bump(n, AgeBound) <= Bump(m, AgeBound)
  BY <1>0 DEF Bump
<1>6. health' \subseteq Nat /\ \A age \in health' : age <= Limit'
  <2>1. \A age \in health : age \in Nat /\ age <= Limit
    BY <1>0 DEF RowsInv, RowsCovered
  <2> QED
    BY <1>1, <1>4, <1>5, <2>1
<1>7. events' \subseteq [ts : Nat, at : Nat] /\ \A row \in events' : row.at <= Limit' /\ row.at <= row.ts
  <2>1. ASSUME NEW row \in events
        PROVE  /\ AgedRow(row) \in [ts : Nat, at : Nat]
               /\ AgedRow(row).at <= Limit' /\ AgedRow(row).at <= AgedRow(row).ts
    <3>1. row.at \in Nat /\ row.ts \in Nat /\ row.at <= Limit /\ row.at <= row.ts
      BY <1>0 DEF RowsInv, RowsCovered
    <3>2. AgedRow(row).at = Bump(row.at, AgeBound) /\ AgedRow(row).ts = Bump(row.ts, AgeBound)
          /\ AgedRow(row) = [ts |-> Bump(row.ts, AgeBound), at |-> Bump(row.at, AgeBound)]
      BY DEF AgedRow
    <3> QED
      BY <1>4, <1>5, <3>1, <3>2
  <2> QED
    BY <1>1, <2>1
<1>8. RowTypes' /\ RowsCovered'
  BY <1>0, <1>1, <1>2, <1>3, <1>6, <1>7 DEF RowTypes, RowsCovered
<1>9. SweepsInTime' /\ HalfSwept'
  BY <1>1 DEF SweepsInTime, HalfSwept
<1> QED
  BY <1>8, <1>9 DEF RowsInv

(* Every step keeps the account of the rows.                               *)
LEMMA StepRows == RowsInv /\ [Next]_vars => RowsInv'
<1> SUFFICES ASSUME RowsInv, [Next]_vars PROVE RowsInv'
  OBVIOUS
<1>1. CASE UNCHANGED vars
  <2>1. UNCHANGED <<at, manual, ticked, events>> /\ UNCHANGED retention
    BY <1>1 DEF vars, backup
  <2> QED
    BY <2>1, Unswept DEF RowsInv, SweepsInTime, HalfSwept, Dumping, retention
<1>2. CASE ManualBackup
  <2>1. /\ at = "idle" /\ UNCHANGED <<ticked>> /\ UNCHANGED retention
        /\ at' = "idle" \/ (at' = "pg" /\ manual' = TRUE)
        /\ UNCHANGED events \/ Write({BackupFailed})
    BY <1>2 DEF ManualBackup, BeginRun, Refuse
  <2>2. RowTypes' /\ RowsCovered'
    BY <2>1, Unswept
  <2> QED
    BY <2>1, <2>2 DEF RowsInv, SweepsInTime, HalfSwept, Dumping, retention
<1>3. CASE PgDump \/ Qdrant
  <2>1. /\ Dumping /\ UNCHANGED <<ticked>> /\ UNCHANGED retention
        /\ \E ok \in BOOLEAN : Write(Outcome(ok))
    BY <1>3 DEF PgDump, Qdrant, PgDumped, PgFails, QdrantDone, QdrantFails, Dumping
  <2>2. /\ manual' = manual
        /\ at' = "qdrant" \/ at' = IF manual THEN "idle" ELSE "sweep"
    BY <1>3 DEF PgDump, Qdrant, PgDumped, PgFails, QdrantDone, QdrantFails, Finish
  <2>3. RowTypes' /\ RowsCovered'
    BY <2>1, OutcomeRows, Unswept
  <2> QED
    BY <2>1, <2>2, <2>3 DEF RowsInv, SweepsInTime, HalfSwept, Dumping, retention
<1>4. CASE EditEnv
  <2>1. UNCHANGED <<at, manual, ticked, events>> /\ UNCHANGED retention
    BY <1>4 DEF EditEnv
  <2> QED
    BY <2>1, Unswept DEF RowsInv, SweepsInTime, HalfSwept, Dumping, retention
<1>5. CASE DaemonRestart
  <2>1. /\ at' = "idle" /\ ticked' = FALSE /\ last_prune' = Never /\ UNCHANGED <<health, events>>
        /\ misses' = misses \/ misses' = misses + 1
    BY <1>5 DEF DaemonRestart
  <2>2. /\ misses \in Nat /\ PruneSchedule \in Nat \ {0} /\ Retain \in Nat \ {0}
        /\ misses * PruneSchedule \in Nat
        /\ (misses + 1) * PruneSchedule = misses * PruneSchedule + PruneSchedule
        /\ Limit \in Nat /\ Limit <= Retain - 1 + misses * PruneSchedule + PruneSchedule
    BY MaintenanceAssumption, LimitType DEF RowsInv, RowTypes
  <2>3. Limit' = Retain - 1 + misses' * PruneSchedule + PruneSchedule
    BY <2>1 DEF Limit, SincePrune
  <2>4. Limit' \in Nat /\ Limit <= Limit'
    BY <2>1, <2>2, <2>3
  <2>5. \A age \in health : age <= Limit'
    BY <2>2, <2>4 DEF RowsInv, RowTypes, RowsCovered
  <2>6. \A row \in events : row.at <= Limit'
    <3> TAKE row \in events
    <3>1. row.at \in Nat /\ row.at <= Limit
      BY DEF RowsInv, RowTypes, RowsCovered
    <3> QED
      BY <2>2, <2>4, <3>1
  <2>7. RowTypes' /\ RowsCovered'
    BY <2>1, <2>2, <2>5, <2>6 DEF RowsInv, RowTypes, RowsCovered
  <2> QED
    BY <2>1, <2>7 DEF RowsInv, SweepsInTime, HalfSwept
<1> QED
  BY <1>1, <1>2, <1>3, <1>4, <1>5, RoundRows, SweepRows, ElapseRows DEF Next

(* Rows are covered in every reachable state.                              *)
THEOREM RowsAreCovered == Spec => []RowsInv
BY InitRows, StepRows, PTL DEF Spec

(* No row outlives the retention by more than the sweeps that were missed  *)
(* (check_retention, cleanup_old), for every retention and schedule.       *)
THEOREM HistoryStaysBounded == Spec => []HistoryBounded
<1>1. RowsInv => HistoryBounded
  <2> SUFFICES ASSUME RowsInv PROVE HistoryBounded
    OBVIOUS
  <2> DEFINE limit == Retain - 1 + (misses + 1) * PruneSchedule
  <2>1. /\ Limit \in Nat /\ Retain \in Nat /\ misses * PruneSchedule \in Nat
        /\ PruneSchedule \in Nat
        /\ Limit <= limit
    BY LimitType, MaintenanceAssumption DEF RowsInv
  <2>2. limit \in Int
    BY <2>1, LimitType DEF RowsInv
  <2>3. \A age \in health : age \in Nat /\ age <= Limit
    BY DEF RowsInv, RowTypes, RowsCovered
  <2>4. \A row \in events : row.at \in Nat /\ row.at <= Limit
    BY DEF RowsInv, RowTypes, RowsCovered
  <2> HIDE DEF limit
  <2>5. (\A age \in health : age <= limit) /\ (\A row \in events : row.at <= limit)
    BY <2>1, <2>2, <2>3, <2>4
  <2> QED
    BY <2>5 DEF HistoryBounded, limit
<1> QED
  BY <1>1, RowsAreCovered, PTL
-----------------------------------------------------------------------------
(* The target.  A dump that is at work has the set of its day before it,   *)
(* with a good postgres file once the snapshot is under way; that set is   *)
(* the newest, so no removal is ever about it.                             *)
Set == [pg : Parts, qd : Parts]

Target ==
  /\ sets \in Seq(Set) /\ Len(sets) <= MaxSets
  /\ fresh \in BOOLEAN
  /\ fresh => sets # <<>>
  /\ Dumping => fresh
  /\ at = "qdrant" => sets[1].pg = "good"

(* The first of the sets written anew.                                     *)
LEMMA Rewritten ==
  ASSUME NEW s \in Seq(Set), s # <<>>, NEW part \in Parts
  PROVE  /\ [s EXCEPT ![1].pg = part] \in Seq(Set) /\ [s EXCEPT ![1].qd = part] \in Seq(Set)
         /\ DOMAIN [s EXCEPT ![1].pg = part] = DOMAIN s
         /\ DOMAIN [s EXCEPT ![1].qd = part] = DOMAIN s
         /\ Len([s EXCEPT ![1].pg = part]) = Len(s) /\ Len([s EXCEPT ![1].qd = part]) = Len(s)
         /\ [s EXCEPT ![1].pg = part][1].pg = part
         /\ [s EXCEPT ![1].pg = part][1].qd = s[1].qd
         /\ [s EXCEPT ![1].qd = part][1].qd = part
         /\ [s EXCEPT ![1].qd = part][1].pg = s[1].pg
         /\ \A i \in DOMAIN s \ {1} : /\ [s EXCEPT ![1].pg = part][i] = s[i]
                                      /\ [s EXCEPT ![1].qd = part][i] = s[i]
         /\ 1 \in DOMAIN s /\ Len(s) \in Nat
<1>1. 1 \in DOMAIN s /\ DOMAIN s = 1 .. Len(s) /\ Len(s) \in Nat /\ s[1] \in Set
  OBVIOUS
<1>2. [s[1] EXCEPT !.pg = part] \in Set /\ [s[1] EXCEPT !.qd = part] \in Set
  BY <1>1 DEF Set
<1>3. /\ [s[1] EXCEPT !.pg = part].pg = part /\ [s[1] EXCEPT !.pg = part].qd = s[1].qd
      /\ [s[1] EXCEPT !.qd = part].qd = part /\ [s[1] EXCEPT !.qd = part].pg = s[1].pg
  BY <1>1 DEF Set
<1>4. ASSUME NEW x \in Set
      PROVE  /\ [s EXCEPT ![1] = x] \in Seq(Set) /\ DOMAIN [s EXCEPT ![1] = x] = DOMAIN s
             /\ Len([s EXCEPT ![1] = x]) = Len(s) /\ [s EXCEPT ![1] = x][1] = x
             /\ \A i \in DOMAIN s \ {1} : [s EXCEPT ![1] = x][i] = s[i]
  BY <1>1
<1> QED
  BY <1>1, <1>2, <1>3, <1>4

(* The newest set that has a dump is never one too many.                   *)
LEMMA NewestStays ==
  ASSUME NEW s \in Seq(Set)
  PROVE  1 \notin Surplus(s)
<1>1. Newer(s, 1) = {}
  BY DEF Newer, PgFiles
<1>2. Cardinality(Newer(s, 1)) = 0
  BY <1>1, FS_EmptySet
<1> QED
  BY <1>2, MaintenanceAssumption DEF Surplus

(* Removals list the sets that are left, no more than there were, and the  *)
(* newest among them.                                                      *)
LEMMA PrunedSets ==
  ASSUME NEW s \in Seq(Set), NEW left, NEW t \in Pruned(s, left)
  PROVE  /\ t \in Seq(Set) /\ Len(t) <= Len(s) /\ Len(t) \in Nat
         /\ s # <<>> /\ s[1] # Empty => t # <<>> /\ t[1] = s[1]
<1> DEFINE r == Remains(s, left)
           kept == {i \in DOMAIN r : r[i] # Empty}
<1>1. DOMAIN r = 1 .. Len(s) /\ Len(s) \in Nat /\ DOMAIN s = 1 .. Len(s)
  BY DEF Remains
<1>2. \A i \in DOMAIN r : r[i] \in Set
  <2> SUFFICES ASSUME NEW i \in DOMAIN r PROVE r[i] \in Set
    OBVIOUS
  <2>1. s[i] \in Set
    BY <1>1
  <2>2. r[i] \in {s[i]} \cup [pg : {s[i].pg, "none"}, qd : {s[i].qd, "none"}]
    BY <1>1 DEF Remains
  <2> QED
    BY <2>1, <2>2 DEF Set, Parts
<1>3. s # <<>> => 1 \in DOMAIN r /\ r[1] = s[1]
  BY <1>1, NewestStays DEF Remains
<1> HIDE DEF r
<1>4. kept \subseteq 1 .. Len(s)
  BY <1>1
<1>5. IsFiniteSet(kept) /\ Cardinality(kept) \in Nat /\ Cardinality(kept) <= Len(s)
  <2>1. IsFiniteSet(1 .. Len(s)) /\ Cardinality(1 .. Len(s)) = Len(s)
    BY <1>1, FS_Interval
  <2>2. IsFiniteSet(kept) /\ Cardinality(kept) <= Cardinality(1 .. Len(s))
    BY <1>4, <2>1, FS_Subset
  <2> QED
    BY <2>1, <2>2, FS_CardinalityType
<1>6. PICK f \in InOrder(kept) : t = [k \in DOMAIN f |-> r[f[k]]]
  BY DEF Pruned, Listings, r
<1> DEFINE n == Cardinality(kept)
<1>7. /\ f \in [1 .. n -> kept] /\ Range(f) = kept
      /\ \A i, j \in DOMAIN f : i < j => f[i] < f[j]
  BY <1>6 DEF InOrder
<1> HIDE DEF n, kept
<1>8. t \in [1 .. n -> Set] /\ n \in Nat
  BY <1>2, <1>5, <1>6, <1>7 DEF n, kept
<1>9. t \in Seq(Set) /\ Len(t) = n
  BY <1>8
<1>10. ASSUME s # <<>>, s[1] # Empty
       PROVE  t # <<>> /\ t[1] = s[1]
  <2>1. 1 \in kept
    BY <1>3, <1>10 DEF kept
  <2>2. PICK k \in 1 .. n : f[k] = 1
    BY <1>7, <2>1 DEF Range
  <2>3. f[1] \in 1 .. Len(s) /\ 1 \in 1 .. n
    <3>1. 1 \in 1 .. n
      BY <1>8, <2>2
    <3>2. f[1] \in kept
      BY <1>7, <3>1
    <3> QED
      BY <1>4, <3>1, <3>2
  <2>4. k = 1
    <3> SUFFICES ASSUME k # 1 PROVE FALSE
      OBVIOUS
    <3>1. f[1] < f[k]
      BY <1>7, <1>8, <2>2, <2>3
    <3> QED
      BY <2>2, <2>3, <3>1
  <2>5. t[1] = r[1]
    BY <1>6, <1>7, <2>2, <2>3, <2>4
  <2> QED
    BY <1>3, <1>8, <1>9, <1>10, <2>3, <2>5
<1> QED
  BY <1>1, <1>5, <1>8, <1>9, <1>10 DEF n

(* A run that begins lists its own set first, and all that were there.     *)
LEMMA DatedSets ==
  ASSUME Target
  PROVE  /\ Dated \in Seq(Set) /\ Dated # <<>>
         /\ \A i \in DOMAIN sets : \E j \in DOMAIN Dated : Dated[j] = sets[i]
<1>1. CASE fresh
  BY <1>1 DEF Target, Dated
<1>2. CASE ~fresh
  <2>1. Dated = <<Empty>> \o sets /\ sets \in Seq(Set) /\ Empty \in Set
    BY <1>2 DEF Dated, Target, Empty, Set, Parts
  <2> DEFINE d == <<Empty>> \o sets
  <2>2. /\ d \in Seq(Set) /\ Len(d) = Len(sets) + 1 /\ Len(sets) \in Nat
        /\ DOMAIN sets = 1 .. Len(sets) /\ DOMAIN d = 1 .. Len(sets) + 1
        /\ \A i \in 1 .. Len(sets) : d[i + 1] = sets[i]
    BY <2>1
  <2> HIDE DEF d
  <2>3. \A i \in DOMAIN sets : i + 1 \in DOMAIN d /\ d[i + 1] = sets[i]
    BY <2>2
  <2>4. d # <<>>
    BY <2>2
  <2> QED
    BY <2>1, <2>2, <2>3, <2>4 DEF d
<1> QED
  BY <1>1, <1>2 DEF Target

(* What a step does to the target: a run begins, or the part of the set at *)
(* work is written or torn, or the snapshot is good and the oldest go.     *)
Begins == sets' = Dated /\ Len(Dated) <= MaxSets /\ fresh' = TRUE /\ at' = "pg"
WritesPg(part) == at = "pg" /\ sets' = [sets EXCEPT ![1].pg = part]
WritesQd(part) == at = "qdrant" /\ sets' = Snapshot(part)
Prunes == /\ at = "qdrant"
          /\ \E part \in {"good", sets[1].qd} :
             \E left : sets' \in Pruned(Snapshot(part), left)

Rests == at' # "qdrant"
SetMoves ==
  \/ Begins
  \/ /\ fresh' = fresh
     /\ \/ WritesPg("torn") /\ Rests /\ at' # "pg"
        \/ WritesPg("good") /\ at' = "qdrant"
        \/ \E part \in {"torn", sets[1].qd} : WritesQd(part) /\ Rests /\ at' # "pg"
        \/ Prunes /\ Rests /\ at' # "pg"
  \/ sets' = sets /\ fresh' \in {fresh, FALSE} /\ Rests /\ at' # "pg"
  \/ sets' = sets /\ UNCHANGED <<fresh, at>>

(* Every step does one of these things to the target.                      *)
LEMMA StepSets ==
  ASSUME Flags, [Next]_vars
  PROVE  SetMoves
<1>1. CASE UNCHANGED vars
  BY <1>1 DEF vars, backup, SetMoves
<1>2. CASE Round
  <2>1. CheckBackup \/ CheckBackupRefused
    BY <1>2 DEF Round
  <2>2. CheckBackup => Begins \/ (sets' = sets /\ fresh' = fresh /\ at' = "sweep")
    BY DEF CheckBackup, BeginRun, Begins, backup
  <2>3. CheckBackupRefused => sets' = sets /\ fresh' = fresh /\ at' = "sweep"
    BY DEF CheckBackupRefused
  <2> QED
    BY <2>1, <2>2, <2>3 DEF SetMoves, Rests
<1>3. CASE SweepHealth \/ SweepEvent
  <2>1. sets' = sets /\ fresh' = fresh /\ at' \in {"idle", "sweep_event"}
    BY <1>3 DEF SweepHealth, SweepEvent, backup
  <2> QED
    BY <2>1 DEF SetMoves, Rests
<1>4. CASE ManualBackup
  <2>1. Begins \/ (sets' = sets /\ UNCHANGED <<fresh, at>>)
    BY <1>4 DEF ManualBackup, BeginRun, Begins, Refuse
  <2> QED
    BY <2>1 DEF SetMoves
<1>5. \A ok : Finish(ok) => at' \in {"idle", "sweep"}
  BY DEF Finish
<1>6. CASE PgDump
  <2>1. at = "pg" /\ fresh' = fresh
    BY <1>6 DEF PgDump
  <2>2. \/ WritesPg("good") /\ at' = "qdrant"
        \/ (WritesPg("torn") \/ sets' = sets) /\ at' \in {"idle", "sweep"}
    BY <1>5, <1>6 DEF PgDump, PgDumped, PgFails, PgLeft, WritesPg
  <2> QED
    BY <2>1, <2>2 DEF SetMoves, Rests
<1>7. CASE Qdrant
  <2>1. at = "qdrant" /\ fresh' = fresh
    BY <1>7 DEF Qdrant
  <2>2. /\ at' \in {"idle", "sweep"}
        /\ Prunes \/ \E part \in {"torn", sets[1].qd} : WritesQd(part)
    BY <1>5, <1>7 DEF Qdrant, QdrantDone, QdrantFails, Prunes, WritesQd
  <2> QED
    BY <2>1, <2>2 DEF SetMoves, Rests
<1>8. CASE Elapse \/ EditEnv
  <2>1. sets' = sets /\ fresh' \in {fresh, FALSE} /\ at' = "idle"
    BY <1>8 DEF Elapse, EditEnv
  <2> QED
    BY <2>1 DEF SetMoves, Rests
<1>9. CASE DaemonRestart
  <2>1. fresh' = fresh /\ at' = "idle"
    BY <1>9 DEF DaemonRestart
  <2>2. sets' = sets \/ WritesPg("torn") \/ WritesQd("torn")
    BY <1>9 DEF DaemonRestart, PgLeft, WritesPg, WritesQd
  <2> QED
    BY <2>1, <2>2 DEF SetMoves, Rests
<1> QED
  BY <1>1, <1>2, <1>3, <1>4, <1>6, <1>7, <1>8, <1>9 DEF Next

(* Every step keeps the account of the target.                             *)
LEMMA StepTarget ==
  ASSUME Flags, Target, [Next]_vars
  PROVE  Target'
<1>0. SetMoves
  BY StepSets
<1>1. /\ sets \in Seq(Set) /\ Len(sets) <= MaxSets /\ fresh \in BOOLEAN
      /\ (fresh => sets # <<>>) /\ (Dumping => fresh) /\ (at = "qdrant" => sets[1].pg = "good")
      /\ (sets # <<>> => sets[1] \in Set)
  BY DEF Target
<1>2. CASE Begins
  <2>1. Dated \in Seq(Set) /\ Dated # <<>>
    BY DatedSets
  <2> QED
    BY <1>2, <2>1 DEF Begins, Target, Dumping
<1>3. ASSUME NEW part \in {"torn", "good"}, WritesPg(part), fresh' = fresh,
             at' \notin {"pg", "qdrant"} \/ (part = "good" /\ at' = "qdrant")
      PROVE  Target'
  <2>1. sets # <<>> /\ fresh /\ part \in Parts
    BY <1>1, <1>3 DEF WritesPg, Dumping, Set, Parts
  <2>2. /\ sets' \in Seq(Set) /\ Len(sets') = Len(sets) /\ DOMAIN sets' = DOMAIN sets
        /\ sets'[1].pg = part /\ 1 \in DOMAIN sets
    BY <1>1, <1>3, <2>1, Rewritten DEF WritesPg
  <2>3. sets' # <<>>
    BY <2>2
  <2> QED
    BY <1>1, <1>3, <2>1, <2>2, <2>3 DEF Target, Dumping
<1>4. ASSUME NEW part \in {"torn", sets[1].qd}, WritesQd(part), fresh' = fresh,
             at' \notin {"pg", "qdrant"}
      PROVE  Target'
  <2>1. sets # <<>> /\ fresh /\ part \in Parts
    BY <1>1, <1>4 DEF WritesQd, Dumping, Set, Parts
  <2>2. /\ sets' \in Seq(Set) /\ Len(sets') = Len(sets) /\ DOMAIN sets' = DOMAIN sets
        /\ 1 \in DOMAIN sets
    BY <1>1, <1>4, <2>1, Rewritten DEF WritesQd, Snapshot
  <2>3. sets' # <<>>
    BY <2>2
  <2> QED
    BY <1>1, <1>4, <2>1, <2>2, <2>3 DEF Target, Dumping
<1>5. CASE Prunes /\ fresh' = fresh /\ at' \notin {"pg", "qdrant"}
  <2>0. PICK part \in {"good", sets[1].qd} :
          \E left : sets' \in Pruned(Snapshot(part), left)
    BY <1>5 DEF Prunes
  <2>1. PICK left : sets' \in Pruned(Snapshot(part), left)
    BY <2>0
  <2>2. sets # <<>> /\ fresh /\ part \in Parts /\ sets[1].pg = "good"
    BY <1>1, <1>5 DEF Prunes, Dumping, Set, Parts
  <2>3. /\ Snapshot(part) \in Seq(Set) /\ Len(Snapshot(part)) = Len(sets)
        /\ Snapshot(part)[1].pg = "good" /\ DOMAIN Snapshot(part) = DOMAIN sets /\ 1 \in DOMAIN sets
    <3> DEFINE t == [sets EXCEPT ![1].qd = part]
    <3>1. /\ t \in Seq(Set) /\ Len(t) = Len(sets) /\ DOMAIN t = DOMAIN sets
          /\ t[1].pg = sets[1].pg /\ 1 \in DOMAIN sets
      BY <1>1, <2>2, Rewritten
    <3> HIDE DEF t
    <3> QED
      BY <2>2, <3>1 DEF Snapshot, t
  <2>4. Snapshot(part) # <<>> /\ Snapshot(part)[1] # Empty
    BY <2>3 DEF Empty
  <2>5. sets' \in Seq(Set) /\ Len(sets') <= Len(sets) /\ Len(sets') \in Nat /\ sets' # <<>>
    BY <2>1, <2>3, <2>4, PrunedSets
  <2>6. Len(sets) \in Nat /\ MaxSets \in Nat
    BY <1>1, MaintenanceAssumption
  <2> QED
    BY <1>1, <1>5, <2>2, <2>5, <2>6 DEF Target, Dumping
<1>6. CASE sets' = sets /\ fresh' \in {fresh, FALSE} /\ Rests /\ at' # "pg"
  <2>1. fresh' \in BOOLEAN /\ (fresh' => sets # <<>>)
    <3>1. CASE fresh' = fresh
      BY <1>1, <3>1
    <3>2. CASE fresh' = FALSE
      BY <3>2
    <3> QED
      BY <1>6, <3>1, <3>2
  <2>2. at' \notin {"pg", "qdrant"} /\ sets' = sets
    BY <1>6 DEF Rests
  <2> QED
    BY <1>1, <2>1, <2>2 DEF Target, Dumping
<1>7. CASE sets' = sets /\ UNCHANGED <<fresh, at>>
  BY <1>1, <1>7 DEF Target, Dumping
<1> QED
  BY <1>0, <1>2, <1>3, <1>4, <1>5, <1>6, <1>7 DEF SetMoves, Rests, WritesPg, WritesQd

MaintenanceInv == ScheduleInv /\ RowsInv /\ Target

(* The account of the target holds before the first backup.                *)
LEMMA InitTarget == Init => Target
<1> SUFFICES ASSUME Init PROVE Target
  OBVIOUS
<1>1. sets = <<>> /\ fresh = FALSE /\ at = "idle"
  BY DEF Init
<1>2. <<>> \in Seq(Set) /\ Len(<<>>) <= MaxSets
  BY MaintenanceAssumption
<1>3. ~fresh /\ fresh \in BOOLEAN
  BY <1>1
<1> QED
  BY <1>1, <1>2, <1>3 DEF Target, Dumping

(* The schedule, the rows and the target keep their accounts together, for *)
(* any retention, plane and schedule.                                      *)
THEOREM TargetAgrees == Spec => []MaintenanceInv
<1>1. Init => MaintenanceInv
  BY InitSchedule, InitRows, InitTarget DEF MaintenanceInv
<1>2. MaintenanceInv /\ [Next]_vars => MaintenanceInv'
  BY StepSchedule, StepRows, StepTarget DEF MaintenanceInv, ScheduleInv
<1> QED
  BY <1>1, <1>2, PTL DEF Spec

(* A step that loses the last good set is a second run of its own day that *)
(* tears or writes over it: neither pruning nor a restart ever does (the   *)
(* arguments are what makes a set good, and the step).                     *)
LEMMA OnlyRerunLoses ==
  ASSUME Target, Target', SetMoves, NEW Good \in SUBSET Set,
         \A set \in Set : set \in Good => set # Empty,
         \A part \in {"good", sets[1].qd} :
           at = "qdrant" => [sets[1] EXCEPT !.qd = part] \in Good,
         \E i \in DOMAIN sets : sets[i] \in Good,
         ~\E i \in DOMAIN sets' : sets'[i] \in Good
  PROVE  at \in {"pg", "qdrant"} /\ sets[1] \in Good /\ Len(sets') = Len(sets)
<1>1. PICK i \in DOMAIN sets : sets[i] \in Good
  OBVIOUS
<1>2. sets \in Seq(Set) /\ sets # <<>> /\ 1 \in DOMAIN sets /\ sets[1] \in Set
  BY <1>1 DEF Target
<1>3. ~Begins
  <2> SUFFICES ASSUME Begins PROVE FALSE
    OBVIOUS
  <2>1. PICK j \in DOMAIN Dated : Dated[j] = sets[i]
    BY DatedSets
  <2> QED
    BY <1>1, <2>1 DEF Begins
<1>4. sets' # sets
  BY <1>1
<1>5. ASSUME Prunes PROVE FALSE
  <2>0. PICK part \in {"good", sets[1].qd} :
          \E left : sets' \in Pruned(Snapshot(part), left)
    BY <1>5 DEF Prunes
  <2>1. PICK left : sets' \in Pruned(Snapshot(part), left)
    BY <2>0
  <2>2. part \in Parts
    BY <1>2 DEF Set, Parts
  <2> DEFINE t == Snapshot(part)
  <2>3. t \in Seq(Set) /\ t # <<>> /\ t[1] = [sets[1] EXCEPT !.qd = part]
    <3>1. 1 \in DOMAIN sets /\ Len(sets) \in Nat \ {0}
      BY <1>2
    <3>2. t \in Seq(Set) /\ Len(t) = Len(sets)
      BY <1>2, <2>2, Rewritten DEF Snapshot
    <3>3. t[1] = [sets[1] EXCEPT !.qd = part]
      BY <1>2 DEF Snapshot
    <3> QED
      BY <3>1, <3>2, <3>3
  <2> HIDE DEF t
  <2>4. t[1] \in Good
    BY <1>5, <2>1, <2>3 DEF Prunes
  <2>5. sets' # <<>> /\ sets'[1] = t[1] /\ sets' \in Seq(Set)
    BY <2>1, <2>3, <2>4, PrunedSets DEF t
  <2>6. 1 \in DOMAIN sets'
    BY <2>5
  <2> QED
    BY <2>4, <2>5, <2>6
<1>6. ASSUME NEW part \in {"torn", "good"}, WritesPg(part)
      PROVE  sets[1] \in Good /\ Len(sets') = Len(sets)
  <2>1. part \in Parts
    BY <1>2 DEF Set, Parts
  <2>2. /\ DOMAIN sets' = DOMAIN sets /\ Len(sets') = Len(sets)
        /\ \A k \in DOMAIN sets \ {1} : sets'[k] = sets[k]
    BY <1>2, <1>6, <2>1, Rewritten DEF WritesPg
  <2> QED
    BY <1>1, <2>2
<1>7. ASSUME NEW part \in {"torn", sets[1].qd}, WritesQd(part)
      PROVE  sets[1] \in Good /\ Len(sets') = Len(sets)
  <2>1. part \in Parts
    BY <1>2 DEF Set, Parts
  <2>2. /\ DOMAIN sets' = DOMAIN sets /\ Len(sets') = Len(sets)
        /\ \A k \in DOMAIN sets \ {1} : sets'[k] = sets[k]
    BY <1>2, <1>7, <2>1, Rewritten DEF WritesQd, Snapshot
  <2> QED
    BY <1>1, <2>2
<1> QED
  BY <1>3, <1>4, <1>5, <1>6, <1>7 DEF SetMoves, WritesPg, WritesQd

(* DumpKept holds for any retention: a good dump is lost to a second run of *)
(* its own day only, not to pruning, a torn file or a restart.             *)
THEOREM DumpStays == Spec => DumpKept
<1> DEFINE Kept == Dumped(sets) /\ ~Dumped(sets') =>
                     at \in {"pg", "qdrant"} /\ sets[1].pg = "good" /\ Len(sets') = Len(sets)
<1>1. MaintenanceInv /\ MaintenanceInv' /\ [Next]_vars => [Kept]_vars
  <2> SUFFICES ASSUME MaintenanceInv, MaintenanceInv', [Next]_vars, Dumped(sets), ~Dumped(sets')
               PROVE  at \in {"pg", "qdrant"} /\ sets[1].pg = "good" /\ Len(sets') = Len(sets)
    OBVIOUS
  <2> DEFINE Good == {set \in Set : set.pg = "good"}
  <2>1. Target /\ Target' /\ SetMoves
    BY StepSets DEF MaintenanceInv, ScheduleInv
  <2>2. \A set \in Set : set \in Good => set # Empty
    BY DEF Empty
  <2>3. ASSUME NEW part \in {"good", sets[1].qd}, at = "qdrant"
        PROVE  [sets[1] EXCEPT !.qd = part] \in Good
    <3>1. sets[1] \in Set /\ sets[1].pg = "good"
      <4>1. sets # <<>> /\ sets \in Seq(Set) /\ sets[1].pg = "good"
        BY <2>1, <2>3 DEF Target, Dumping
      <4> QED
        BY <4>1
    <3>2. part \in Parts
      BY <3>1 DEF Set, Parts
    <3> QED
      BY <3>1, <3>2 DEF Set
  <2>4. \A i \in DOMAIN sets : sets[i] \in Set
    BY <2>1 DEF Target
  <2>5. \A i \in DOMAIN sets' : sets'[i] \in Set
    BY <2>1 DEF Target
  <2>6. \E i \in DOMAIN sets : sets[i] \in Good
    BY <2>4 DEF Dumped
  <2>7. ~\E i \in DOMAIN sets' : sets'[i] \in Good
    BY <2>5 DEF Dumped
  <2> HIDE DEF Good
  <2>8. at \in {"pg", "qdrant"} /\ sets[1] \in Good /\ Len(sets') = Len(sets)
    <3>1. Good \in SUBSET Set
      BY DEF Good
    <3> QED
      BY <2>1, <2>2, <2>3, <2>6, <2>7, <3>1, OnlyRerunLoses
  <2> QED
    BY <2>8 DEF Good
<1> QED
  BY <1>1, TargetAgrees, PTL DEF Spec, DumpKept
-----------------------------------------------------------------------------
(* The rest of the types: ages stop at the bound the sweeps rest on, and   *)
(* sweeps in a row are missed no oftener than the model lets them.         *)
Bounded ==
  /\ health \subseteq 0 .. AgeBound
  /\ events \subseteq [ts : 0 .. AgeBound, at : 0 .. AgeBound]
  /\ misses \in 0 .. MaxMisses

(* Every step keeps the ages and the misses within their bounds.           *)
LEMMA StepBounded ==
  ASSUME RowsInv, Bounded, [Next]_vars
  PROVE  Bounded'
<1>0. AgeBound \in Nat /\ MaxMisses \in Nat /\ misses \in 0 .. MaxMisses
  BY MaintenanceAssumption DEF AgeBound, Bounded
<1> DEFINE Times == 0 .. AgeBound
<1>1. \A rows \in SUBSET {record_event, BackupFailed} :
        Write(rows) => events' \subseteq [ts : Times, at : Times]
  <2> SUFFICES ASSUME NEW rows \in SUBSET {record_event, BackupFailed}, Write(rows)
               PROVE  events' \subseteq [ts : Times, at : Times]
    OBVIOUS
  <2>1. events' = events \/ \E row \in rows : events' = {row}
    BY DEF Write, Watched
  <2>2. {record_event, BackupFailed} \subseteq [ts : Times, at : Times]
    BY <1>0 DEF record_event, BackupFailed, Row
  <2> QED
    BY <2>1, <2>2 DEF Bounded
<1>2. CASE UNCHANGED vars
  BY <1>2 DEF vars, retention, Bounded
<1>3. CASE Round
  <2>1. health' \in Watched(health, {0}) /\ misses' = misses
    BY <1>3 DEF Round
  <2>2. health' \subseteq Times
    BY <1>0, <2>1 DEF Watched, Bounded
  <2>3. \E rows \in SUBSET {record_event, BackupFailed} : Write(rows)
    <3>1. PICK told \in {Quiet, {record_event}} :
            Write(told) \/ Write(told \cup {BackupFailed})
      BY <1>3 DEF Round
    <3>2. told \in SUBSET {record_event, BackupFailed}
          /\ told \cup {BackupFailed} \in SUBSET {record_event, BackupFailed}
      BY DEF Quiet
    <3> QED
      BY <3>1, <3>2
  <2> QED
    BY <1>1, <2>1, <2>2, <2>3 DEF Bounded
<1>4. CASE SweepHealth
  <2>1. health' \subseteq health /\ events' = events /\ misses' \in 0 .. MaxMisses
    BY <1>0, <1>4 DEF SweepHealth, retention
  <2> QED
    BY <2>1 DEF Bounded
<1>5. CASE SweepEvent
  <2>1. health' = health /\ events' \subseteq events /\ misses' \in 0 .. MaxMisses
    BY <1>0, <1>5 DEF SweepEvent
  <2> QED
    BY <2>1 DEF Bounded
<1>6. CASE ManualBackup \/ PgDump \/ Qdrant
  <2>1. UNCHANGED retention
    BY <1>6 DEF ManualBackup, PgDump, Qdrant
  <2>2. UNCHANGED events \/ \E rows \in SUBSET {record_event, BackupFailed} : Write(rows)
    <3>1. {BackupFailed} \in SUBSET {record_event, BackupFailed}
      OBVIOUS
    <3> QED
      BY <1>6, <3>1, OutcomeRows DEF ManualBackup, Refuse, PgDump, PgDumped, PgFails, Qdrant,
                                     QdrantDone, QdrantFails
  <2>3. events' \subseteq [ts : Times, at : Times]
    BY <1>1, <2>2 DEF Bounded
  <2> QED
    BY <2>1, <2>3 DEF Bounded, retention
<1>7. CASE Elapse
  <2>1. /\ health' = {Bump(age, AgeBound) : age \in health}
        /\ events' = {AgedRow(row) : row \in events} /\ misses' = misses
    BY <1>7 DEF Elapse
  <2>2. \A n \in Times : Bump(n, AgeBound) \in Times
    BY <1>0 DEF Bump
  <2>3. health' \subseteq Times
    BY <2>1, <2>2 DEF Bounded
  <2>4. \A row \in [ts : Times, at : Times] : AgedRow(row) \in [ts : Times, at : Times]
    BY <2>2 DEF AgedRow
  <2>5. events' \subseteq [ts : Times, at : Times]
    BY <2>1, <2>4 DEF Bounded
  <2> QED
    BY <2>1, <2>3, <2>5 DEF Bounded
<1>8. CASE EditEnv
  BY <1>8 DEF EditEnv, retention, Bounded
<1>9. CASE DaemonRestart
  <2>1. UNCHANGED <<health, events>> /\ misses' \in 0 .. MaxMisses
    BY <1>0, <1>9 DEF DaemonRestart
  <2> QED
    BY <2>1 DEF Bounded
<1> QED
  BY <1>2, <1>3, <1>4, <1>5, <1>6, <1>7, <1>8, <1>9 DEF Next

(* Every variable stays in its type, the listing of the target and the     *)
(* ages of the rows included.                                              *)
THEOREM TypeCorrect == Spec => []TypeOK
<1>1. Init => Bounded
  BY MaintenanceAssumption DEF Init, Bounded
<1>2. MaintenanceInv /\ Bounded /\ [Next]_vars => Bounded'
  BY StepBounded DEF MaintenanceInv
<1>3. MaintenanceInv /\ Bounded => TypeOK
  BY DEF MaintenanceInv, ScheduleInv, Flags, Clocks, RowsInv, RowTypes, Target, Set, Bounded, TypeOK
<1> QED
  BY <1>1, <1>2, <1>3, TargetAgrees, PTL DEF Spec
=============================================================================
