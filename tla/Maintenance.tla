----------------------------- MODULE Maintenance -----------------------------
(***************************************************************************)
(* What the daemon does beside supervising: the scheduled and the manual   *)
(* backup (backup.rs) and the retention sweep of history.db (store.rs),    *)
(* both run from the tick under the core lock (supervisor/mod.rs).  The    *)
(* commands of a backup fail, write half a file, or never return because   *)
(* the daemon dies; the schedules must survive all of it.                  *)
(*                                                                         *)
(* Times are ages.  A round carries one timestamp, so time stands still    *)
(* while it runs; one unit of time is at least as long as the gap between  *)
(* two rounds.                                                             *)
(***************************************************************************)
EXTENDS Integers, FiniteSets, SequencesExt

CONSTANTS
  Schedule,       \* backup_schedule_sec
  PruneSchedule,  \* prune_schedule_sec
  Retain,         \* history_retention_days
  Retention,      \* backup_retention
  Native,         \* compose is off, as by default
  MaxSets,        \* bound: names on the backup target
  MaxMisses       \* bound: sweeps in a row that fail

Never == -1

ASSUME MaintenanceAssumption ==
  /\ Schedule \in Nat \ {0} /\ PruneSchedule \in Nat \ {0} /\ Retain \in Nat \ {0}
  /\ Retention \in Nat
  /\ Native \in BOOLEAN
  /\ MaxSets \in Nat \ {0} /\ MaxMisses \in Nat

VARIABLES
  at,           \* where the holder of the core lock stands
  manual,       \* the backup at work was asked for by a client
  last_backup,  \* age of last_backup_ts, Never for 0
  last_prune,   \* age of last_prune_ts, Never for 0
  target,       \* FUSION_BACKUP_TARGET is set
  sets,         \* backup sets on the target, newest first
  fresh,        \* the first of them bears today's date
  health,       \* the watched row of health_check, if any: its age
  events,       \* that of event: its age as stamped, and since it was written
  ticked,       \* the round of this unit of time has begun
  waited,       \* history: time with a target and no attempt
  attempted,    \* history: age of this daemon's last scheduled attempt
  misses        \* history: sweeps that failed since one succeeded

backup == <<manual, last_backup, sets, fresh, waited, attempted>>
retention == <<last_prune, health, misses>>
vars == <<at, target, ticked, events, backup, retention>>

AgeBound == Retain + (MaxMisses + 1) * PruneSchedule
Row(ts) == [ts |-> ts, at |-> 0]
Bump(n, bound) == IF n < bound THEN n + 1 ELSE n
Older(age, bound) == IF age = Never THEN Never ELSE Bump(age, bound)
-----------------------------------------------------------------------------
(* The history.  Rows live and die by their own age alone, so one watched  *)
(* row stands for any of them: whatever is written while none is watched   *)
(* may be the one.  An alert goes through the event sink   *)
(* with the timestamp it carries; that of a failed backup is zero, as old  *)
(* as a row can be.                                                        *)

record_event == Row(0)

(* Fault: the alert reads the clock anew, ahead of the round's timestamp. *)
BackupFailed_ahead == Row(0 - 1)

BackupFailed == Row(AgeBound)

Quiet == {}
Outcome(ok) == IF ok THEN {record_event} ELSE {record_event, BackupFailed}

Watched(table, rows) ==
  {table} \cup (IF health = {} /\ events = {} THEN {{row} : row \in rows} ELSE {})

Write(rows) == events' \in Watched(events, rows)
-----------------------------------------------------------------------------
(* One backup.  A set is written under the date of its run: the postgres   *)
(* dump first, then qdrant; a second run of the same day writes over it.   *)
(* On the compose plane no backup gets beyond the dump: real_exec drops    *)
(* the first word of its command, so docker always refuses it.             *)

Parts == {"none", "torn", "good"}
Empty == [pg |-> "none", qd |-> "none"]

Dated == IF fresh THEN sets ELSE <<Empty>> \o sets

(* Fault: a backup that failed leaves last_backup_ts alone. *)
Finish_failure_unstamped(ok) ==
  /\ last_backup' = IF ok THEN 0 ELSE last_backup
  /\ at' = IF manual THEN "idle" ELSE "sweep"
  /\ UNCHANGED manual

(* run_backup stamps a success, check_backup_schedule a failure as well. *)
Finish(ok) ==
  /\ last_backup' = IF ok \/ ~manual THEN 0 ELSE last_backup
  /\ at' = IF manual THEN "idle" ELSE "sweep"
  /\ UNCHANGED manual

BeginRun(by_client) ==
  /\ manual' = by_client
  /\ waited' = 0
  /\ attempted' = IF by_client THEN attempted ELSE 0
  /\ Len(Dated) <= MaxSets
  /\ sets' = Dated
  /\ fresh' = TRUE
  /\ at' = "pg"
  /\ UNCHANGED last_backup

(* Files are listed by their dates; those past the newest Retention go,    *)
(* each with the qdrant directory of its date.  A removal that fails       *)
(* leaves its part behind and is not made up for.                          *)
PgFiles(s) == {i \in DOMAIN s : s[i].pg # "none"}
Newer(s, i) == {j \in PgFiles(s) : j < i}
Surplus(s) == IF Retention = 0 THEN {}
              ELSE {i \in PgFiles(s) : Cardinality(Newer(s, i)) >= Retention}

Remains(s, left) ==
  [i \in DOMAIN s |->
     IF i \notin Surplus(s) THEN s[i]
     ELSE [pg |-> IF <<i, "pg">> \in left THEN s[i].pg ELSE "none",
           qd |-> IF <<i, "qd">> \in left THEN s[i].qd ELSE "none"]]

(* The one way to name the members of a set of positions in their order.   *)
InOrder(S) == {f \in [1 .. Cardinality(S) -> S] :
                 Range(f) = S /\ \A i, j \in DOMAIN f : i < j => f[i] < f[j]}

(* What is on the target then: the sets of which anything is left.         *)
Listings(r) == {[k \in DOMAIN f |-> r[f[k]]] : f \in InOrder({i \in DOMAIN r : r[i] # Empty})}
Pruned(s, left) == Listings(Remains(s, left))

PgDumped == /\ Native
            /\ sets' = [sets EXCEPT ![1].pg = "good"]
            /\ at' = "qdrant"
            /\ Write(Outcome(TRUE))
            /\ UNCHANGED <<manual, last_backup>>

(* pg_dumpall fails before the file is created, or the write fails after,  *)
(* as it does when the daemon dies over it.                                *)
PgLeft == {sets} \cup (IF Native THEN {[sets EXCEPT ![1].pg = "torn"]} ELSE {})

(* Fault: old sets are pruned although the dump has failed. *)
PgFails_prunes == /\ sets' \in UNION {IF s[1] = Empty THEN {s} ELSE Pruned(s, {}) : s \in PgLeft}
                  /\ Write(Outcome(FALSE))
                  /\ Finish(FALSE)

PgFails == /\ sets' \in PgLeft
           /\ Write(Outcome(FALSE))
           /\ Finish(FALSE)

PgDump ==
  /\ at = "pg"
  /\ PgDumped \/ PgFails
  /\ UNCHANGED <<fresh, waited, attempted, target, ticked, retention>>

Snapshot(part) == [sets EXCEPT ![1].qd = part]

(* The tar fails before storage.tar is written, or the write fails. *)
QdrantFails ==
  /\ \E part \in {"torn", sets[1].qd} : sets' = Snapshot(part)
  /\ Write(Outcome(FALSE))
  /\ Finish(FALSE)

(* A missing container is no error, and leaves what an earlier run of the  *)
(* day left of its snapshot, torn or not.                                  *)
QdrantDone ==
  /\ \E part \in {"good", sets[1].qd} :
     \E left \in SUBSET (Surplus(sets) \X {"pg", "qd"}) :
       sets' \in Pruned(Snapshot(part), left)
  /\ Write(Outcome(TRUE))
  /\ Finish(TRUE)

Qdrant ==
  /\ at = "qdrant"
  /\ QdrantDone \/ QdrantFails
  /\ UNCHANGED <<fresh, waited, attempted, target, ticked, retention>>

(* The target cannot be made: refused with an alert, like an unset one. *)
Refuse == /\ Write({BackupFailed})
          /\ UNCHANGED <<sets, fresh>>

ManualBackup ==
  /\ at = "idle"
  /\ \/ target /\ BeginRun(TRUE) /\ UNCHANGED events
     \/ Refuse /\ UNCHANGED <<at, manual, last_backup, waited, attempted>>
  /\ UNCHANGED <<target, ticked, retention>>
-----------------------------------------------------------------------------
(* The round. *)

(* Fault: only a daemon that has just started finds anything due. *)
backup_due_latched(age, schedule) == age = Never

backup_due(age, schedule) == age = Never \/ age >= schedule

(* tick_all writes a health row of every service, and events when it has   *)
(* something to tell; then the backup is due or not.                       *)
CheckBackup ==
  \/ /\ ~backup_due(last_backup, Schedule)
     /\ at' = "sweep"
     /\ UNCHANGED backup
  \/ /\ backup_due(last_backup, Schedule)
     /\ ~target
     /\ at' = "sweep"
     /\ last_backup' = 0
     /\ UNCHANGED <<manual, sets, fresh, waited, attempted>>
  \/ /\ backup_due(last_backup, Schedule)
     /\ target
     /\ BeginRun(FALSE)

CheckBackupRefused ==
  /\ backup_due(last_backup, Schedule)
  /\ target
  /\ at' = "sweep"
  /\ last_backup' = 0
  /\ waited' = 0
  /\ attempted' = 0
  /\ UNCHANGED <<manual, sets, fresh>>

Round ==
  /\ at = "idle"
  /\ ~ticked
  /\ ticked' = TRUE
  /\ health' \in Watched(health, {0})
  /\ \E told \in {Quiet, {record_event}} :
       \/ CheckBackup /\ Write(told)
       \/ CheckBackupRefused /\ Write(told \cup {BackupFailed})
  /\ UNCHANGED <<target, last_prune, misses>>

(* Fault: rows on the day they expire stay. *)
Expired_strictly(age) == age > Retain

Expired(age) == age >= Retain

(* cleanup_old: health_check first, then event; either statement may fail, *)
(* and the next sweep is a whole schedule away in any case.                *)
SweepHealth ==
  /\ at = "sweep"
  /\ \/ /\ ~backup_due(last_prune, PruneSchedule)
        /\ at' = "idle"
        /\ UNCHANGED retention
     \/ /\ backup_due(last_prune, PruneSchedule)
        /\ at' = "sweep_event"
        /\ health' = {age \in health : ~Expired(age)}
        /\ UNCHANGED <<last_prune, misses>>
     \/ /\ backup_due(last_prune, PruneSchedule)
        /\ misses < MaxMisses
        /\ at' = "idle"
        /\ last_prune' = 0
        /\ misses' = misses + 1
        /\ UNCHANGED health
  /\ UNCHANGED <<target, ticked, events, backup>>

SweepEvent ==
  /\ at = "sweep_event"
  /\ at' = "idle"
  /\ last_prune' = 0
  /\ \/ /\ events' = {row \in events : ~Expired(row.ts)}
        /\ misses' = 0
     \/ /\ misses < MaxMisses
        /\ misses' = misses + 1
        /\ UNCHANGED events
  /\ UNCHANGED <<target, ticked, health, backup>>
-----------------------------------------------------------------------------
(* Time, the operator, and the daemon's end. *)

AgedRow(row) == [ts |-> Bump(row.ts, AgeBound), at |-> Bump(row.at, AgeBound)]

(* A day may end with any unit of time. *)
Elapse ==
  /\ at = "idle"
  /\ ticked
  /\ ticked' = FALSE
  /\ last_backup' = Older(last_backup, Schedule)
  /\ last_prune' = Older(last_prune, PruneSchedule)
  /\ health' = {Bump(age, AgeBound) : age \in health}
  /\ events' = {AgedRow(row) : row \in events}
  /\ waited' = IF target THEN Bump(waited, Schedule + 1) ELSE 0
  /\ attempted' = Older(attempted, Schedule)
  /\ fresh' \in {fresh, FALSE}
  /\ UNCHANGED <<at, manual, sets, target, misses>>

(* .env is read at every check, so the target comes and goes. *)
EditEnv == /\ at = "idle"
           /\ target' = ~target
           /\ waited' = 0
           /\ UNCHANGED <<at, ticked, events, manual, last_backup, sets, fresh,
                          attempted, retention>>

(* Killed at any step: what is on disk stays, a file at work may be torn.  *)
(* The new daemon starts both schedules from nothing.                      *)
DaemonRestart ==
  /\ sets' \in CASE at = "pg" -> PgLeft
                 [] at = "qdrant" -> {sets, Snapshot("torn")}
                 [] OTHER -> {sets}
  /\ IF at = "sweep_event" THEN misses < MaxMisses /\ misses' = misses + 1
                           ELSE misses' = misses
  /\ at' = "idle"
  /\ manual' = FALSE
  /\ last_backup' = Never
  /\ last_prune' = Never
  /\ attempted' = Never
  /\ ticked' = FALSE
  /\ UNCHANGED <<target, fresh, health, events, waited>>

Init ==
  /\ at = "idle"
  /\ manual = FALSE
  /\ last_backup = Never
  /\ last_prune = Never
  /\ target \in BOOLEAN
  /\ sets = <<>>
  /\ fresh = FALSE
  /\ health = {}
  /\ events = {}
  /\ ticked = FALSE
  /\ waited = 0
  /\ attempted = Never
  /\ misses = 0

Next == \/ Round \/ SweepHealth \/ SweepEvent
        \/ ManualBackup \/ PgDump \/ Qdrant
        \/ Elapse \/ EditEnv \/ DaemonRestart

Spec == Init /\ [][Next]_vars
-----------------------------------------------------------------------------
(* Properties. *)

(* Every variable stays in its type.                                       *)
TypeOK ==
  /\ at \in {"idle", "pg", "qdrant", "sweep", "sweep_event"}
  /\ manual \in BOOLEAN /\ target \in BOOLEAN /\ fresh \in BOOLEAN /\ ticked \in BOOLEAN
  /\ last_backup \in 0 .. Schedule \cup {Never}
  /\ last_prune \in 0 .. PruneSchedule \cup {Never}
  /\ sets \in Seq([pg : Parts, qd : Parts]) /\ Len(sets) <= MaxSets
  /\ health \subseteq 0 .. AgeBound
  /\ events \subseteq [ts : 0 .. AgeBound, at : 0 .. AgeBound]
  /\ waited \in 0 .. Schedule + 1
  /\ attempted \in 0 .. Schedule \cup {Never}
  /\ misses \in 0 .. MaxMisses

(* Once there is a good postgres dump there is always one, through failing *)
(* dumps, torn files, removals that fail and a daemon that dies: the last  *)
(* one is only lost to a second run of its own day, which writes over it   *)
(* (BackupRunner::run against prune_old).  Of the qdrant snapshot beside   *)
(* it that is not so: a run without a container succeeds over the torn one *)
(* of an earlier run of its day, and prunes the rest (backup.rs:308-326).  *)
Dumped(s) == \E i \in DOMAIN s : s[i].pg = "good"
DumpKept ==
  [][Dumped(sets) /\ ~Dumped(sets') =>
       at \in {"pg", "qdrant"} /\ sets[1].pg = "good" /\ Len(sets') = Len(sets)]_vars

(* A target that keeps failing is not tried by every round: one daemon's   *)
(* scheduled attempts are a schedule apart, whatever clients run between   *)
(* them (check_backup_schedule).                                           *)
NoRetryStorm ==
  [][attempted' = 0 /\ ticked' /\ ~ticked =>
       attempted = Never \/ attempted >= Schedule]_vars

(* A configured target is tried within one schedule, however long it was   *)
(* not configured and whatever failed or was restarted before.             *)
NotForgotten == waited <= Schedule

(* No row of either table outlives the retention by more than the sweeps   *)
(* that were missed, half-done sweeps and restarts included (check_        *)
(* retention, cleanup_old).                                                *)
HistoryBounded ==
  LET limit == Retain - 1 + (misses + 1) * PruneSchedule
  IN  (\A age \in health : age <= limit) /\ (\A row \in events : row.at <= limit)

(* README:137-138: the sweep prunes rows older than the retention, so the  *)
(* events answer what alerted last week.                                   *)
AlertsKept ==
  [][at = "sweep_event" => \A row \in events \ events' : row.at >= Retain]_vars
=============================================================================
