------------------------------- MODULE Launch -------------------------------
(***************************************************************************)
(* How the core starts and stops the processes of one service, on the      *)
(* plane of the operating system: the operations that hold the core lock   *)
(* (up_one, down_one, restart_one, rollout and a recovery of the tick,     *)
(* supervisor/mod.rs), the bash commands they wait for (start_map.rs), the *)
(* processes, the pidfile and the port, and the credential a new process   *)
(* is given (env_map.rs).                                                  *)
(*                                                                         *)
(* A command runs in a process group of its own and outlives a daemon that *)
(* is killed, so a second command may be at work beside the one the core   *)
(* waits for.  A start is a spawn first and a line in the pidfile later.   *)
(***************************************************************************)
EXTENDS Naturals, FiniteSetsExt, Sequences

CONSTANTS
  Pids,     \* process identifiers, used again after a process is gone
  NoPid

ASSUME LaunchAssumption == NoPid \notin Pids /\ IsFiniteSet(Pids)

VARIABLES
  service,   \* how the service is started, and how it comes by its key
  present,   \* the places that hold a value for the key
  proc,      \* the processes of the service
  pidfile,   \* ~/.fusion-sv/pids/<svc>.pid
  shell,     \* the command the core waits for, and one that was orphaned
  op,        \* the operation that holds the core lock
  step       \* how far it is

daemon == <<op, step>>
vars == <<service, present, proc, pidfile, shell, daemon>>

(* The tables.  One value of a service's environment is followed, its key: *)
(* inject, a key the core has to find and hand on; source, a dotenv file   *)
(* of the service; strip, a key the service finds by itself; audit, the    *)
(* key fusion-health signs its log with; connect, the connection string of *)
(* a database.                                                             *)
Keys == {"inject", "source", "strip", "audit", "connect"}
shell_vars == {"inject"}
required_vars == {"connect"}

(* A daemon service is started by commands the supervisor builds, the      *)
(* others by a script, which knows "restart" or does not.                  *)
start_spec_for(key) ==
  CASE key = "inject" -> {"daemon", "script"}
    [] key = "source" -> {"daemon"}
    [] OTHER          -> {"script"}

restart_cmd_for(spec, key) ==
  IF spec = "daemon" THEN {"stop+start"}
  ELSE IF key = "inject" THEN {"restart", "stop+start"} ELSE {"restart"}

(* compose in the configuration: off, on, or on while its file is missing, *)
(* and then there is no backend.                                           *)
build_compose(key) == IF key \in required_vars THEN {"off", "on", "no_file"} ELSE {"off"}

Services ==
  {s \in [spec : {"daemon", "script"}, restart : {"restart", "stop+start"}, key : Keys,
           compose : {"off", "on", "no_file"}] :
     /\ s.spec \in start_spec_for(s.key)
     /\ s.restart \in restart_cmd_for(s.spec, s.key)
     /\ s.compose \in build_compose(s.key)}

Places == {"snapshot", "file", "upstream"}
None == "none"
Operations == {"up", "down", "restart", "rollout", "recover"}
Steps == {"idle", "stop", "verify", "restop", "start", "prewarm", "ok", "failed"}

Absent == [st |-> "none", old |-> FALSE]
NoEnv == [key |-> None, db |-> None]
NoShell == [cmd |-> "none", at |-> "none", pid |-> NoPid, key |-> None, db |-> None, op |-> None]
Shell(cmd, at, env) ==
  [cmd |-> cmd, at |-> at, pid |-> NoPid, key |-> env.key, db |-> env.db, op |-> op']

Alive(p) == p \in Pids /\ proc[p].st # "none"
Listeners == {p \in Pids : proc[p].st = "listening"}
-----------------------------------------------------------------------------
(* The key.  A place stands for the value it holds: the environment the    *)
(* daemon was started with, the dotenv file, and the source the value      *)
(* comes from in the end (the gateway's config, the settings.json of the   *)
(* inference server, or a local database that lets anybody in).            *)

First(places) ==
  LET held == {i \in DOMAIN places : places[i] # None}
  IN  IF held = {} THEN None ELSE places[Min(held)]

Held(p) == IF p \in present THEN p ELSE None

shell_env_for == First(<<Held("snapshot"), Held("file"), Held("upstream")>>)
health_audit_key == Held("file")

(* Without a password the local database is tried, never the one of the    *)
(* compose plane, which asks for it; the two name the database otherwise.  *)
native_env_for(compose_on) ==
  First(<<Held("snapshot"), Held("file"), IF compose_on THEN None ELSE Held("upstream")>>)

pg_db_for(compose_on) == IF compose_on THEN "cowork" ELSE "fusion_cowork"

(* What the core hands to a command over the environment it passes on.     *)
resolve(compose_on) ==
  LET key == CASE service.key \in shell_vars    -> shell_env_for
               [] service.key \in required_vars -> native_env_for(compose_on)
               [] service.key = "audit"         -> health_audit_key
               [] OTHER                         -> None
  IN  [key |-> key,
       db |-> IF service.key \in required_vars /\ key # None
                THEN pg_db_for(compose_on) ELSE None]

(* up asks whether there is a backend, a restart whether there should be.  *)
compose_enabled == service.compose = "on"
cfg_enabled == service.compose # "off"

Refused ==
  /\ service.key \in shell_vars \/ (service.key \in required_vars /\ compose_enabled)
  /\ resolve(compose_enabled).key = None

(* Fault: the variables of the daemon's environment are not removed. *)
Inherited_unstripped == Held("snapshot")

(* A password in the environment makes no connection string. *)
Inherited == IF service.key \in {"strip", "connect"} THEN None ELSE Held("snapshot")

(* What the process ends up with: a sourced file writes over the           *)
(* environment, an override over what is inherited, and a service without  *)
(* any looks into its own settings.                                        *)
Carried(override) ==
  First(<<IF service.key = "source" THEN "file" ELSE None,
          override,
          Inherited,
          IF service.key = "strip" THEN Held("upstream") ELSE None>>)
-----------------------------------------------------------------------------
(* Processes.  A new one boots before it binds; the port is held by one    *)
(* process, and one that finds it taken dies.  A process may die at any    *)
(* time, by itself or of a TERM, and may also ignore the TERM.             *)

Died(p) == proc' = [proc EXCEPT ![p] = Absent]

ProcBinds(p) ==
  /\ proc[p].st = "booting"
  /\ IF Listeners = {} THEN proc' = [proc EXCEPT ![p].st = "listening"] ELSE Died(p)
  /\ UNCHANGED <<service, present, pidfile, shell, daemon>>

ProcDies(p) ==
  /\ Alive(p)
  /\ Died(p)
  /\ UNCHANGED <<service, present, pidfile, shell, daemon>>

Spawned(p) ==
  /\ proc[p].st = "none"
  /\ proc' = [proc EXCEPT ![p] = [st |-> "booting", old |-> FALSE]]
-----------------------------------------------------------------------------
(* The commands.  The core reads the exit status of its own one; nobody    *)
(* reads that of an orphan.                                                *)

Exits(s, status) ==
  shell' = [shell EXCEPT ![s] =
              IF s = "own" THEN [NoShell EXCEPT !.at = status] ELSE NoShell]

(* daemon_stop_cmd: TERM the process of the pidfile, wait, kill it, drop   *)
(* the pidfile; then the same for whoever listens on the port.             *)
StopReads(s) ==
  /\ shell[s].at = "pidfile"
  /\ shell' = [shell EXCEPT ![s].pid = pidfile, ![s].at = "wait"]
  /\ UNCHANGED <<service, present, proc, pidfile, daemon>>

(* Fault: the wait has no limit. *)
Waited_patiently(p) == ~Alive(p) /\ UNCHANGED proc

(* The wait is over when the process is gone, or it is killed. *)
Waited(p) == IF Alive(p) THEN Died(p) ELSE UNCHANGED proc

StopWaits(s) ==
  /\ shell[s].at = "wait"
  /\ Waited(shell[s].pid)
  /\ shell' = [shell EXCEPT ![s].at = "remove"]
  /\ UNCHANGED <<service, present, pidfile, daemon>>

StopRemoves(s) ==
  /\ shell[s].at = "remove"
  /\ pidfile' = NoPid
  /\ shell' = [shell EXCEPT ![s].pid = NoPid, ![s].at = "port"]
  /\ UNCHANGED <<service, present, proc, daemon>>

StopScans(s) ==
  /\ shell[s].at = "port"
  /\ \/ /\ Listeners = {}
        /\ Exits(s, "ok")
     \/ \E p \in Listeners : shell' = [shell EXCEPT ![s].pid = p, ![s].at = "waitport"]
  /\ UNCHANGED <<service, present, proc, pidfile, daemon>>

StopWaitsPort(s) ==
  /\ shell[s].at = "waitport"
  /\ Waited(shell[s].pid)
  /\ Exits(s, "ok")
  /\ UNCHANGED <<service, present, pidfile, daemon>>

(* daemon_start_cmd: a missing env_file, as a missing cwd, ends it before  *)
(* a spawn in the background; the pidfile is written after that.           *)
StartRefused(s) ==
  /\ shell[s].at = "spawn"
  /\ service.key = "source" /\ "file" \notin present
  /\ Exits(s, "failed")
  /\ UNCHANGED <<service, present, proc, pidfile, daemon>>

StartSpawns(s) ==
  /\ shell[s].at = "spawn"
  /\ service.key = "source" => "file" \in present
  /\ \E p \in Pids :
       /\ Spawned(p)
       /\ shell' = [shell EXCEPT ![s].pid = p, ![s].at = "note"]
  /\ UNCHANGED <<service, present, pidfile, daemon>>

StartNotes(s) ==
  /\ shell[s].at = "note"
  /\ pidfile' = shell[s].pid
  /\ Exits(s, "ok")
  /\ UNCHANGED <<service, present, proc, daemon>>

(* A script of the repository, external: it may start a process, and       *)
(* whatever it does it ends with either status, or never.                  *)
ScriptSpawns(s) ==
  /\ shell[s].at = "script" /\ shell[s].cmd \in {"start", "restart"}
  /\ \E p \in Pids : Spawned(p)
  /\ shell' = [shell EXCEPT ![s].at = "spawned"]
  /\ UNCHANGED <<service, present, pidfile, daemon>>

ScriptEnds(s, status) ==
  /\ shell[s].at \in {"script", "spawned"}
  /\ Exits(s, status)
  /\ UNCHANGED <<service, present, proc, pidfile, daemon>>

Command(s) ==
  \/ StopReads(s) \/ StopWaits(s) \/ StopRemoves(s) \/ StopScans(s) \/ StopWaitsPort(s)
  \/ StartRefused(s) \/ StartSpawns(s) \/ StartNotes(s)
-----------------------------------------------------------------------------
(* The core.  exec_start_spec builds the command of a StartSpec::Daemon    *)
(* service; any other goes to exec_bash_script.                            *)

Run(cmd, env) ==
  shell' = [shell EXCEPT !["own"] =
    Shell(cmd, IF service.spec = "script" THEN "script"
               ELSE IF cmd = "stop" THEN "pidfile" ELSE "spawn", env)]

(* What an operation finds: the listener of the port and, unless a command *)
(* of an earlier daemon is still at work on it, the process of the         *)
(* pidfile.                                                                *)
Found(p) ==
  \/ p \in Listeners
  \/ Alive(p) /\ p = pidfile /\ shell["stray"] = NoShell /\ service.spec = "daemon"

Begins(o) ==
  /\ step = "idle"
  /\ op' = o
  /\ proc' = [p \in Pids |-> [proc[p] EXCEPT !.old = Found(p)]]
  /\ UNCHANGED <<service, present, pidfile>>

(* up starts nothing while the port answers, and nothing without its key. *)
BeginUp ==
  /\ Begins("up")
  /\ IF Listeners # {} THEN step' = "ok" /\ UNCHANGED shell
     ELSE IF Refused THEN step' = "failed" /\ UNCHANGED shell
       ELSE step' = "start" /\ Run("start", resolve(compose_enabled))

BeginDown ==
  /\ Begins("down")
  /\ step' = "stop"
  /\ Run("stop", NoEnv)

(* A service whose script knows "restart" is restarted by one command. *)
InvokeStart ==
  IF service.restart = "stop+start"
    THEN step' = "restop" /\ Run("stop", resolve(cfg_enabled))
    ELSE step' = "start" /\ Run("restart", resolve(cfg_enabled))

BeginRecover ==
  /\ Begins("recover")
  /\ InvokeStart

(* Fault: the old process is not stopped first. *)
BeginReplace_unstopped(o) ==
  /\ Begins(o)
  /\ step' = "start"
  /\ Run("start", resolve(cfg_enabled))

BeginReplace(o) ==
  /\ Begins(o)
  /\ step' = "stop"
  /\ Run("stop", NoEnv)

Begin ==
  \/ BeginUp \/ BeginDown \/ BeginRecover
  \/ \E o \in {"restart", "rollout"} : BeginReplace(o)

Returned == shell["own"].at \in {"ok", "failed"}
Done == shell' = [shell EXCEPT !["own"] = NoShell]

(* stop_and_verify goes on whatever the command said; only the port tells. *)
Stopped ==
  /\ step = "stop" /\ Returned
  /\ step' = (IF op = "down" THEN "ok" ELSE "verify")
  /\ Done
  /\ UNCHANGED <<service, present, proc, pidfile, op>>

Verify ==
  /\ step = "verify"
  /\ IF Listeners = {} THEN UNCHANGED op /\ InvokeStart
     ELSE step' = "failed" /\ UNCHANGED <<op, shell>>
  /\ UNCHANGED <<service, present, proc, pidfile>>

Restopped ==
  /\ step = "restop" /\ Returned
  /\ UNCHANGED op
  /\ IF shell["own"].at = "ok" THEN step' = "start" /\ Run("start", resolve(cfg_enabled))
     ELSE step' = "failed" /\ Done
  /\ UNCHANGED <<service, present, proc, pidfile>>

(* Fault: the command is started and not waited for. *)
Started_unwaited ==
  /\ step = "start"
  /\ step' = (IF op = "rollout" THEN "prewarm" ELSE "ok")
  /\ UNCHANGED <<service, present, proc, pidfile, shell, op>>

Started ==
  /\ step = "start" /\ Returned
  /\ step' = (IF shell["own"].at = "failed" THEN "failed"
              ELSE IF op = "rollout" THEN "prewarm" ELSE "ok")
  /\ Done
  /\ UNCHANGED <<service, present, proc, pidfile, op>>

(* The budget of the prewarm ends it as well. *)
Prewarm(health) ==
  /\ step = "prewarm"
  /\ health => Listeners # {}
  /\ step' = (IF health THEN "ok" ELSE "failed")
  /\ UNCHANGED <<service, present, proc, pidfile, shell, op>>

Unlock ==
  /\ step \in {"ok", "failed"}
  /\ step' = "idle" /\ op' = None
  /\ proc' = [p \in Pids |-> [proc[p] EXCEPT !.old = FALSE]]
  /\ UNCHANGED <<service, present, pidfile, shell>>

Core ==
  \/ Stopped \/ Verify \/ Restopped \/ Started
  \/ \E health \in BOOLEAN : Prewarm(health)
  \/ Unlock
-----------------------------------------------------------------------------
(* The files may be edited at any time.  A daemon that is killed leaves    *)
(* its command behind, and the next one starts with an environment of its  *)
(* own.  One orphan at a time is followed.                                 *)

Edited(p) == IF p \in present THEN present \ {p} ELSE present \cup {p}

EditFile ==
  /\ \E p \in {"file", "upstream"} : present' = Edited(p)
  /\ UNCHANGED <<service, proc, pidfile, shell, daemon>>

DaemonRestart ==
  /\ shell["own"].cmd = "none" \/ shell["stray"] = NoShell
  /\ shell' = [own |-> NoShell,
               stray |-> IF shell["own"].cmd = "none" THEN shell["stray"] ELSE shell["own"]]
  /\ present' \in {present, Edited("snapshot")}
  /\ op' = None /\ step' = "idle"
  /\ proc' = [p \in Pids |-> [proc[p] EXCEPT !.old = FALSE]]
  /\ UNCHANGED <<service, pidfile>>

Init ==
  /\ service \in Services
  /\ present \in SUBSET Places
  /\ proc = [p \in Pids |-> Absent]
  /\ pidfile = NoPid
  /\ shell = [s \in {"own", "stray"} |-> NoShell]
  /\ op = None /\ step = "idle"

Next ==
  \/ Begin \/ Core
  \/ \E s \in {"own", "stray"} :
       \/ Command(s)
       \/ ScriptSpawns(s)
       \/ \E status \in {"ok", "failed"} : ScriptEnds(s, status)
  \/ \E p \in Pids : ProcBinds(p) \/ ProcDies(p)
  \/ EditFile \/ DaemonRestart

Spec == Init /\ [][Next]_vars
-----------------------------------------------------------------------------
(* Each variable keeps to its values, the core waits for a command exactly *)
(* when its step says so, and an operation is named while the lock is      *)
(* held.                                                                   *)
TypeOK ==
  /\ service \in Services /\ present \subseteq Places
  /\ proc \in [Pids -> [st : {"none", "booting", "listening"}, old : BOOLEAN]]
  /\ pidfile \in Pids \cup {NoPid}
  /\ op \in Operations \cup {None} /\ step \in Steps
  /\ \A s \in DOMAIN shell :
       /\ shell[s].key \in Places \cup {None}
       /\ shell[s].db # None => service.key \in required_vars /\ shell[s].key # None
  /\ Cardinality(Listeners) <= 1
  /\ (step = "idle") = (op = None)
  /\ (shell["own"] # NoShell) = (step \in {"stop", "restop", "start"})

(* Issue #96 (mod.rs 532): a restart or a rollout that answers ok, and a   *)
(* down of a service the supervisor starts itself, leave alive neither the *)
(* process that listened when the operation began nor the one the pidfile  *)
(* named, whether it ignores TERM, is missing from the pidfile, or the     *)
(* script that should have stopped it failed.                              *)
Replaced ==
  step = "ok" /\ (op \in {"restart", "rollout"} \/ (op = "down" /\ service.spec = "daemon"))
    => \A p \in Pids : ~proc[p].old

Spawns(s) ==
  /\ shell[s].at \in {"spawn", "script"}
  /\ \E p \in Pids : ~Alive(p) /\ proc'[p].st = "booting"
  /\ shell'[s].at \in {"note", "spawned"}

(* The environment the daemon was started with grows stale (issues #39,    *)
(* #45, #49): it never reaches a service that has its key from its own     *)
(* settings or its own dotenv file, nor replaces the audit key that was    *)
(* found in its file (issue #101), through any operation, any restart of   *)
(* the daemon and any command left over from one; and a start that an      *)
(* operator asked for never goes ahead without a key that must be          *)
(* injected, nor to the compose plane's database without its password      *)
(* (env_map.rs 3 and 148, fail-closed).                                    *)
RightKey ==
  [][\A s \in {"own", "stray"} : Spawns(s) =>
       LET key == Carried(shell[s].key)
       IN  /\ service.key = "strip" => key \in {"upstream", None}
           /\ service.key = "source" => key = "file"
           /\ service.key = "audit" /\ shell[s].key # None => key = "file"
           /\ service.key = "inject" /\ shell[s].op = "up" => key # None
           /\ service.compose = "on" /\ shell[s].op = "up" => key \in {"snapshot", "file"}]_vars

(* "the same as up_native and up_one, or a service that is restarted after *)
(* a crash silently falls back to SQLite" (mod.rs 104, issue #78): the     *)
(* command of a restart is handed the connection that up would hand it at  *)
(* that moment, the database of the same plane.                            *)
SameDatabase ==
  [][LET own == shell'["own"]
     IN  own.op \notin {"up", None} /\ own.at \in {"spawn", "script"} /\ own.cmd # "stop"
           /\ shell["own"].at \notin {"spawn", "script"}
           => [key |-> own.key, db |-> own.db] = resolve(compose_enabled)]_vars

(* An operation on a service the supervisor starts itself can always go    *)
(* on, the core by itself or its command by itself: no process that        *)
(* ignores TERM or never answers, no orphaned command and no edited file   *)
(* keeps it, and the core lock with it, waiting (the bounded waits of      *)
(* start_map.rs 487 and mod.rs 553).  The system always has an identifier  *)
(* for one more process; the instance may run out of them.                 *)
NeverBlocked ==
  service.spec = "daemon" /\ step # "idle" /\ (\E p \in Pids : ~Alive(p))
    => ENABLED (Core \/ Command("own"))
=============================================================================
