---------------------------- MODULE LaunchProofs ----------------------------
(***************************************************************************)
(* What the operations on one service leave behind, for any set of process *)
(* identifiers: of processes (Replaced) and of credentials (RightKey).     *)
(***************************************************************************)
EXTENDS Launch, FiniteSetTheorems, TLAPS

(* The first place that holds a value, of three and of four.               *)
LEMMA FirstOfThree ==
  ASSUME NEW a, NEW b, NEW c
  PROVE  First(<<a, b, c>>) = IF a # None THEN a ELSE IF b # None THEN b ELSE c
<1> DEFINE s == <<a, b, c>>
           held == {i \in DOMAIN s : s[i] # None}
<1>1. DOMAIN s = {1, 2, 3} /\ s[1] = a /\ s[2] = b /\ s[3] = c
  OBVIOUS
<1>2. First(s) = IF held = {} THEN None ELSE s[Min(held)]
  BY DEF First
<1>3. \A k \in held : (\A j \in held : k <= j) => Min(held) = k
  <2> SUFFICES ASSUME NEW k \in held, \A j \in held : k <= j PROVE Min(held) = k
    OBVIOUS
  <2>1. \A i \in held : i \in {1, 2, 3}
    BY <1>1
  <2> HIDE DEF held
  <2>2. Min(held) \in held /\ \A j \in held : Min(held) <= j
    BY DEF Min
  <2> QED
    BY <2>1, <2>2
<1>4. CASE a # None
  BY <1>1, <1>2, <1>3, <1>4
<1>5. CASE a = None /\ b # None
  BY <1>1, <1>2, <1>3, <1>5
<1>6. CASE a = None /\ b = None /\ c # None
  BY <1>1, <1>2, <1>3, <1>6
<1>7. CASE a = None /\ b = None /\ c = None
  BY <1>1, <1>2, <1>7
<1> QED
  BY <1>4, <1>5, <1>6, <1>7

(* So it is of four.                                                       *)
LEMMA FirstOfFour ==
  ASSUME NEW a, NEW b, NEW c, NEW d
  PROVE  First(<<a, b, c, d>>) =
           IF a # None THEN a ELSE IF b # None THEN b ELSE IF c # None THEN c ELSE d
<1> DEFINE s == <<a, b, c, d>>
           held == {i \in DOMAIN s : s[i] # None}
<1>1. DOMAIN s = {1, 2, 3, 4} /\ s[1] = a /\ s[2] = b /\ s[3] = c /\ s[4] = d
  OBVIOUS
<1>2. First(s) = IF held = {} THEN None ELSE s[Min(held)]
  BY DEF First
<1>3. \A k \in held : (\A j \in held : k <= j) => Min(held) = k
  <2> SUFFICES ASSUME NEW k \in held, \A j \in held : k <= j PROVE Min(held) = k
    OBVIOUS
  <2>1. \A i \in held : i \in {1, 2, 3, 4}
    BY <1>1
  <2> HIDE DEF held
  <2>2. Min(held) \in held /\ \A j \in held : Min(held) <= j
    BY DEF Min
  <2> QED
    BY <2>1, <2>2
<1>4. CASE a # None
  BY <1>1, <1>2, <1>3, <1>4
<1>5. CASE a = None /\ b # None
  BY <1>1, <1>2, <1>3, <1>5
<1>6. CASE a = None /\ b = None /\ c # None
  BY <1>1, <1>2, <1>3, <1>6
<1>7. CASE a = None /\ b = None /\ c = None /\ d # None
  BY <1>1, <1>2, <1>3, <1>7
<1>8. CASE a = None /\ b = None /\ c = None /\ d = None
  BY <1>1, <1>2, <1>8
<1> QED
  BY <1>4, <1>5, <1>6, <1>7, <1>8
-----------------------------------------------------------------------------
(* The inductive invariant.                                                *)

Shells == [cmd : {"none", "start", "stop", "restart"},
           at : {"none", "pidfile", "wait", "remove", "port", "waitport", "spawn", "note",
                 "script", "spawned", "ok", "failed"},
           pid : Pids \cup {NoPid},
           key : Places \cup {None},
           db : {None, "cowork", "fusion_cowork"},
           op : Operations \cup {None}]

Typed ==
  /\ service \in Services /\ present \subseteq Places
  /\ proc \in [Pids -> [st : {"none", "booting", "listening"}, old : BOOLEAN]]
  /\ pidfile \in Pids \cup {NoPid}
  /\ shell \in [{"own", "stray"} -> Shells]
  /\ op \in Operations \cup {None} /\ step \in Steps
  /\ (step = "idle") = (op = None)

OneListener == \A p, q \in Listeners : p = q

(* How far a command can be: the supervisor's own stop, its own start, or  *)
(* a script; and that the exit status of an orphan is nobody's.            *)
CommandAt(sh) ==
  /\ sh.cmd = "none" => sh.at \in {"none", "ok", "failed"}
  /\ sh.cmd = "stop" =>
       sh.at \in IF service.spec = "script" THEN {"script"}
                 ELSE {"pidfile", "wait", "remove", "port", "waitport"}
  /\ sh.cmd \in {"start", "restart"} =>
       sh.at \in IF service.spec = "script" THEN {"script", "spawned"} ELSE {"spawn", "note"}

CommandsKept ==
  /\ \A s \in {"own", "stray"} : /\ CommandAt(shell[s])
                                 /\ shell[s].at = "none" => shell[s] = NoShell
  /\ shell["stray"].at \notin {"ok", "failed"}
  /\ (shell["own"].at # "none") = (step \in {"stop", "restop", "start"})
  /\ step \in {"stop", "restop"} => shell["own"].cmd \in {"stop", "none"}
  /\ step = "start" => shell["own"].cmd # "stop"
  /\ step \in {"stop", "restop"} /\ service.spec = "daemon" => shell["own"].at # "failed"

(* What a stop command that has come so far has left of the processes      *)
(* that were found: those it is still going to see.                        *)
NoneOld == \A p \in Pids : ~proc[p].old
Seen(p) ==
  LET own == shell["own"]
  IN  CASE own.at = "pidfile"            -> \/ p \in Listeners
                                            \/ p = pidfile /\ shell["stray"] = NoShell
        [] own.at = "wait"               -> p \in Listeners \/ p = own.pid
        [] own.at \in {"remove", "port"} -> p \in Listeners
        [] own.at = "waitport"           -> p = own.pid
        [] own.at = "ok"                 -> step \notin {"stop", "restop"}
        [] OTHER                         -> TRUE

OldSeen ==
  \A p \in Pids : proc[p].old =>
    /\ Alive(p)
    /\ service.spec = "script" => p \in Listeners
    /\ service.spec = "daemon" => Seen(p)

OldGone ==
  /\ step = "verify" /\ service.spec = "daemon" => NoneOld
  /\ step \in {"restop", "start", "prewarm", "ok"} /\ op \in {"restart", "rollout"} => NoneOld
  /\ step = "ok" /\ op = "down" /\ service.spec = "daemon" => NoneOld

(* Which operation comes by a step.                                        *)
OpAt ==
  /\ step = "stop" => op \in {"down", "restart", "rollout"}
  /\ step = "verify" => op \in {"restart", "rollout"}
  /\ step = "restop" => op \in {"restart", "rollout", "recover"}
  /\ step \in {"start", "prewarm"} => op # "down"

(* The key a command was handed.                                           *)
Handed(sh) ==
  /\ sh.db # None => service.key \in required_vars /\ sh.key # None
  /\ service.key \in {"strip", "source"} => sh.key = None
  /\ service.key = "audit" => sh.key \in {"file", None}
  /\ sh.op = "up" /\ service.key = "inject" => sh.key # None
  /\ sh.op = "up" /\ service.compose = "on" => sh.key \in {"snapshot", "file"}

KeysHanded == \A s \in {"own", "stray"} : Handed(shell[s])

IInv == Typed /\ OneListener /\ CommandsKept /\ OldSeen /\ OldGone /\ OpAt /\ KeysHanded
-----------------------------------------------------------------------------
(* Facts of the tables.                                                    *)
LEMMA ServiceFacts ==
  ASSUME Typed
  PROVE  /\ service.spec \in {"daemon", "script"} /\ service.key \in Keys
         /\ service.compose \in {"off", "on", "no_file"}
         /\ service.spec = "daemon" => service.restart = "stop+start"
         /\ service.spec = "daemon" => service.key \in {"inject", "source"}
         /\ service.key = "source" => service.spec = "daemon"
         /\ service.compose # "off" => service.key = "connect"
<1>1. /\ service.spec \in {"daemon", "script"} /\ service.key \in Keys
      /\ service.spec \in start_spec_for(service.key)
      /\ service.restart \in restart_cmd_for(service.spec, service.key)
      /\ service.compose \in build_compose(service.key)
  BY DEF Typed, Services
<1>2. service.spec = "daemon" => service.restart = "stop+start"
  BY <1>1 DEF restart_cmd_for
<1>3. /\ service.key \notin {"inject", "source"} => start_spec_for(service.key) = {"script"}
      /\ service.key = "source" => start_spec_for(service.key) = {"daemon"}
  BY DEF start_spec_for
<1>4. build_compose(service.key) = IF service.key = "connect" THEN {"off", "on", "no_file"}
                                   ELSE {"off"}
  BY DEF build_compose, required_vars
<1> QED
  BY <1>1, <1>2, <1>3, <1>4

(* What resolve hands on, by the kind of key.                              *)
LEMMA Resolved ==
  ASSUME Typed, NEW on \in BOOLEAN
  PROVE  /\ resolve(on).key \in Places \cup {None}
         /\ resolve(on).db \in {None, "cowork", "fusion_cowork"}
         /\ resolve(on).db # None => service.key \in required_vars /\ resolve(on).key # None
         /\ service.key \in {"strip", "source"} => resolve(on).key = None
         /\ service.key = "audit" => resolve(on).key \in {"file", None}
         /\ service.key = "connect" /\ on => resolve(on).key \in {"snapshot", "file", None}
<1>1. \A p \in Places : Held(p) \in {p, None}
  BY DEF Held
<1>2. shell_env_for \in Places \cup {None}
  BY <1>1, FirstOfThree DEF shell_env_for, Places
<1>3. native_env_for(on) \in Places \cup {None}
      /\ (on => native_env_for(on) \in {"snapshot", "file", None})
  BY <1>1, FirstOfThree DEF native_env_for, Places
<1>4. health_audit_key \in {"file", None}
  BY <1>1 DEF health_audit_key, Places
<1>5. service.key \in {"inject", "source", "strip", "audit", "connect"}
  BY ServiceFacts DEF Keys
<1>6. pg_db_for(on) \in {"cowork", "fusion_cowork"}
  BY DEF pg_db_for
<1>7. resolve(on).key = CASE service.key = "inject" -> shell_env_for
                          [] service.key = "connect" -> native_env_for(on)
                          [] service.key = "audit" -> health_audit_key
                          [] OTHER -> None
  BY <1>5 DEF resolve, shell_vars, required_vars
<1>8. resolve(on).db = IF service.key = "connect" /\ resolve(on).key # None
                         THEN pg_db_for(on) ELSE None
  BY <1>5, <1>7 DEF resolve, required_vars
<1> HIDE DEF resolve
<1> QED
  BY <1>2, <1>3, <1>4, <1>5, <1>6, <1>7, <1>8 DEF Places, None, required_vars

(* A command as it begins.                                                 *)
LEMMA Begun ==
  ASSUME Typed, NEW cmd \in {"start", "stop", "restart"}, NEW env, op' \in Operations,
         env.key \in Places \cup {None}, env.db \in {None, "cowork", "fusion_cowork"},
         Run(cmd, env)
  PROVE  /\ shell' \in [{"own", "stray"} -> Shells]
         /\ shell'["stray"] = shell["stray"]
         /\ shell'["own"].cmd = cmd /\ shell'["own"].op = op'
         /\ shell'["own"].key = env.key /\ shell'["own"].db = env.db
         /\ shell'["own"].at = (IF service.spec = "script" THEN "script"
                                ELSE IF cmd = "stop" THEN "pidfile" ELSE "spawn")
<1> DEFINE at == IF service.spec = "script" THEN "script"
                 ELSE IF cmd = "stop" THEN "pidfile" ELSE "spawn"
           sh == [cmd |-> cmd, at |-> at, pid |-> NoPid, key |-> env.key, db |-> env.db,
                  op |-> op']
<1>1. shell' = [shell EXCEPT !["own"] = sh] /\ shell \in [{"own", "stray"} -> Shells]
  BY DEF Run, Typed, Shell
<1>2. at \in {"script", "pidfile", "spawn"}
  OBVIOUS
<1>3. sh \in Shells
  BY <1>2 DEF Shells
<1>4. sh.cmd = cmd /\ sh.op = op' /\ sh.key = env.key /\ sh.db = env.db /\ sh.at = at
  OBVIOUS
<1> HIDE DEF sh
<1>5. shell'["own"] = sh /\ shell'["stray"] = shell["stray"]
      /\ shell' \in [{"own", "stray"} -> Shells]
  BY <1>1, <1>3
<1> QED
  BY <1>4, <1>5
-----------------------------------------------------------------------------
(* The steps of a command: what each does to it, to the pidfile and to the *)
(* processes.                                                              *)
Only(s) == shell' = [shell EXCEPT ![s] = shell'[s]] /\ UNCHANGED <<service, present, daemon>>
Kept(s) == /\ shell'[s].cmd = shell[s].cmd /\ shell'[s].key = shell[s].key
           /\ shell'[s].db = shell[s].db /\ shell'[s].op = shell[s].op

Ended(s, status) ==
  shell'[s] = IF s = "own" THEN [NoShell EXCEPT !.at = status] ELSE NoShell

(* A command that is none, or has just returned, was handed nothing.       *)
LEMMA NoShellType ==
  /\ NoShell \in Shells /\ NoShell.cmd = "none" /\ NoShell.at = "none"
  /\ NoShell.key = None /\ NoShell.db = None /\ NoShell.op = None
  /\ \A status \in {"ok", "failed"} :
       LET sh == [NoShell EXCEPT !.at = status]
       IN  /\ sh \in Shells /\ sh.cmd = "none" /\ sh.at = status
           /\ sh.key = None /\ sh.db = None /\ sh.op = None
BY DEF NoShell, Shells, None, Operations, Places

(* A command that exits leaves its status, an orphan nothing.              *)
LEMMA ExitsMoves ==
  ASSUME Typed, NEW s \in {"own", "stray"}, NEW status \in {"ok", "failed"}, Exits(s, status)
  PROVE  shell' = [shell EXCEPT ![s] = shell'[s]] /\ Ended(s, status)
BY DEF Exits, Ended, Typed

(* A command that goes on to its next line keeps what it was handed.       *)
LEMMA PidAtMoves ==
  ASSUME Typed, NEW s \in {"own", "stray"}, NEW p \in Pids \cup {NoPid}, NEW a,
         a \in {"wait", "remove", "port", "waitport", "note", "spawned"},
         shell' = [shell EXCEPT ![s].pid = p, ![s].at = a]
  PROVE  /\ shell' = [shell EXCEPT ![s] = shell'[s]] /\ Kept(s)
         /\ shell'[s] \in Shells /\ shell'[s].at = a /\ shell'[s].pid = p
<1>1. shell[s] \in Shells /\ shell \in [{"own", "stray"} -> Shells]
  BY DEF Typed
<1> DEFINE sh == [shell[s] EXCEPT !.pid = p, !.at = a]
<1>2. sh \in Shells /\ sh.at = a /\ sh.pid = p /\ sh.cmd = shell[s].cmd /\ sh.key = shell[s].key
      /\ sh.db = shell[s].db /\ sh.op = shell[s].op
  BY <1>1 DEF Shells
<1>3. shell' = [shell EXCEPT ![s] = sh]
  BY <1>1
<1> HIDE DEF sh
<1> QED
  BY <1>1, <1>2, <1>3 DEF Kept

(* So does one that keeps the process it looks at.                         *)
LEMMA AtMoves ==
  ASSUME Typed, NEW s \in {"own", "stray"}, NEW a,
         a \in {"wait", "remove", "port", "waitport", "note", "spawned"},
         shell' = [shell EXCEPT ![s].at = a]
  PROVE  /\ shell' = [shell EXCEPT ![s] = shell'[s]] /\ Kept(s)
         /\ shell'[s] \in Shells /\ shell'[s].at = a
<1>1. shell[s] \in Shells /\ shell \in [{"own", "stray"} -> Shells]
  BY DEF Typed
<1>2. PICK p \in Pids \cup {NoPid} : p = shell[s].pid
  BY <1>1 DEF Shells
<1>3. shell' = [shell EXCEPT ![s].pid = p, ![s].at = a]
  BY <1>1, <1>2 DEF Shells
<1> QED
  BY <1>3, PidAtMoves

(* Stop reads the pidfile.                                                 *)
LEMMA Reads ==
  ASSUME Typed, NEW s \in {"own", "stray"}, StopReads(s)
  PROVE  /\ Only(s) /\ Kept(s) /\ UNCHANGED <<proc, pidfile>>
         /\ shell[s].at = "pidfile" /\ shell'[s].at = "wait"
         /\ shell'[s].pid = pidfile /\ shell'[s] \in Shells
<1>1. pidfile \in Pids \cup {NoPid}
  BY DEF Typed
<1> QED
  BY <1>1, PidAtMoves DEF StopReads, Only

(* Stop waits for the process of the pidfile, or kills it.                 *)
LEMMA Waits ==
  ASSUME Typed, NEW s \in {"own", "stray"}, StopWaits(s)
  PROVE  /\ Only(s) /\ Kept(s) /\ UNCHANGED pidfile
         /\ shell[s].at = "wait" /\ shell'[s].at = "remove"
         /\ Waited(shell[s].pid) /\ shell'[s] \in Shells
BY AtMoves DEF StopWaits, Only

(* Stop removes the pidfile.                                               *)
LEMMA Removes ==
  ASSUME Typed, NEW s \in {"own", "stray"}, StopRemoves(s)
  PROVE  /\ Only(s) /\ Kept(s) /\ UNCHANGED proc
         /\ shell[s].at = "remove" /\ shell'[s].at = "port"
         /\ pidfile' = NoPid /\ shell'[s] \in Shells
BY PidAtMoves DEF StopRemoves, Only

(* Stop looks for the listener of the port.                                *)
LEMMA Scans ==
  ASSUME Typed, NEW s \in {"own", "stray"}, StopScans(s)
  PROVE  /\ Only(s) /\ UNCHANGED <<proc, pidfile>>
         /\ shell[s].at = "port"
         /\ \/ Listeners = {} /\ Ended(s, "ok")
            \/ /\ Kept(s) /\ shell'[s].at = "waitport"
               /\ shell'[s].pid \in Listeners /\ shell'[s] \in Shells
<1>1. UNCHANGED <<service, present, proc, pidfile, daemon>> /\ shell[s].at = "port"
  BY DEF StopScans
<1>2. CASE Listeners = {} /\ Exits(s, "ok")
  BY <1>1, <1>2, ExitsMoves DEF Only
<1>3. ASSUME NEW p \in Listeners, shell' = [shell EXCEPT ![s].pid = p, ![s].at = "waitport"]
      PROVE  /\ Only(s) /\ Kept(s) /\ shell'[s].at = "waitport"
             /\ shell'[s].pid \in Listeners /\ shell'[s] \in Shells
  <2>1. p \in Pids
    BY DEF Listeners
  <2> QED
    BY <1>1, <1>3, <2>1, PidAtMoves DEF Only
<1> QED
  BY <1>1, <1>2, <1>3 DEF StopScans

(* Stop waits for that listener, or kills it.                              *)
LEMMA WaitsPort ==
  ASSUME Typed, NEW s \in {"own", "stray"}, StopWaitsPort(s)
  PROVE  /\ Only(s) /\ UNCHANGED pidfile
         /\ shell[s].at = "waitport"
         /\ Waited(shell[s].pid) /\ Ended(s, "ok")
BY ExitsMoves DEF StopWaitsPort, Only

(* A start is refused when its env_file is missing.                        *)
LEMMA Refuses ==
  ASSUME Typed, NEW s \in {"own", "stray"}, StartRefused(s)
  PROVE  /\ Only(s) /\ UNCHANGED <<proc, pidfile>>
         /\ shell[s].at = "spawn" /\ Ended(s, "failed")
BY ExitsMoves DEF StartRefused, Only

(* Start spawns a process.                                                 *)
LEMMA SpawnMoves ==
  ASSUME Typed, NEW s \in {"own", "stray"}, StartSpawns(s)
  PROVE  /\ Only(s) /\ Kept(s) /\ UNCHANGED pidfile
         /\ shell[s].at = "spawn" /\ shell'[s].at = "note"
         /\ (\E p \in Pids : Spawned(p)) /\ shell'[s] \in Shells
<1>1. PICK p \in Pids : Spawned(p) /\ shell' = [shell EXCEPT ![s].pid = p, ![s].at = "note"]
  BY DEF StartSpawns
<1> QED
  BY <1>1, PidAtMoves DEF StartSpawns, Only

(* Start writes the pidfile.                                               *)
LEMMA Notes ==
  ASSUME Typed, NEW s \in {"own", "stray"}, StartNotes(s)
  PROVE  /\ Only(s) /\ UNCHANGED proc /\ shell[s].at = "note" /\ Ended(s, "ok")
         /\ pidfile' \in Pids \cup {NoPid}
<1>1. shell[s].pid \in Pids \cup {NoPid}
  BY DEF Typed, Shells
<1> QED
  BY <1>1, ExitsMoves DEF StartNotes, Only

(* A script may spawn a process.                                           *)
LEMMA ScriptMoves ==
  ASSUME Typed, NEW s \in {"own", "stray"}, ScriptSpawns(s)
  PROVE  /\ Only(s) /\ Kept(s) /\ UNCHANGED pidfile
         /\ shell[s].at = "script" /\ shell'[s].at = "spawned"
         /\ shell[s].cmd \in {"start", "restart"}
         /\ (\E p \in Pids : Spawned(p)) /\ shell'[s] \in Shells
BY AtMoves DEF ScriptSpawns, Only

(* A script ends as it likes.                                              *)
LEMMA ScriptReturns ==
  ASSUME Typed, NEW s \in {"own", "stray"}, NEW status \in {"ok", "failed"},
         ScriptEnds(s, status)
  PROVE  /\ Only(s) /\ UNCHANGED <<proc, pidfile>>
         /\ shell[s].at \in {"script", "spawned"} /\ Ended(s, status)
BY ExitsMoves DEF ScriptEnds, Only
-----------------------------------------------------------------------------
(* What a step may do to the processes: nothing is found old that was not, *)
(* and of those nothing stops listening that still lives.                  *)
Shrinks ==
  \A p \in Pids : proc'[p].old =>
    /\ proc[p].old
    /\ Alive(p) => Alive(p)'
    /\ p \in Listeners => p \in Listeners'

ProcTyped == proc \in [Pids -> [st : {"none", "booting", "listening"}, old : BOOLEAN]]
ProcKept == ProcTyped' /\ OneListener' /\ Shrinks

(* A process that dies is no longer an old one.                            *)
LEMMA DiedKeeps ==
  ASSUME ProcTyped, OneListener, NEW q \in Pids, Died(q)
  PROVE  ProcKept /\ ~proc'[q].old
BY DEF ProcTyped, OneListener, Died, Absent, Shrinks, Alive, Listeners, ProcKept

(* A process that is spawned is a new one.                                 *)
LEMMA SpawnedKeeps ==
  ASSUME ProcTyped, OneListener, NEW q \in Pids, Spawned(q)
  PROVE  ProcKept
BY DEF ProcTyped, OneListener, Spawned, Shrinks, Alive, Listeners, ProcKept

(* A process that binds the free port, or dies of a taken one, is not an   *)
(* old one that stops listening alive.                                     *)
LEMMA BindsKeeps ==
  ASSUME ProcTyped, OneListener, NEW q \in Pids, ProcBinds(q)
  PROVE  ProcKept
<1>1. CASE Listeners = {}
  <2>1. proc' = [proc EXCEPT ![q].st = "listening"]
    BY <1>1 DEF ProcBinds
  <2> QED
    BY <1>1, <2>1 DEF ProcTyped, OneListener, Shrinks, Alive, Listeners, ProcKept
<1>2. CASE Listeners # {}
  BY <1>2, DiedKeeps DEF ProcBinds
<1> QED
  BY <1>1, <1>2

(* A step without processes moves no listener.                             *)
LEMMA UnchangedKeeps ==
  ASSUME ProcTyped, OneListener, UNCHANGED proc
  PROVE  ProcKept /\ Listeners' = Listeners /\ \A p : Alive(p)' = Alive(p)
BY DEF ProcTyped, OneListener, Shrinks, Alive, Listeners, ProcKept

(* A process that was waited for is gone.                                  *)
LEMMA WaitedKeeps ==
  ASSUME ProcTyped, OneListener, NEW q, Waited(q),
         \A p \in Pids : proc[p].old => Alive(p)
  PROVE  ProcKept /\ \A p \in Pids : proc'[p].old => p # q
<1>1. CASE Alive(q)
  BY <1>1, DiedKeeps DEF Waited, Alive
<1>2. CASE ~Alive(q)
  BY <1>2, UnchangedKeeps DEF Waited
<1> QED
  BY <1>1, <1>2

(* All are forgotten, or those that are found are the old ones.            *)
LEMMA MarkedKeeps ==
  ASSUME ProcTyped, OneListener, NEW mark \in [Pids -> BOOLEAN],
         proc' = [p \in Pids |-> [proc[p] EXCEPT !.old = mark[p]]]
  PROVE  /\ ProcTyped' /\ OneListener' /\ Listeners' = Listeners
         /\ \A p \in Pids : proc'[p].old = mark[p] /\ proc'[p].st = proc[p].st
BY DEF ProcTyped, OneListener, Listeners

(* A finished operation forgets what it found.                             *)
LEMMA ForgottenKeeps ==
  ASSUME ProcTyped, OneListener,
         proc' = [p \in Pids |-> [proc[p] EXCEPT !.old = FALSE]]
  PROVE  ProcTyped' /\ OneListener' /\ NoneOld'
<1> DEFINE mark == [p \in Pids |-> FALSE]
<1>1. mark \in [Pids -> BOOLEAN]
      /\ proc' = [p \in Pids |-> [proc[p] EXCEPT !.old = mark[p]]]
  OBVIOUS
<1>2. \A p \in Pids : ~mark[p]
  OBVIOUS
<1> HIDE DEF mark
<1> QED
  BY <1>1, <1>2, MarkedKeeps DEF NoneOld

(* A new operation notes what it can find.                                 *)
LEMMA FoundKeeps ==
  ASSUME ProcTyped, OneListener,
         proc' = [p \in Pids |-> [proc[p] EXCEPT !.old = Found(p)]]
  PROVE  /\ ProcTyped' /\ OneListener' /\ Listeners' = Listeners
         /\ \A p \in Pids : proc'[p].old = Found(p) /\ proc'[p].st = proc[p].st
<1> DEFINE mark == [p \in Pids |-> Found(p)]
<1>1. mark \in [Pids -> BOOLEAN]
      /\ proc' = [p \in Pids |-> [proc[p] EXCEPT !.old = mark[p]]]
  BY DEF Found
<1>2. \A p \in Pids : mark[p] = Found(p)
  OBVIOUS
<1> HIDE DEF mark
<1> QED
  BY <1>1, <1>2, MarkedKeeps
-----------------------------------------------------------------------------
(* A step of a command.                                                    *)
ShellStep(s) ==
  \/ Command(s)
  \/ ScriptSpawns(s)
  \/ \E status \in {"ok", "failed"} : ScriptEnds(s, status)

Was(s, at) == shell[s].at = at
Goes(s, from, to) == Was(s, from) /\ Kept(s) /\ shell'[s].at = to
Returns(s, from, status) == shell[s].at \in from /\ Ended(s, status)

(* Every step of a command, by what the invariants need to know of it.     *)
LEMMA ShellMoves ==
  ASSUME Typed, OneListener, NEW s \in {"own", "stray"}, ShellStep(s),
         \A p \in Pids : proc[p].old => Alive(p)
  PROVE  /\ Only(s) /\ shell'[s] \in Shells /\ ProcKept
         /\ pidfile' \in Pids \cup {NoPid}
         /\ \/ Goes(s, "pidfile", "wait") /\ shell'[s].pid = pidfile /\ UNCHANGED <<proc, pidfile>>
            \/ /\ Goes(s, "wait", "remove") /\ UNCHANGED pidfile
               /\ \A p \in Pids : proc'[p].old => p # shell[s].pid
            \/ Goes(s, "remove", "port") /\ UNCHANGED proc
            \/ /\ Goes(s, "port", "waitport") /\ shell'[s].pid \in Listeners
               /\ UNCHANGED <<proc, pidfile>>
            \/ Returns(s, {"port"}, "ok") /\ Listeners = {} /\ UNCHANGED <<proc, pidfile>>
            \/ /\ Returns(s, {"waitport"}, "ok") /\ UNCHANGED pidfile
               /\ \A p \in Pids : proc'[p].old => p # shell[s].pid
            \/ Returns(s, {"spawn"}, "failed") /\ UNCHANGED pidfile
            \/ Goes(s, "spawn", "note") /\ UNCHANGED pidfile
            \/ Returns(s, {"note"}, "ok")
            \/ /\ Goes(s, "script", "spawned") /\ shell[s].cmd \in {"start", "restart"}
               /\ UNCHANGED pidfile
            \/ /\ \E status \in {"ok", "failed"} : Returns(s, {"script", "spawned"}, status)
               /\ UNCHANGED pidfile
<1>0. ProcTyped /\ pidfile \in Pids \cup {NoPid}
  BY DEF Typed, ProcTyped
<1>a. \A status \in {"ok", "failed"} : Ended(s, status) => shell'[s] \in Shells
  BY NoShellType DEF Ended
<1> USE DEF Goes, Was, Returns
<1>1. CASE StopReads(s)
  BY <1>0, <1>1, Reads, UnchangedKeeps
<1>2. CASE StopWaits(s)
  BY <1>0, <1>2, Waits, WaitedKeeps
<1>3. CASE StopRemoves(s)
  BY <1>0, <1>3, Removes, UnchangedKeeps
<1>4. CASE StopScans(s)
  BY <1>0, <1>a, <1>4, Scans, UnchangedKeeps
<1>5. CASE StopWaitsPort(s)
  BY <1>0, <1>a, <1>5, WaitsPort, WaitedKeeps
<1>6. CASE StartRefused(s)
  BY <1>0, <1>a, <1>6, Refuses, UnchangedKeeps
<1>7. CASE StartSpawns(s)
  BY <1>0, <1>7, SpawnMoves, SpawnedKeeps
<1>8. CASE StartNotes(s)
  BY <1>0, <1>a, <1>8, Notes, UnchangedKeeps
<1>9. CASE ScriptSpawns(s)
  BY <1>0, <1>9, ScriptMoves, SpawnedKeeps
<1>10. ASSUME NEW status \in {"ok", "failed"}, ScriptEnds(s, status)
       PROVE  /\ Only(s) /\ shell'[s] \in Shells /\ ProcKept
              /\ UNCHANGED pidfile /\ Returns(s, {"script", "spawned"}, status)
  BY <1>0, <1>a, <1>10, ScriptReturns, UnchangedKeeps
<1> QED
  BY <1>0, <1>1, <1>2, <1>3, <1>4, <1>5, <1>6, <1>7, <1>8, <1>9, <1>10 DEF ShellStep, Command

(* A line of a command keeps types, the one listener and the keys.         *)
LEMMA ShellTypes ==
  ASSUME IInv, NEW s \in {"own", "stray"}, ShellStep(s)
  PROVE  Typed' /\ OneListener' /\ OpAt' /\ KeysHanded'
<1>1. Only(s) /\ shell'[s] \in Shells /\ ProcKept /\ pidfile' \in Pids \cup {NoPid}
  BY ShellMoves DEF IInv, OldSeen
<1>2. shell' \in [{"own", "stray"} -> Shells]
      /\ \A q \in {"own", "stray"} : q # s => shell'[q] = shell[q]
  BY <1>1 DEF IInv, Typed, Only
<1>3. UNCHANGED <<service, present, op, step>>
  BY <1>1 DEF Only, daemon
<1>4. Typed'
  BY <1>1, <1>2, <1>3 DEF IInv, Typed, ProcKept, ProcTyped
<1>5. Kept(s) \/ \E status \in {"ok", "failed"} : Ended(s, status)
  BY ShellMoves DEF IInv, OldSeen, Goes, Returns
<1>6. Handed(shell[s]) /\ \A q \in {"own", "stray"} \ {s} : Handed(shell[q])
  BY DEF IInv, KeysHanded
<1>7. ASSUME Kept(s) PROVE KeysHanded'
  BY <1>2, <1>3, <1>6, <1>7 DEF Kept, KeysHanded, Handed
<1>8. ASSUME NEW status \in {"ok", "failed"}, Ended(s, status)
      PROVE  KeysHanded'
  <2>1. shell'[s].key = None /\ shell'[s].db = None /\ shell'[s].op = None
    BY <1>8, NoShellType DEF Ended
  <2> QED
    BY <1>2, <1>3, <1>6, <2>1 DEF KeysHanded, Handed, None
<1>9. OpAt'
  BY <1>3 DEF IInv, OpAt
<1> QED
  BY <1>1, <1>4, <1>5, <1>7, <1>8, <1>9 DEF ProcKept

(* A line of a command leads to a line of the same command.                *)
LEMMA ShellCommands ==
  ASSUME IInv, NEW s \in {"own", "stray"}, ShellStep(s)
  PROVE  CommandsKept'
<1>1. Only(s) /\ shell[s] \in Shells /\ shell \in [{"own", "stray"} -> Shells]
  BY ShellMoves DEF IInv, OldSeen, Typed
<1>2. \A q \in {"own", "stray"} : q # s => shell'[q] = shell[q]
  BY <1>1 DEF Only
<1>3. UNCHANGED <<service, step>>
  BY <1>1 DEF Only, daemon
<1>4. shell[s].cmd \in {"none", "start", "stop", "restart"} /\ service.spec \in {"daemon", "script"}
  BY <1>1, ServiceFacts DEF Shells, IInv
<1>5. CommandAt(shell[s]) /\ CommandsKept
  BY DEF IInv, CommandsKept
<1>6. CASE Kept(s) /\ Was(s, "script") /\ shell'[s].at = "spawned"
           /\ shell[s].cmd \in {"start", "restart"}
  <2>1. shell'[s].cmd = shell[s].cmd /\ shell[s].at = "script"
    BY <1>6 DEF Kept, Was
  <2>2. CommandAt(shell[s])'
    BY <1>3, <1>4, <1>5, <1>6, <2>1 DEF CommandAt
  <2> QED
    BY <1>2, <1>3, <1>5, <1>6, <2>1, <2>2 DEF CommandsKept, CommandAt
<1>7. ASSUME NEW from \in {"pidfile", "wait", "remove", "port", "spawn"},
             NEW to \in {"wait", "remove", "port", "waitport", "note"},
             Goes(s, from, to), (from = "spawn") = (to = "note")
      PROVE  CommandsKept'
  <2>1. shell'[s].cmd = shell[s].cmd /\ shell[s].at = from /\ shell'[s].at = to
    BY <1>7 DEF Kept, Was, Goes
  <2>2. CommandAt(shell[s])'
    BY <1>3, <1>4, <1>5, <1>7, <2>1 DEF CommandAt
  <2> QED
    BY <1>2, <1>3, <1>5, <1>7, <2>1, <2>2 DEF CommandsKept, CommandAt
<1>8. ASSUME NEW from \in {"port", "waitport", "spawn", "note", "script", "spawned"},
             NEW status \in {"ok", "failed"}, shell[s].at = from, Ended(s, status),
             status = "failed" => from \in {"spawn", "script", "spawned"}
      PROVE  CommandsKept'
  <2>1. CASE s = "own"
    <3>1. shell'[s].cmd = "none" /\ shell'[s].at = status
      BY <1>8, <2>1, NoShellType DEF Ended
    <3>2. CommandAt(shell[s])'
      BY <1>8, <3>1 DEF CommandAt
    <3>3. status = "failed" /\ service.spec = "daemon" => step \notin {"stop", "restop"}
      BY <1>4, <1>5, <1>8, <2>1 DEF CommandAt, CommandsKept
    <3> QED
      BY <1>2, <1>3, <1>5, <1>8, <2>1, <3>1, <3>2, <3>3 DEF CommandsKept, CommandAt
  <2>2. CASE s = "stray"
    <3>1. shell'[s] = NoShell
      BY <1>8, <2>2 DEF Ended
    <3>2. shell'[s].cmd = "none" /\ shell'[s].at = "none"
      BY <3>1, NoShellType
    <3>3. CommandAt(shell[s])'
      BY <1>8, <3>2 DEF CommandAt
    <3> QED
      BY <1>2, <1>3, <1>5, <1>8, <2>2, <3>1, <3>2, <3>3 DEF CommandsKept, CommandAt
  <2> QED
    BY <2>1, <2>2
<1>9. \/ Goes(s, "pidfile", "wait") \/ Goes(s, "wait", "remove") \/ Goes(s, "remove", "port")
      \/ Goes(s, "port", "waitport") \/ Goes(s, "spawn", "note")
      \/ Goes(s, "script", "spawned") /\ shell[s].cmd \in {"start", "restart"}
      \/ Returns(s, {"port"}, "ok") \/ Returns(s, {"waitport"}, "ok") \/ Returns(s, {"note"}, "ok")
      \/ Returns(s, {"spawn"}, "failed")
      \/ \E status \in {"ok", "failed"} : Returns(s, {"script", "spawned"}, status)
  BY ShellMoves DEF IInv, OldSeen
<1>10. CASE \/ Goes(s, "pidfile", "wait") \/ Goes(s, "wait", "remove") \/ Goes(s, "remove", "port")
            \/ Goes(s, "port", "waitport") \/ Goes(s, "spawn", "note")
  BY <1>7, <1>10
<1>11. CASE \/ Returns(s, {"port"}, "ok") \/ Returns(s, {"waitport"}, "ok")
            \/ Returns(s, {"note"}, "ok") \/ Returns(s, {"spawn"}, "failed")
            \/ \E status \in {"ok", "failed"} : Returns(s, {"script", "spawned"}, status)
  BY <1>8, <1>11 DEF Returns
<1> QED
  BY <1>6, <1>9, <1>10, <1>11 DEF Goes
(* What was found is still going to be seen, or is gone.                   *)
LEMMA ShellOld ==
  ASSUME IInv, NEW s \in {"own", "stray"}, ShellStep(s)
  PROVE  OldSeen' /\ OldGone'
<1>1. Only(s) /\ Shrinks /\ OldSeen
  BY ShellMoves DEF IInv, OldSeen, ProcKept
<1>2. shell \in [{"own", "stray"} -> Shells]
      /\ \A q \in {"own", "stray"} : q # s => shell'[q] = shell[q]
  BY <1>1 DEF IInv, Typed, Only
<1>3. UNCHANGED <<service, op, step>>
  BY <1>1 DEF Only, daemon
<1>4. NoneOld => NoneOld'
  BY <1>1 DEF Shrinks, NoneOld
<1>5. OldGone'
  BY <1>3, <1>4 DEF IInv, OldGone
<1>6. ASSUME NEW p \in Pids, proc'[p].old
      PROVE  /\ Alive(p)' /\ proc[p].old
             /\ p \in Listeners => p \in Listeners'
             /\ service.spec = "script" => p \in Listeners'
             /\ service.spec = "daemon" => Seen(p)
  BY <1>1, <1>3, <1>6 DEF Shrinks, OldSeen
<1>7. ASSUME NEW p \in Pids, proc'[p].old, service.spec = "daemon", s = "stray"
      PROVE  Seen(p)'
  <2>1. shell'["own"] = shell["own"]
    BY <1>2, <1>7
  <2>2. shell["stray"] # NoShell
    BY <1>7, ShellMoves, NoShellType DEF IInv, OldSeen, Goes, Was, Returns
  <2> QED
    BY <1>3, <1>6, <1>7, <2>1, <2>2 DEF Seen
<1>8. ASSUME NEW p \in Pids, proc'[p].old, service.spec = "daemon", s = "own"
      PROVE  Seen(p)'
  <2>1. Seen(p) /\ (p \in Listeners => p \in Listeners')
    BY <1>6, <1>8
  <2>2. CASE Goes(s, "pidfile", "wait") /\ shell'[s].pid = pidfile
    BY <1>8, <2>1, <2>2 DEF Seen, Goes, Was
  <2>3. CASE Goes(s, "wait", "remove") /\ p # shell[s].pid
    BY <1>8, <2>1, <2>3 DEF Seen, Goes, Was
  <2>4. CASE Goes(s, "remove", "port")
    BY <1>8, <2>1, <2>4 DEF Seen, Goes, Was
  <2>5. CASE Goes(s, "port", "waitport") /\ shell'[s].pid \in Listeners
    <3>1. p \in Listeners
      BY <1>8, <2>1, <2>5 DEF Seen, Goes, Was
    <3>2. p = shell'[s].pid
      BY <2>5, <3>1 DEF IInv, OneListener
    <3> QED
      BY <1>8, <2>5, <3>2 DEF Seen, Goes
  <2>6. CASE Returns(s, {"port"}, "ok") /\ Listeners = {}
    BY <1>8, <2>1, <2>6 DEF Seen, Returns
  <2>7. CASE Returns(s, {"waitport"}, "ok") /\ p # shell[s].pid
    BY <1>8, <2>1, <2>7 DEF Seen, Returns
  <2>8. CASE \/ Returns(s, {"spawn"}, "failed")
             \/ \E status \in {"ok", "failed"} : Returns(s, {"script", "spawned"}, status)
             \/ Goes(s, "spawn", "note") \/ Goes(s, "script", "spawned")
             \/ Returns(s, {"note"}, "ok")
    <3>1. step \notin {"stop", "restop"}
      <4>1. shell["own"].at \in {"spawn", "note", "script", "spawned"}
        BY <1>8, <2>8 DEF Goes, Was, Returns
      <4>2. CommandAt(shell["own"]) /\ (step \in {"stop", "restop"} => shell["own"].cmd \in {"stop", "none"})
        BY DEF IInv, CommandsKept
      <4> QED
        BY <1>8, <4>1, <4>2 DEF CommandAt
    <3>2. shell'[s].at \in {"ok", "failed", "note", "spawned"}
      BY <1>8, <2>8, NoShellType DEF Goes, Returns, Ended
    <3> QED
      BY <1>3, <1>8, <3>1, <3>2 DEF Seen
  <2> QED
    BY <1>8, <2>2, <2>3, <2>4, <2>5, <2>6, <2>7, <2>8, ShellMoves DEF IInv, OldSeen
<1>9. OldSeen'
  BY <1>3, <1>6, <1>7, <1>8 DEF OldSeen
<1> QED
  BY <1>5, <1>9

(* A line of a command keeps the invariant.                                *)
LEMMA ShellInv ==
  ASSUME IInv, NEW s \in {"own", "stray"}, ShellStep(s)
  PROVE  IInv'
BY ShellTypes, ShellCommands, ShellOld DEF IInv
-----------------------------------------------------------------------------
(* The core begins a command.                                              *)
EnvOK(env) ==
  /\ env.key \in Places \cup {None} /\ env.db \in {None, "cowork", "fusion_cowork"}
  /\ env.db # None => service.key \in required_vars /\ env.key # None
  /\ service.key \in {"strip", "source"} => env.key = None
  /\ service.key = "audit" => env.key \in {"file", None}

(* Every environment the core hands on is one the service may get.         *)
LEMMA EnvsOK ==
  ASSUME Typed
  PROVE  EnvOK(NoEnv) /\ EnvOK(resolve(compose_enabled)) /\ EnvOK(resolve(cfg_enabled))
<1>1. EnvOK(NoEnv)
  BY DEF EnvOK, NoEnv
<1>2. compose_enabled \in BOOLEAN /\ cfg_enabled \in BOOLEAN
  BY DEF compose_enabled, cfg_enabled
<1> QED
  BY <1>1, <1>2, Resolved DEF EnvOK

(* A command that begins is handed such an environment.                    *)
LEMMA RunKeeps ==
  ASSUME IInv, NEW cmd \in {"start", "stop", "restart"}, NEW env, EnvOK(env),
         Run(cmd, env), op' \in Operations, UNCHANGED service,
         step' \in IF cmd = "stop" THEN {"stop", "restop"} ELSE {"start"},
         op' = "up" => /\ service.key = "inject" => env.key # None
                       /\ service.compose = "on" => env.key \in {"snapshot", "file"}
  PROVE  /\ shell' \in [{"own", "stray"} -> Shells] /\ shell'["stray"] = shell["stray"]
         /\ CommandsKept' /\ KeysHanded'
         /\ service.spec = "daemon" =>
              shell'["own"].at = IF cmd = "stop" THEN "pidfile" ELSE "spawn"
<1>1. /\ shell' \in [{"own", "stray"} -> Shells] /\ shell'["stray"] = shell["stray"]
      /\ shell'["own"].cmd = cmd /\ shell'["own"].op = op'
      /\ shell'["own"].key = env.key /\ shell'["own"].db = env.db
      /\ shell'["own"].at = (IF service.spec = "script" THEN "script"
                             ELSE IF cmd = "stop" THEN "pidfile" ELSE "spawn")
  BY Begun DEF IInv, EnvOK
<1>2. CommandsKept'
  <2>1. shell'["own"].at \in {"script", "pidfile", "spawn"}
    BY <1>1
  <2>2. CommandAt(shell["own"])'
    BY <1>1 DEF CommandAt
  <2>3. /\ CommandAt(shell["stray"])'
        /\ (shell["stray"].at = "none" => shell["stray"] = NoShell)'
        /\ (shell["stray"].at \notin {"ok", "failed"})'
    BY <1>1 DEF IInv, CommandsKept, CommandAt
  <2> QED
    BY <1>1, <2>1, <2>2, <2>3 DEF CommandsKept
<1>3. KeysHanded'
  <2>1. Handed(shell["own"])'
    BY <1>1 DEF Handed, EnvOK
  <2>2. Handed(shell["stray"])'
    BY <1>1 DEF IInv, KeysHanded, Handed
  <2> QED
    BY <2>1, <2>2 DEF KeysHanded
<1> QED
  BY <1>1, <1>2, <1>3

(* The lock is free: nobody's command is at work for the core.             *)
LEMMA Resting ==
  ASSUME IInv, step \notin {"stop", "restop", "start"}
  PROVE  shell["own"] = NoShell /\ shell["own"].at = "none" /\ shell["own"].cmd = "none"
BY NoShellType DEF IInv, CommandsKept

(* What an operation finds is alive, and behind the port or the pidfile.   *)
LEMMA BeginsFound ==
  ASSUME IInv, NEW o \in Operations, Begins(o)
  PROVE  /\ ProcTyped' /\ OneListener' /\ Listeners' = Listeners
         /\ op' = o /\ UNCHANGED <<service, present, pidfile>> /\ step = "idle"
         /\ \A p \in Pids : proc'[p].old =>
              /\ Alive(p)'
              /\ service.spec = "script" => p \in Listeners'
              /\ p \in Listeners' \/ (p = pidfile' /\ shell["stray"] = NoShell)
<1>1. ProcTyped /\ OneListener
  BY DEF IInv, Typed, ProcTyped
<1>2. /\ ProcTyped' /\ OneListener' /\ Listeners' = Listeners
      /\ \A p \in Pids : proc'[p].old = Found(p) /\ proc'[p].st = proc[p].st
  BY <1>1, FoundKeeps DEF Begins
<1>3. op' = o /\ UNCHANGED <<service, present, pidfile>> /\ step = "idle"
  BY DEF Begins
<1>4. service.spec \in {"daemon", "script"}
  BY ServiceFacts DEF IInv
<1>5. \A p \in Pids : Found(p) => /\ Alive(p)
                                  /\ service.spec = "script" => p \in Listeners
                                  /\ p \in Listeners \/ (p = pidfile /\ shell["stray"] = NoShell)
  BY <1>4 DEF Found, Alive, Listeners
<1>6. \A p \in Pids : Alive(p)' = Alive(p)
  BY <1>2 DEF Alive
<1> QED
  BY <1>2, <1>3, <1>5, <1>6

(* An operation that begins with a command.                                *)
LEMMA BeginsRun ==
  ASSUME IInv, NEW o \in Operations, Begins(o),
         NEW cmd \in {"start", "stop", "restart"}, NEW env, EnvOK(env), Run(cmd, env),
         step' \in IF cmd = "stop" THEN {"stop", "restop"} ELSE {"start"},
         step' = "stop" <=> o \in {"down", "restart", "rollout"},
         step' = "restop" => o = "recover",
         o = "up" => /\ service.key = "inject" => env.key # None
                     /\ service.compose = "on" => env.key \in {"snapshot", "file"}
  PROVE  IInv'
<1>1. /\ ProcTyped' /\ OneListener' /\ op' = o /\ UNCHANGED <<service, present, pidfile>>
      /\ \A p \in Pids : proc'[p].old =>
              /\ Alive(p)'
              /\ service.spec = "script" => p \in Listeners'
              /\ p \in Listeners' \/ (p = pidfile' /\ shell["stray"] = NoShell)
  BY BeginsFound
<1>2. /\ shell' \in [{"own", "stray"} -> Shells] /\ shell'["stray"] = shell["stray"]
      /\ CommandsKept' /\ KeysHanded'
      /\ service.spec = "daemon" =>
           shell'["own"].at = IF cmd = "stop" THEN "pidfile" ELSE "spawn"
  BY <1>1, RunKeeps
<1>3. Typed'
  BY <1>1, <1>2 DEF IInv, Typed, ProcTyped, Operations, Steps, None
<1>4. OldSeen'
  <2>1. ASSUME NEW p \in Pids, proc'[p].old, service.spec = "daemon" PROVE Seen(p)'
    BY <1>1, <1>2, <2>1 DEF Seen
  <2> QED
    BY <1>1, <2>1 DEF OldSeen
<1>5. OldGone'
  BY <1>1 DEF OldGone
<1>6. OpAt'
  BY <1>1 DEF OpAt
<1> QED
  BY <1>1, <1>2, <1>3, <1>4, <1>5, <1>6 DEF IInv

(* The first step of an operation keeps the invariant.                     *)
LEMMA BeginInv == ASSUME IInv, Begin PROVE IInv'
<1>0. EnvOK(NoEnv) /\ EnvOK(resolve(compose_enabled)) /\ EnvOK(resolve(cfg_enabled))
  BY EnvsOK DEF IInv
<1>1. CASE BeginUp
  <2>1. CASE step' = "start" /\ Run("start", resolve(compose_enabled)) /\ ~Refused
    <3>1. /\ service.key = "inject" => resolve(compose_enabled).key # None
          /\ service.compose = "on" => resolve(compose_enabled).key \in {"snapshot", "file"}
      <4>1. service.compose = "on" => service.key = "connect" /\ compose_enabled
        BY ServiceFacts DEF IInv, compose_enabled
      <4>2. compose_enabled \in BOOLEAN
        BY DEF compose_enabled
      <4> QED
        BY <2>1, <4>1, <4>2, Resolved DEF Refused, shell_vars, required_vars, IInv, None
    <3> QED
      BY <1>0, <1>1, <2>1, <3>1, BeginsRun DEF BeginUp, Operations
  <2>2. CASE step' \in {"ok", "failed"} /\ UNCHANGED shell
    <3>1. Begins("up") /\ "up" \in Operations
      BY <1>1 DEF BeginUp, Operations
    <3>2. /\ ProcTyped' /\ OneListener' /\ op' = "up" /\ UNCHANGED <<service, present, pidfile>>
          /\ \A p \in Pids : proc'[p].old =>
                  /\ Alive(p)'
                  /\ service.spec = "script" => p \in Listeners'
          /\ step = "idle"
      BY <3>1, BeginsFound
    <3>3. shell["own"].at = "none"
      BY <3>2, Resting
    <3>4. Typed'
      BY <2>2, <3>2 DEF IInv, Typed, ProcTyped, Operations, Steps, None
    <3>5. OldSeen'
      BY <2>2, <3>2, <3>3 DEF OldSeen, Seen
    <3>6. OldGone'
      BY <2>2, <3>2 DEF OldGone
    <3>7. CommandsKept' /\ KeysHanded'
      BY <2>2, <3>2, <3>3 DEF IInv, CommandsKept, CommandAt, KeysHanded, Handed
    <3>8. OpAt'
      BY <2>2 DEF OpAt
    <3> QED
      BY <3>2, <3>4, <3>5, <3>6, <3>7, <3>8 DEF IInv
  <2> QED
    BY <1>1, <2>1, <2>2 DEF BeginUp
<1>2. CASE BeginDown
  BY <1>0, <1>2, BeginsRun DEF BeginDown, Operations
<1>3. CASE BeginRecover
  BY <1>0, <1>3, BeginsRun DEF BeginRecover, InvokeStart, Operations
<1>4. CASE \E o \in {"restart", "rollout"} : BeginReplace(o)
  BY <1>0, <1>4, BeginsRun DEF BeginReplace, Operations
<1> QED
  BY <1>1, <1>2, <1>3, <1>4 DEF Begin
-----------------------------------------------------------------------------
(* The core goes on.                                                       *)
LEMMA DoneKeeps ==
  ASSUME IInv, Done, UNCHANGED service, step' \notin {"stop", "restop", "start"}
  PROVE  /\ shell' \in [{"own", "stray"} -> Shells] /\ shell'["own"] = NoShell
         /\ shell'["own"].at = "none" /\ shell'["stray"] = shell["stray"]
         /\ CommandsKept' /\ KeysHanded'
<1>1. /\ shell' \in [{"own", "stray"} -> Shells] /\ shell'["own"] = NoShell
      /\ shell'["stray"] = shell["stray"]
  BY NoShellType DEF Done, IInv, Typed
<1>2. CommandsKept'
  BY <1>1, NoShellType DEF IInv, CommandsKept, CommandAt
<1>3. KeysHanded'
  BY <1>1, NoShellType DEF IInv, KeysHanded, Handed, None
<1> QED
  BY <1>1, <1>2, <1>3, NoShellType

(* A step of the core on its own: nothing happens to the processes.        *)
LEMMA CoreKeeps ==
  ASSUME IInv, UNCHANGED <<service, present, proc, pidfile, op>>, op # None,
         step' \in Steps \ {"idle"},
         shell' \in [{"own", "stray"} -> Shells], shell'["stray"] = shell["stray"],
         CommandsKept', KeysHanded', OldGone', OpAt',
         \A p \in Pids : proc[p].old /\ service.spec = "daemon" => Seen(p)'
  PROVE  IInv'
<1>1. Typed' /\ OneListener'
  BY DEF IInv, Typed, OneListener, Listeners
<1>2. OldSeen'
  BY DEF IInv, OldSeen, Alive, Listeners
<1> QED
  BY <1>1, <1>2 DEF IInv

(* A step without processes finds none anew.                               *)
LEMMA Steady ==
  ASSUME UNCHANGED proc
  PROVE  (NoneOld' <=> NoneOld) /\ Listeners' = Listeners
BY DEF NoneOld, Listeners

(* The stop of an operation has returned.                                  *)
LEMMA StoppedInv == ASSUME IInv, Stopped PROVE IInv'
<1>1. /\ step = "stop" /\ Returned /\ Done /\ UNCHANGED <<service, present, proc, pidfile, op>>
      /\ step' = (IF op = "down" THEN "ok" ELSE "verify")
  BY DEF Stopped
<1>2. /\ shell' \in [{"own", "stray"} -> Shells] /\ shell'["stray"] = shell["stray"]
      /\ shell'["own"].at = "none" /\ CommandsKept' /\ KeysHanded'
  BY <1>1, DoneKeeps
<1>3. service.spec = "daemon" => NoneOld
  BY <1>1 DEF IInv, OldSeen, Seen, CommandsKept, Returned, NoneOld
<1>4. OldGone'
  BY <1>1, <1>3, Steady DEF OldGone
<1>5. \A p \in Pids : proc[p].old /\ service.spec = "daemon" => Seen(p)'
  BY <1>3 DEF NoneOld
<1>6. op # None /\ step' \in Steps \ {"idle"}
  BY <1>1 DEF IInv, Typed, Steps
<1>7. OpAt'
  BY <1>1 DEF IInv, OpAt
<1> QED
  BY <1>1, <1>2, <1>4, <1>5, <1>6, <1>7, CoreKeeps

(* invoke_start, when nothing that was found is left.                      *)
LEMMA InvokeInv ==
  ASSUME IInv, NoneOld, InvokeStart, step = "verify",
         UNCHANGED <<service, present, proc, pidfile, op>>
  PROVE  IInv'
<1>1. EnvOK(resolve(cfg_enabled)) /\ op' \in Operations /\ op \in {"restart", "rollout"}
  BY EnvsOK DEF IInv, OpAt, Operations
<1>2. CASE step' = "restop" /\ Run("stop", resolve(cfg_enabled))
  <2>1. /\ shell' \in [{"own", "stray"} -> Shells] /\ shell'["stray"] = shell["stray"]
        /\ CommandsKept' /\ KeysHanded'
    BY <1>1, <1>2, RunKeeps
  <2> QED
    BY <1>1, <1>2, <2>1, CoreKeeps, Steady DEF OldGone, OpAt, NoneOld, Steps, None
<1>3. CASE step' = "start" /\ Run("restart", resolve(cfg_enabled))
  <2>1. /\ shell' \in [{"own", "stray"} -> Shells] /\ shell'["stray"] = shell["stray"]
        /\ CommandsKept' /\ KeysHanded'
    BY <1>1, <1>3, RunKeeps
  <2> QED
    BY <1>1, <1>3, <2>1, CoreKeeps, Steady DEF OldGone, OpAt, NoneOld, Steps, None
<1> QED
  BY <1>2, <1>3 DEF InvokeStart

(* The port is looked at after the stop.                                   *)
LEMMA VerifyInv == ASSUME IInv, Verify PROVE IInv'
<1>1. step = "verify" /\ UNCHANGED <<service, present, proc, pidfile, op>>
  BY DEF Verify
<1>2. CASE Listeners = {} /\ InvokeStart
  <2>1. service.spec \in {"daemon", "script"}
    BY ServiceFacts DEF IInv
  <2>2. NoneOld
    BY <1>1, <1>2, <2>1 DEF IInv, OldGone, OldSeen, NoneOld
  <2> QED
    BY <1>1, <1>2, <2>2, InvokeInv
<1>3. CASE step' = "failed" /\ UNCHANGED shell
  <2>1. shell["own"].at = "none" /\ op # None /\ shell \in [{"own", "stray"} -> Shells]
    BY <1>1, Resting DEF IInv, Typed
  <2>2. CommandsKept' /\ KeysHanded'
    BY <1>1, <1>3, <2>1 DEF IInv, CommandsKept, CommandAt, KeysHanded, Handed
  <2>3. OldGone' /\ OpAt'
    BY <1>3 DEF OldGone, OpAt
  <2>4. \A p \in Pids : Seen(p)'
    BY <1>3, <2>1 DEF Seen
  <2> QED
    BY <1>1, <1>3, <2>1, <2>2, <2>3, <2>4, CoreKeeps DEF Steps
<1> QED
  BY <1>2, <1>3 DEF Verify

(* The second stop of a replacement has returned.                          *)
LEMMA RestoppedInv == ASSUME IInv, Restopped PROVE IInv'
<1>1. /\ step = "restop" /\ Returned /\ UNCHANGED <<service, present, proc, pidfile, op>>
      /\ op # None /\ op \in Operations /\ op \in {"restart", "rollout", "recover"}
  BY DEF Restopped, IInv, OpAt, Operations, None
<1>2. op \in {"restart", "rollout"} => NoneOld
  BY <1>1 DEF IInv, OldGone
<1>3. EnvOK(resolve(cfg_enabled))
  BY EnvsOK DEF IInv
<1>4. CASE step' = "start" /\ Run("start", resolve(cfg_enabled))
  <2>1. /\ shell' \in [{"own", "stray"} -> Shells] /\ shell'["stray"] = shell["stray"]
        /\ CommandsKept' /\ KeysHanded'
        /\ service.spec = "daemon" => shell'["own"].at = "spawn"
    BY <1>1, <1>3, <1>4, RunKeeps
  <2>2. OldGone' /\ OpAt'
    BY <1>1, <1>2, <1>4, Steady DEF OldGone, OpAt
  <2>3. \A p \in Pids : service.spec = "daemon" => Seen(p)'
    BY <2>1 DEF Seen
  <2> QED
    BY <1>1, <1>4, <2>1, <2>2, <2>3, CoreKeeps DEF Steps
<1>5. CASE step' = "failed" /\ Done
  <2>1. /\ shell' \in [{"own", "stray"} -> Shells] /\ shell'["stray"] = shell["stray"]
        /\ CommandsKept' /\ KeysHanded' /\ shell'["own"].at = "none"
    BY <1>1, <1>5, DoneKeeps
  <2>2. OldGone' /\ OpAt' /\ \A p \in Pids : Seen(p)'
    BY <1>5, <2>1 DEF OldGone, OpAt, Seen
  <2> QED
    BY <1>1, <1>5, <2>1, <2>2, CoreKeeps DEF Steps
<1> QED
  BY <1>4, <1>5 DEF Restopped

(* The start has returned.                                                 *)
LEMMA StartedInv == ASSUME IInv, Started PROVE IInv'
<1>1. /\ step = "start" /\ Done /\ UNCHANGED <<service, present, proc, pidfile, op>>
      /\ step' \in {"ok", "failed", "prewarm"} /\ op # None
      /\ op # "down"
      /\ op \in {"restart", "rollout"} => NoneOld
  BY DEF Started, IInv, Typed, OldGone, OpAt
<1>2. /\ shell' \in [{"own", "stray"} -> Shells] /\ shell'["stray"] = shell["stray"]
      /\ CommandsKept' /\ KeysHanded' /\ shell'["own"].at = "none"
  BY <1>1, DoneKeeps
<1>3. OldGone' /\ OpAt' /\ \A p \in Pids : Seen(p)'
  BY <1>1, <1>2, Steady DEF OldGone, OpAt, Seen
<1> QED
  BY <1>1, <1>2, <1>3, CoreKeeps DEF Steps

(* A rollout ends its prewarm.                                             *)
LEMMA PrewarmInv == ASSUME IInv, NEW health \in BOOLEAN, Prewarm(health) PROVE IInv'
<1>1. /\ step = "prewarm" /\ UNCHANGED <<service, present, proc, pidfile, shell, op>>
      /\ step' \in {"ok", "failed"} /\ op # None
  BY DEF Prewarm, IInv, Typed
<1>2. shell["own"].at = "none" /\ shell \in [{"own", "stray"} -> Shells]
  BY <1>1, Resting DEF IInv, Typed
<1>3. CommandsKept' /\ KeysHanded'
  BY <1>1, <1>2 DEF IInv, CommandsKept, CommandAt, KeysHanded, Handed
<1>4. OldGone' /\ OpAt' /\ \A p \in Pids : Seen(p)'
  BY <1>1, <1>2, Steady DEF IInv, OldGone, OpAt, Seen
<1> QED
  BY <1>1, <1>2, <1>3, <1>4, CoreKeeps DEF Steps

(* The operation gives the lock back.                                      *)
LEMMA UnlockInv == ASSUME IInv, Unlock PROVE IInv'
<1>1. /\ step \in {"ok", "failed"} /\ step' = "idle" /\ op' = None
      /\ UNCHANGED <<service, present, pidfile, shell>>
      /\ proc' = [p \in Pids |-> [proc[p] EXCEPT !.old = FALSE]]
  BY DEF Unlock
<1>2. ProcTyped' /\ OneListener' /\ NoneOld'
  BY <1>1, ForgottenKeeps DEF IInv, Typed, ProcTyped
<1>3. shell["own"].at = "none"
  BY <1>1, Resting
<1>4. CommandsKept' /\ KeysHanded'
  BY <1>1, <1>3 DEF IInv, CommandsKept, CommandAt, KeysHanded, Handed
<1>5. Typed'
  BY <1>1, <1>2 DEF IInv, Typed, ProcTyped, Steps
<1>6. OldSeen' /\ OldGone' /\ OpAt'
  BY <1>1, <1>2 DEF OldSeen, OldGone, OpAt, NoneOld
<1> QED
  BY <1>2, <1>4, <1>5, <1>6 DEF IInv
-----------------------------------------------------------------------------
(* The processes, the files, and the daemon that is killed.                *)
LEMMA ProcInv ==
  ASSUME IInv, NEW p \in Pids, ProcBinds(p) \/ ProcDies(p)
  PROVE  IInv'
<1>1. ProcKept /\ UNCHANGED <<service, present, pidfile, shell, op, step>>
  BY BindsKeeps, DiedKeeps DEF IInv, Typed, ProcTyped, ProcBinds, ProcDies, daemon
<1>2. Typed' /\ OneListener' /\ OpAt'
  BY <1>1 DEF IInv, Typed, ProcKept, ProcTyped, OpAt
<1>3. CommandsKept' /\ KeysHanded'
  BY <1>1 DEF IInv, CommandsKept, CommandAt, KeysHanded, Handed
<1>4. NoneOld => NoneOld'
  BY <1>1 DEF ProcKept, Shrinks, NoneOld
<1>5. OldGone'
  BY <1>1, <1>4 DEF IInv, OldGone
<1>6. OldSeen'
  <2> SUFFICES ASSUME NEW q \in Pids, proc'[q].old
               PROVE  /\ Alive(q)'
                      /\ service'.spec = "script" => q \in Listeners'
                      /\ service'.spec = "daemon" => Seen(q)'
    BY DEF OldSeen
  <2>1. /\ proc[q].old /\ (q \in Listeners => q \in Listeners') /\ (Alive(q) => Alive(q)')
    BY <1>1 DEF ProcKept, Shrinks
  <2>2. /\ Alive(q)
        /\ service.spec = "script" => q \in Listeners
        /\ service.spec = "daemon" => Seen(q)
    BY <2>1 DEF IInv, OldSeen
  <2>3. Seen(q) => Seen(q)'
    BY <1>1, <2>1 DEF Seen
  <2> QED
    BY <1>1, <2>1, <2>2, <2>3
<1> QED
  BY <1>2, <1>3, <1>5, <1>6 DEF IInv

(* A step that changes no more than the places of the key keeps the        *)
(* invariant.                                                              *)
LEMMA SameInv ==
  ASSUME IInv, UNCHANGED <<service, proc, pidfile, shell, op, step>>, present' \subseteq Places
  PROVE  IInv'
<1>1. Typed' /\ OneListener' /\ OpAt' /\ OldGone'
  BY DEF IInv, Typed, OneListener, Listeners, OpAt, OldGone, NoneOld
<1>2. CommandsKept' /\ KeysHanded'
  BY DEF IInv, CommandsKept, CommandAt, KeysHanded, Handed
<1>3. OldSeen'
  <2>1. \A q \in Pids : Alive(q)' = Alive(q) /\ Listeners' = Listeners /\ Seen(q)' = Seen(q)
    BY DEF Alive, Listeners, Seen
  <2> QED
    BY <2>1 DEF IInv, OldSeen
<1> QED
  BY <1>1, <1>2, <1>3 DEF IInv

(* An edit of the dotenv file is such a step.                              *)
LEMMA EditInv == ASSUME IInv, EditFile PROVE IInv'
<1>1. present' \subseteq Places
  BY DEF EditFile, Edited, IInv, Typed, Places
<1> QED
  BY <1>1, SameInv DEF EditFile, daemon

(* A killed daemon leaves at most its command behind, as an orphan.        *)
LEMMA RestartInv == ASSUME IInv, DaemonRestart PROVE IInv'
<1> DEFINE left == IF shell["own"].cmd = "none" THEN shell["stray"] ELSE shell["own"]
<1>1. /\ op' = None /\ step' = "idle" /\ UNCHANGED <<service, pidfile>>
      /\ proc' = [p \in Pids |-> [proc[p] EXCEPT !.old = FALSE]]
      /\ shell' = [own |-> NoShell, stray |-> left]
  BY DEF DaemonRestart
<1>2. present' \subseteq Places
  BY DEF DaemonRestart, Edited, IInv, Typed, Places
<1>3. /\ left \in Shells /\ CommandAt(left) /\ Handed(left)
      /\ left.at = "none" => left = NoShell
      /\ left.at \notin {"ok", "failed"}
  <2>1. CASE shell["own"].cmd = "none"
    BY <2>1 DEF IInv, Typed, CommandsKept, KeysHanded
  <2>2. CASE shell["own"].cmd # "none"
    <3>1. /\ shell["own"] \in Shells /\ CommandAt(shell["own"]) /\ Handed(shell["own"])
          /\ shell["own"].at = "none" => shell["own"] = NoShell
      BY DEF IInv, Typed, CommandsKept, KeysHanded
    <3>2. shell["own"].cmd \in {"start", "stop", "restart"}
      BY <2>2, <3>1 DEF Shells
    <3> QED
      BY <2>2, <3>1, <3>2 DEF CommandAt, IInv, CommandsKept, KeysHanded
  <2> QED
    BY <2>1, <2>2
<1> HIDE DEF left
<1>4. /\ shell' \in [{"own", "stray"} -> Shells]
      /\ shell'["own"] = NoShell /\ shell'["stray"] = left
  BY <1>1, <1>3, NoShellType
<1>5. ProcTyped' /\ OneListener' /\ NoneOld'
  BY <1>1, ForgottenKeeps DEF IInv, Typed, ProcTyped
<1>6. Typed'
  BY <1>1, <1>2, <1>4, <1>5 DEF IInv, Typed, ProcTyped, Steps
<1>7. CommandsKept'
  BY <1>1, <1>3, <1>4, NoShellType DEF CommandsKept, CommandAt
<1>8. KeysHanded'
  BY <1>1, <1>3, <1>4, NoShellType DEF KeysHanded, Handed, None
<1>9. OldSeen' /\ OldGone' /\ OpAt'
  BY <1>1, <1>5 DEF OldSeen, OldGone, OpAt, NoneOld
<1> QED
  BY <1>5, <1>6, <1>7, <1>8, <1>9 DEF IInv

(* The invariant holds when the first daemon starts.                       *)
LEMMA InitInv == Init => IInv
<1> SUFFICES ASSUME Init PROVE IInv
  OBVIOUS
<1>1. Typed /\ OneListener
  BY NoShellType DEF Init, Typed, OneListener, Listeners, Absent, Steps
<1>2. CommandsKept /\ KeysHanded
  BY NoShellType DEF Init, CommandsKept, CommandAt, KeysHanded, Handed, None
<1>3. OldSeen /\ OldGone /\ OpAt
  BY DEF Init, OldSeen, OldGone, OpAt, NoneOld, Absent
<1> QED
  BY <1>1, <1>2, <1>3 DEF IInv

(* Every step keeps the invariant.                                         *)
LEMMA StepInv == IInv /\ [Next]_vars => IInv'
<1> SUFFICES ASSUME IInv, [Next]_vars PROVE IInv'
  OBVIOUS
<1>1. CASE UNCHANGED vars
  <2>1. present \subseteq Places
    BY DEF IInv, Typed
  <2> QED
    BY <1>1, <2>1, SameInv DEF vars, daemon
<1>2. CASE Begin
  BY <1>2, BeginInv
<1>3. CASE Core
  BY <1>3, StoppedInv, VerifyInv, RestoppedInv, StartedInv, PrewarmInv, UnlockInv DEF Core
<1>4. ASSUME NEW s \in {"own", "stray"}, ShellStep(s) PROVE IInv'
  BY <1>4, ShellInv
<1>5. ASSUME NEW p \in Pids, ProcBinds(p) \/ ProcDies(p) PROVE IInv'
  BY <1>5, ProcInv
<1>6. CASE EditFile \/ DaemonRestart
  BY <1>6, EditInv, RestartInv
<1> QED
  BY <1>1, <1>2, <1>3, <1>4, <1>5, <1>6 DEF Next, ShellStep

(* The inductive invariant holds in every reachable state.                 *)
THEOREM Invariant == Spec => []IInv
BY InitInv, StepInv, PTL DEF Spec

(* Issue #96 (mod.rs 532): a restart or a rollout that answers ok, and a   *)
(* down of a service the supervisor starts itself, leave alive none of the *)
(* processes they found, for any number of processes, with commands of an  *)
(* earlier daemon at work beside them (stop_and_verify, daemon_stop_cmd).  *)
THEOREM OldProcessesGone == Spec => []Replaced
<1>1. IInv => Replaced
  BY DEF IInv, OldGone, NoneOld, Replaced
<1> QED
  BY <1>1, Invariant, PTL

(* Every variable keeps to its values, one process listens, and the core   *)
(* waits for a command exactly when its step says so.                      *)
THEOREM TypeCorrect == Spec => []TypeOK
<1>1. IInv => TypeOK
  <2> SUFFICES ASSUME IInv PROVE TypeOK
    OBVIOUS
  <2>1. Cardinality(Listeners) <= 1
    <3>1. CASE Listeners = {}
      BY <3>1, FS_EmptySet
    <3>2. CASE Listeners # {}
      <4>1. PICK p : p \in Listeners
        BY <3>2
      <4>2. Listeners = {p}
        BY <4>1 DEF IInv, OneListener
      <4>3. Cardinality({p}) = 1
        BY FS_Singleton
      <4> QED
        BY <4>2, <4>3
    <3> QED
      BY <3>1, <3>2
  <2>2. \A s \in {"own", "stray"} :
          /\ shell[s].key \in Places \cup {None}
          /\ shell[s].db # None => service.key \in required_vars /\ shell[s].key # None
    BY DEF IInv, Typed, Shells, KeysHanded, Handed
  <2>3. (shell["own"] # NoShell) = (step \in {"stop", "restop", "start"})
    <3>1. (shell["own"].at # "none") = (shell["own"] # NoShell)
      BY NoShellType DEF IInv, CommandsKept
    <3> QED
      BY <3>1 DEF IInv, CommandsKept
  <2>4. DOMAIN shell = {"own", "stray"}
    BY DEF IInv, Typed
  <2> QED
    BY <2>1, <2>2, <2>3, <2>4 DEF IInv, Typed, TypeOK
<1> QED
  BY <1>1, Invariant, PTL
-----------------------------------------------------------------------------
(* Credentials.                                                            *)

(* Only a command of its own can spawn for a shell.                        *)
LEMMA SpawnedBy ==
  ASSUME IInv, Next, NEW s \in {"own", "stray"}, Spawns(s)
  PROVE  /\ StartSpawns(s) \/ ScriptSpawns(s)
         /\ UNCHANGED <<service, present>>
<1>1. PICK p \in Pids : ~Alive(p) /\ proc'[p].st = "booting"
  BY DEF Spawns
<1>2. proc[p].st = "none" /\ ProcTyped
  BY <1>1 DEF Alive, IInv, Typed, ProcTyped
<1>3. proc' # proc
  BY <1>1, <1>2
<1>4. ~\E mark \in BOOLEAN : proc' = [q \in Pids |-> [proc[q] EXCEPT !.old = mark]]
  BY <1>1, <1>2 DEF ProcTyped
<1>5. \A q \in Pids : ~Died(q)
  BY <1>1, <1>2 DEF Died, ProcTyped, Absent
<1>6. ~Begin
  <2> SUFFICES ASSUME NEW o \in Operations, Begins(o) PROVE FALSE
    BY DEF Begin, BeginUp, BeginDown, BeginRecover, BeginReplace, Operations
  <2>1. proc'[p].st = proc[p].st
    BY <1>2 DEF Begins, ProcTyped
  <2> QED
    BY <1>1, <1>2, <2>1
<1>7. ~(Core \/ EditFile \/ DaemonRestart)
  BY <1>3, <1>4 DEF Core, Stopped, Verify, Restopped, Started, Prewarm, Unlock, EditFile,
                    DaemonRestart
<1>8. \A q \in Pids : ~(ProcBinds(q) \/ ProcDies(q))
  <2> SUFFICES ASSUME NEW q \in Pids, ProcBinds(q) \/ ProcDies(q) PROVE FALSE
    OBVIOUS
  <2>1. proc[q].st = "booting" /\ proc' = [proc EXCEPT ![q].st = "listening"]
    BY <1>5 DEF ProcBinds, ProcDies
  <2> QED
    BY <1>1, <1>2, <2>1 DEF ProcTyped
<1>9. \A q : ~Waited(q)
  BY <1>3, <1>5 DEF Waited, Alive
<1>10. PICK q \in {"own", "stray"} : StartSpawns(q) \/ ScriptSpawns(q)
  BY <1>3, <1>6, <1>7, <1>8, <1>9
     DEF Next, Command, StopReads, StopWaits, StopRemoves, StopScans, StopWaitsPort,
         StartRefused, StartNotes, ScriptEnds
<1>11. Only(q) /\ shell \in [{"own", "stray"} -> Shells]
  BY <1>10, SpawnMoves, ScriptMoves DEF IInv, Typed
<1>12. q = s
  <2>1. shell[s].at # shell'[s].at
    BY DEF Spawns
  <2> QED
    BY <1>11, <2>1 DEF Only
<1> QED
  BY <1>10, <1>11, <1>12 DEF Only

(* The environment the daemon was started with grows stale (issues #39,    *)
(* #45, #49, #101), and a start that an operator asked for is fail-closed  *)
(* (env_map.rs 3, 148): through any operation, any restart of the daemon,  *)
(* any edited file and any command left over, a new process has the key    *)
(* it should have.                                                         *)
THEOREM KeysAreRight == Spec => RightKey
<1> DEFINE Right(s) ==
      LET key == Carried(shell[s].key)
      IN  /\ service.key = "strip" => key \in {"upstream", None}
          /\ service.key = "source" => key = "file"
          /\ service.key = "audit" /\ shell[s].key # None => key = "file"
          /\ service.key = "inject" /\ shell[s].op = "up" => key # None
          /\ service.compose = "on" /\ shell[s].op = "up" => key \in {"snapshot", "file"}
<1>1. ASSUME IInv, NEW s \in {"own", "stray"} PROVE Right(s)
  <2> DEFINE given == shell[s].key
  <2>1. /\ service.key \in {"strip", "source"} => given = None
        /\ service.key = "audit" => given \in {"file", None}
        /\ service.key = "inject" /\ shell[s].op = "up" => given # None
        /\ service.compose = "on" /\ shell[s].op = "up" => given \in {"snapshot", "file"}
    BY <1>1 DEF IInv, KeysHanded, Handed
  <2>2. service.compose = "on" => service.key = "connect"
    BY <1>1, ServiceFacts DEF IInv
  <2> HIDE DEF given
  <2>3. Carried(given) =
          LET source == IF service.key = "source" THEN "file" ELSE None
              own == IF service.key = "strip" THEN Held("upstream") ELSE None
          IN  IF source # None THEN source ELSE IF given # None THEN given
              ELSE IF Inherited # None THEN Inherited ELSE own
    BY FirstOfFour DEF Carried
  <2>4. service.key = "strip" => Inherited = None
    BY DEF Inherited
  <2>5. Held("upstream") \in {"upstream", None}
    BY DEF Held
  <2>6. service.key = "strip" => Carried(given) \in {"upstream", None}
    BY <2>1, <2>3, <2>4, <2>5
  <2>7. service.key = "source" => Carried(given) = "file"
    BY <2>3 DEF None
  <2>8. service.key # "source" /\ given # None => Carried(given) = given
    BY <2>3
  <2> HIDE DEF Carried
  <2>9. Carried(shell[s].key) = Carried(given)
    BY DEF given
  <2>10. shell[s].key = given
    BY DEF given
  <2> QED
    BY <2>1, <2>2, <2>6, <2>7, <2>8, <2>9, <2>10 DEF None
<1>2. IInv /\ [Next]_vars =>
        [\A s \in {"own", "stray"} : Spawns(s) => Right(s)]_vars
  BY <1>1
<1>3. RightKey <=> [][\A s \in {"own", "stray"} : Spawns(s) => Right(s)]_vars
  BY PTL DEF RightKey
<1> QED
  BY <1>2, <1>3, Invariant, PTL DEF Spec
-----------------------------------------------------------------------------
(* Operations end: none goes round in circles, none waits for nothing.     *)

(* How far an operation is, and within one of its steps its command.       *)
StepNo(st) ==
  CASE st = "stop" -> 1 [] st = "verify" -> 2 [] st = "restop" -> 3 [] st = "start" -> 4
    [] st = "prewarm" -> 5 [] OTHER -> 6

LineNo(at) ==
  CASE at \in {"pidfile", "spawn", "script"} -> 1 [] at \in {"wait", "note", "spawned"} -> 2
    [] at = "remove" -> 3 [] at = "port" -> 4 [] at = "waitport" -> 5 [] OTHER -> 6

Further ==
  \/ step' = "idle"
  \/ op' = op /\ StepNo(step) < StepNo(step')
  \/ /\ UNCHANGED <<op, step>>
     /\ LineNo(shell["own"].at) < LineNo(shell'["own"].at)

(* Each step of the core and of its command brings the operation further,  *)
(* and nothing else that happens - a process that dies or binds, an edited *)
(* file, a command left over by an earlier daemon - takes it back.  There  *)
(* are six steps and six lines, so it ends.                                *)
OperationAdvances ==
  [][step # "idle" =>
       IF Core \/ ShellStep("own") THEN Further
       ELSE step' = "idle" \/ UNCHANGED <<op, step, shell["own"]>>]_vars

(* What can be done next: the guards of the core's steps and of those of   *)
(* the commands the supervisor builds itself.                              *)
CoreCanGoOn == step \in {"verify", "prewarm", "ok", "failed"} \/ Returned

CommandCanGoOn ==
  \/ shell["own"].at \in {"pidfile", "wait", "remove", "port", "waitport", "note"}
  \/ /\ shell["own"].at = "spawn"
     /\ \/ service.key = "source" /\ "file" \notin present
        \/ \E p \in Pids : proc[p].st = "none"

(* The command of the core goes on to a later line or ends.                *)
LEMMA CommandFurther ==
  ASSUME IInv, ShellStep("own")
  PROVE  Further
<1>1. \A p \in Pids : proc[p].old => Alive(p)
  BY DEF IInv, OldSeen
<1>2. Only("own")
  BY <1>1, ShellMoves DEF IInv
<1>3. LineNo(shell["own"].at) < LineNo(shell'["own"].at)
  <2>1. \/ Goes("own", "pidfile", "wait") \/ Goes("own", "wait", "remove")
        \/ Goes("own", "remove", "port") \/ Goes("own", "port", "waitport")
        \/ Goes("own", "spawn", "note") \/ Goes("own", "script", "spawned")
        \/ \E status \in {"ok", "failed"} :
             Returns("own", {"port", "waitport", "spawn", "note", "script", "spawned"}, status)
    BY <1>1, ShellMoves DEF IInv, Returns
  <2>2. ASSUME NEW status \in {"ok", "failed"},
               Returns("own", {"port", "waitport", "spawn", "note", "script", "spawned"}, status)
        PROVE  LineNo(shell["own"].at) < LineNo(shell'["own"].at)
    <3>1. shell'["own"].at = status
      BY <2>2, NoShellType DEF Returns, Ended
    <3> QED
      BY <2>2, <3>1 DEF Returns, LineNo
  <2> QED
    BY <2>1, <2>2 DEF Goes, Was, LineNo
<1> QED
  BY <1>2, <1>3 DEF Only, Further, daemon

(* The core goes on to a later step or gives the lock back.                *)
LEMMA CoreFurther ==
  ASSUME IInv, Core
  PROVE  Further
<1> USE DEF StepNo, Further
<1>1. CASE Stopped
  BY <1>1 DEF Stopped
<1>2. CASE Verify
  BY <1>2 DEF Verify, InvokeStart
<1>3. CASE Restopped
  BY <1>3 DEF Restopped
<1>4. CASE Started
  BY <1>4 DEF Started
<1>5. ASSUME NEW health \in BOOLEAN, Prewarm(health) PROVE Further
  BY <1>5 DEF Prewarm
<1>6. CASE Unlock
  BY <1>6 DEF Unlock
<1> QED
  BY <1>1, <1>2, <1>3, <1>4, <1>5, <1>6 DEF Core

(* Every step of an operation on one service brings it nearer to its end,  *)
(* for any number of processes and whatever its commands do.               *)
THEOREM OperationsAdvance == Spec => OperationAdvances
<1>1. ASSUME IInv, Next, step # "idle", ~(Core \/ ShellStep("own"))
      PROVE  step' = "idle" \/ UNCHANGED <<op, step, shell["own"]>>
  <2>1. ~Begin
    BY <1>1 DEF Begin, BeginUp, BeginDown, BeginRecover, BeginReplace, Begins
  <2>2. CASE ShellStep("stray")
    <3>1. \A p \in Pids : proc[p].old => Alive(p)
      BY <1>1 DEF IInv, OldSeen
    <3>2. Only("stray") /\ shell \in [{"own", "stray"} -> Shells]
      BY <1>1, <2>2, <3>1, ShellMoves DEF IInv, Typed
    <3> QED
      BY <3>2 DEF Only, daemon
  <2>3. ASSUME NEW p \in Pids, ProcBinds(p) \/ ProcDies(p)
        PROVE  UNCHANGED <<op, step, shell["own"]>>
    BY <2>3 DEF ProcBinds, ProcDies, daemon
  <2>4. CASE EditFile
    BY <2>4 DEF EditFile, daemon
  <2>5. CASE DaemonRestart
    BY <2>5 DEF DaemonRestart
  <2> QED
    BY <1>1, <2>1, <2>2, <2>3, <2>4, <2>5 DEF Next, ShellStep
<1>2. IInv /\ [Next]_vars =>
        [step # "idle" =>
           IF Core \/ ShellStep("own") THEN Further
           ELSE step' = "idle" \/ UNCHANGED <<op, step, shell["own"]>>]_vars
  BY <1>1, CoreFurther, CommandFurther
<1> QED
  BY <1>2, Invariant, PTL DEF Spec, OperationAdvances

(* No operation on a service the supervisor starts itself waits for        *)
(* nothing: the guard of a step of the core or of its command is true,     *)
(* whatever ignores TERM, never answers or was left over, as long as the   *)
(* system has an identifier for one more process.                          *)
THEOREM OperationGoesOn ==
  Spec => [](service.spec = "daemon" /\ step # "idle" /\ (\E p \in Pids : ~Alive(p))
               => CoreCanGoOn \/ CommandCanGoOn)
<1>1. ASSUME IInv, service.spec = "daemon", step # "idle", \E p \in Pids : ~Alive(p)
      PROVE  CoreCanGoOn \/ CommandCanGoOn
  <2>1. CASE step \in {"verify", "prewarm", "ok", "failed"}
    BY <2>1 DEF CoreCanGoOn
  <2>2. CASE step \in {"stop", "restop", "start"}
    <3>1. shell["own"].at # "none" /\ CommandAt(shell["own"]) /\ shell["own"] \in Shells
      BY <1>1, <2>2 DEF IInv, CommandsKept, Typed
    <3>2. shell["own"].at \in {"pidfile", "wait", "remove", "port", "waitport", "spawn", "note",
                               "ok", "failed"}
      BY <1>1, <3>1 DEF CommandAt, Shells
    <3>3. \E p \in Pids : proc[p].st = "none"
      BY <1>1 DEF Alive
    <3> QED
      BY <3>2, <3>3 DEF CoreCanGoOn, CommandCanGoOn, Returned
  <2>3. step \in Steps
    BY <1>1 DEF IInv, Typed
  <2> QED
    BY <1>1, <2>1, <2>2, <2>3 DEF Steps
<1> QED
  BY <1>1, Invariant, PTL
=============================================================================
