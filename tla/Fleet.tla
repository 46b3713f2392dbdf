-------------------------------- MODULE Fleet --------------------------------
(***************************************************************************)
(* The operations of SupervisorCore over many services (supervisor/mod.rs): *)
(* up_all and down_all with the compose plane, boot groups, the boot set,  *)
(* boot pins.  An operation holds the core mutex from its first step to     *)
(* its last, but it is no single step: it starts or stops one layer after  *)
(* the other, each service in a task of its own behind a semaphore, and    *)
(* the daemon may die anywhere in between.                                 *)
(*                                                                         *)
(* What a single service does is module Runner; here only its state counts *)
(* and its port may answer or stay silent at every probe.  restart and     *)
(* rollout touch one service and are left to Runner.                       *)
(***************************************************************************)
EXTENDS Integers, FiniteSets

CONSTANTS
  Services,           \* the managed services of the registry
  Sidecars,           \* containers of the sidecar plane
  layer_of,           \* [Services -> Layer]
  boot_tier,          \* [Services -> BootTier]
  deps_for,           \* [Services -> SUBSET Sidecars]
  needs_injection,    \* services whose environment has to be resolved first
  MaxConcurrentStart, \* max_concurrent_start, the semaphore's permits
  ComposeOn,          \* compose is enabled and its files exist
  AutoUp,             \* auto_up_on_start
  Operations,         \* what clients ask for in this instance
  Pinnable            \* bound: services a client pins

OperationKinds ==
  {"up_all", "down_all", "up_one", "down_one", "group_up", "group_down",
   "pin", "drain_all", "daemon_restart"}

BootTier == {"T0", "T1", "T2"}
Groups == BootTier \cup {"app", "pinned"}

(* Core, Platform, App, Domain, Cluster, in the order they start in.       *)
Layer == 0..4

ASSUME FleetAssumption ==
  /\ IsFiniteSet(Services)
  /\ layer_of \in [Services -> Layer]
  /\ boot_tier \in [Services -> BootTier]
  /\ deps_for \in [Services -> SUBSET Sidecars]
  /\ needs_injection \subseteq Services
  /\ MaxConcurrentStart \in Nat \ {0}
  /\ ComposeOn \in BOOLEAN /\ AutoUp \in BOOLEAN
  /\ Operations \subseteq OperationKinds \cup Groups
  /\ Pinnable \subseteq Services

VARIABLES
  state,        \* state of each runner
  op,           \* the operation that holds the core mutex
  task,         \* what has become of each service in it
  joined,       \* services whose outcome the operation has written back
  boot_pins,    \* the pins as SupervisorCore caches them
  pin_table,    \* table boot_pin of the store, which survives the daemon
  boot_pending, \* the auto_up task has not taken the mutex yet
  loaded        \* history: the pins could be read when the daemon started

vars == <<state, op, task, joined, boot_pins, pin_table, boot_pending, loaded>>
pins == <<boot_pins, pin_table, loaded>>

-----------------------------------------------------------------------------
State == {"Stopped", "Starting", "Healthy", "Unhealthy", "Restarting", "Failed", "Draining"}

PinMode == {"auto", "manual"}
Unpinned == "none"

UpKinds == {"up_all", "up_one", "group_up", "boot"}
DownKinds == {"down_all", "down_one", "group_down"}
GroupKinds == {"group_up", "group_down"}

Untouched == [s \in Services |-> "none"]
Outcomes == {"blocked", "skipped", "started", "failed", "fatal", "env", "stopped"}

Free == [kind |-> "free", plane |-> "none", members |-> {}, rest |-> {}, mode |-> Unpinned]

(* An operation takes the mutex: rest holds the layers it has yet to do.   *)
Begin(kind, plane, members, mode) ==
  /\ op = Free
  /\ op' = [kind |-> kind, plane |-> plane, members |-> members,
            rest |-> {layer_of[s] : s \in members}, mode |-> mode]
  /\ task' = Untouched
  /\ joined' = {}

Release == op' = Free
-----------------------------------------------------------------------------
(* Which services an operation is about. *)

(* Fault: any pin counts as an automatic start. *)
boot_auto_any_pin(s) == boot_pins[s] \in PinMode \/ boot_tier[s] = "T0"

boot_auto(s) ==
  \/ boot_pins[s] = "auto"
  \/ boot_pins[s] = Unpinned /\ boot_tier[s] = "T0"

Members(group) ==
  CASE group = "pinned" -> {s \in Services : boot_pins[s] # Unpinned}
    [] group = "app"    -> {s \in Services : boot_tier[s] # "T0"}
    [] OTHER            -> {s \in Services : boot_tier[s] = group}

UpAll == /\ "up_all" \in Operations
         /\ Begin("up_all", IF ComposeOn THEN "sidecar" ELSE "native", Services, Unpinned)
         /\ UNCHANGED <<state, pins, boot_pending>>

DownAll == /\ "down_all" \in Operations
           /\ Begin("down_all", IF ComposeOn THEN "sidecar" ELSE "native", Services, Unpinned)
           /\ UNCHANGED <<state, pins, boot_pending>>

BootGroup == /\ \E kind \in GroupKinds \cap Operations, group \in Groups \cap Operations :
                  Begin(kind, "native", Members(group), Unpinned)
             /\ UNCHANGED <<state, pins, boot_pending>>

OneService == /\ \E kind \in {"up_one", "down_one"} \cap Operations, s \in Services :
                   Begin(kind, "native", {s}, Unpinned)
              /\ UNCHANGED <<state, pins, boot_pending>>

(* The task that auto_up_on_start spawns when the daemon is ready. *)
BootSet == /\ boot_pending
           /\ Begin("boot", "native", {s \in Services : boot_auto(s)}, Unpinned)
           /\ boot_pending' = FALSE
           /\ UNCHANGED <<state, pins>>
-----------------------------------------------------------------------------
(* The compose plane around the natives.  Any docker command may fail;     *)
(* `up` gives the operation up then, `down` goes on unless docker cannot    *)
(* be run at all.                                                          *)
Docker == Release \/ op' = [op EXCEPT !.plane = "native"]

UpSidecar == /\ op.kind = "up_all" /\ op.plane = "sidecar"
             /\ Docker
             /\ UNCHANGED <<state, task, joined, pins, boot_pending>>

ComposeDown == /\ op.kind = "down_all" /\ op.plane = "sidecar"
               /\ Docker
               /\ UNCHANGED <<state, task, joined, pins, boot_pending>>

UpBusiness == /\ op.plane = "business"
              /\ Release
              /\ UNCHANGED <<state, task, joined, pins, boot_pending>>
-----------------------------------------------------------------------------
(* The natives, layer by layer: ascending for up, descending for down.     *)

Current(l) == /\ l \in op.rest
              /\ \A k \in op.rest : IF op.kind \in UpKinds THEN l <= k ELSE k <= l

InBatch(s) == op.plane = "native" /\ s \in op.members /\ Current(layer_of[s])

(* Whatever docker ps says of the sidecars: when it fails the gate is open. *)
GateMayClose(s) == ComposeOn /\ deps_for[s] # {}

Gate(s) ==
  /\ op.kind \in UpKinds
  /\ InBatch(s) /\ task[s] = "none"
  /\ \/ /\ task' = [task EXCEPT ![s] = "queued"]
        /\ UNCHANGED <<state, joined>>
     \/ /\ GateMayClose(s)
        /\ state' = [state EXCEPT ![s] = "Stopped"]
        /\ task' = [task EXCEPT ![s] = "blocked"]
        /\ joined' = joined \cup {s}
  /\ UNCHANGED <<op, pins, boot_pending>>

SpawnStop(s) ==
  /\ op.kind \in DownKinds
  /\ InBatch(s) /\ task[s] = "none"
  /\ task' = [task EXCEPT ![s] = "queued"]
  /\ UNCHANGED <<state, op, joined, pins, boot_pending>>

Running == {s \in Services : task[s] = "running"}

(* Fault: one permit is never handed out. *)
PermitFree_one_kept == Cardinality(Running) + 1 < MaxConcurrentStart

PermitFree == Cardinality(Running) < MaxConcurrentStart

(* With a permit in hand the task probes the port, resolves the            *)
(* environment, and runs the start command.                                *)
Launch(s) ==
  /\ task[s] = "queued"
  /\ PermitFree
  /\ \E next \in {"running"}
          \cup (IF op.kind \in UpKinds THEN {"skipped"} ELSE {})
          \cup (IF op.kind \in UpKinds /\ s \in needs_injection THEN {"env"} ELSE {}) :
       task' = [task EXCEPT ![s] = next]
  /\ UNCHANGED <<state, op, joined, pins, boot_pending>>

(* Fault: a start that failed is tried again on the spot. *)
CommandReturns_requeued(s) ==
  /\ task[s] = "running"
  /\ \E outcome \in IF op.kind \in UpKinds THEN {"started", "queued", "fatal"} ELSE {"stopped"} :
       task' = [task EXCEPT ![s] = outcome]
  /\ UNCHANGED <<state, op, joined, pins, boot_pending>>

CommandReturns(s) ==
  /\ task[s] = "running"
  /\ \E outcome \in IF op.kind \in UpKinds THEN {"started", "failed", "fatal"} ELSE {"stopped"} :
       task' = [task EXCEPT ![s] = outcome]
  /\ UNCHANGED <<state, op, joined, pins, boot_pending>>

(* The whole batch has been spawned before the first handle is awaited.    *)
AllSpawned == \A s \in op.members : Current(layer_of[s]) => task[s] # "none"

(* Fault: a service that was up already keeps the state it had. *)
Written_skip_ignored(s) ==
  CASE task[s] = "started" -> "Starting"
    [] task[s] = "failed"  -> "Unhealthy"
    [] task[s] = "stopped" -> "Stopped"
    [] task[s] \in {"skipped", "env"} -> state[s]
    [] OTHER -> "Failed"

(* Fault: the outcome itself is written back. *)
Written_outcome(s) == task[s]

(* up_one only reports an environment it cannot resolve. *)
Written(s) ==
  CASE task[s] = "skipped" -> "Healthy"
    [] task[s] = "started" -> "Starting"
    [] task[s] = "failed"  -> "Unhealthy"
    [] task[s] = "stopped" -> "Stopped"
    [] task[s] = "env" /\ op.kind = "up_one" -> state[s]
    [] OTHER -> "Failed"

Join(s) ==
  /\ InBatch(s) /\ AllSpawned
  /\ task[s] \in Outcomes /\ s \notin joined
  /\ state' = [state EXCEPT ![s] = Written(s)]
  /\ joined' = joined \cup {s}
  /\ UNCHANGED <<op, task, pins, boot_pending>>

(* Fault: the next layer begins once everything is spawned. *)
LayerDone_spawned(l) == Current(l) /\ AllSpawned

LayerDone(l) == /\ Current(l)
                /\ \A s \in op.members : layer_of[s] = l => s \in joined

NextLayer ==
  /\ op.plane = "native"
  /\ \E l \in op.rest : LayerDone(l) /\ op' = [op EXCEPT !.rest = @ \ {l}]
  /\ UNCHANGED <<state, task, joined, pins, boot_pending>>

NativeDone ==
  /\ op.plane = "native" /\ op.rest = {}
  /\ CASE op.kind = "up_all" /\ ComposeOn -> op' = [op EXCEPT !.plane = "business"]
       [] op.kind \in GroupKinds -> op' = [op EXCEPT !.plane = "reply"]
       [] OTHER -> Release
  /\ UNCHANGED <<state, task, joined, pins, boot_pending>>

(* What boot_group counts for its caller. *)
Summary ==
  [started    |-> {s \in op.members : state[s] \in {"Starting", "Restarting"}},
   already_up |-> {s \in op.members : state[s] \in {"Healthy", "Draining"}},
   stopped    |-> {s \in op.members : state[s] = "Stopped" /\ op.kind = "group_down"},
   skipped    |-> {s \in op.members : state[s] = "Stopped" /\ op.kind = "group_up"},
   retrying   |-> {s \in op.members : state[s] = "Unhealthy"},
   failed     |-> {s \in op.members : state[s] = "Failed"}]

Reply == /\ op.plane = "reply"
         /\ Release
         /\ UNCHANGED <<state, task, joined, pins, boot_pending>>
-----------------------------------------------------------------------------
(* Pins: the table is written first, then the cache; a table that cannot   *)
(* be written leaves both as they were.                                    *)
SetBootPin(s, mode) ==
  /\ "pin" \in Operations
  /\ Begin("pin", "cache", {s}, mode)
  /\ pin_table' = [pin_table EXCEPT ![s] = mode]
  /\ UNCHANGED <<state, boot_pins, boot_pending, loaded>>

(* Fault: clearing a pin forgets the cache. *)
CachePin_keeps_cleared ==
  /\ op.plane = "cache"
  /\ boot_pins' = [s \in Services |->
       IF s \in op.members /\ op.mode # Unpinned THEN op.mode ELSE boot_pins[s]]
  /\ Release
  /\ UNCHANGED <<state, task, joined, pin_table, boot_pending, loaded>>

CachePin ==
  /\ op.plane = "cache"
  /\ boot_pins' = [s \in Services |-> IF s \in op.members THEN op.mode ELSE boot_pins[s]]
  /\ Release
  /\ UNCHANGED <<state, task, joined, pin_table, boot_pending, loaded>>
-----------------------------------------------------------------------------
(* Between two operations the tick moves a service (Runner knows when), and *)
(* drain_all every service that may be drained.                            *)

TickTo(st) ==
  CASE st = "Draining" -> {"Stopped"}
    [] st \in {"Stopped", "Failed"} -> {"Healthy"}
    [] st \in {"Healthy", "Starting"} -> {"Healthy", "Unhealthy"}
    [] OTHER -> {"Healthy", "Unhealthy", "Restarting", "Failed"}

Tick(s) == /\ op = Free
           /\ \E next \in TickTo(state[s]) : state' = [state EXCEPT ![s] = next]
           /\ UNCHANGED <<op, task, joined, pins, boot_pending>>

DrainAll == /\ "drain_all" \in Operations
            /\ op = Free
            /\ state' = [s \in Services |->
                 IF state[s] \in {"Healthy", "Starting", "Unhealthy"} THEN "Draining" ELSE state[s]]
            /\ UNCHANGED <<op, task, joined, pins, boot_pending>>
-----------------------------------------------------------------------------
(* A daemon that starts adopts what answers, and reads the pins; when it   *)
(* cannot, it goes on without any.                                         *)
Boot(table) ==
  /\ state' \in [Services -> {"Stopped", "Healthy"}]
  /\ \/ boot_pins' = table /\ loaded' = TRUE
     \/ boot_pins' = Untouched /\ loaded' = FALSE
  /\ boot_pending' = AutoUp

Init == /\ state \in [Services -> {"Stopped", "Healthy"}]
        /\ op = Free
        /\ task = Untouched
        /\ joined = {}
        /\ pin_table = Untouched
        /\ boot_pins = Untouched
        /\ boot_pending = AutoUp
        /\ loaded = TRUE

(* It may die in the middle of anything. *)
DaemonRestart == /\ "daemon_restart" \in Operations
                 /\ Boot(pin_table)
                 /\ Release
                 /\ task' = Untouched
                 /\ joined' = {}
                 /\ UNCHANGED pin_table

Work(s) == Gate(s) \/ SpawnStop(s) \/ Launch(s) \/ CommandReturns(s) \/ Join(s)
Plane == UpSidecar \/ ComposeDown \/ UpBusiness \/ NextLayer \/ NativeDone \/ Reply \/ CachePin

Next == \/ UpAll \/ DownAll \/ BootGroup \/ OneService \/ BootSet
        \/ Plane
        \/ \E s \in Services : Work(s) \/ Tick(s)
        \/ \E s \in Pinnable, mode \in PinMode \cup {Unpinned} : SetBootPin(s, mode)
        \/ DrainAll \/ DaemonRestart

Spec == Init /\ [][Next]_vars
-----------------------------------------------------------------------------
(* Properties. *)

(* Every variable stays in its type. *)
Operation ==
  [kind : {"free", "boot", "pin"} \cup UpKinds \cup DownKinds,
   plane : {"none", "sidecar", "native", "business", "reply", "cache"},
   members : SUBSET Services, rest : SUBSET Nat, mode : PinMode \cup {Unpinned}]

Pins == [Services -> PinMode \cup {Unpinned}]

TypeOK ==
  /\ state \in [Services -> State]
  /\ op \in Operation
  /\ task \in [Services -> {"none", "queued", "running"} \cup Outcomes]
  /\ joined \in SUBSET Services
  /\ boot_pins \in Pins /\ pin_table \in Pins
  /\ boot_pending \in BOOLEAN /\ loaded \in BOOLEAN

PermitsKept == Cardinality(Running) <= MaxConcurrentStart

(* README:38-39, layer order: while a command of one layer runs, every      *)
(* member of a layer before it is done with, none of a layer after it has  *)
(* begun, and the semaphore is never overdrawn.                            *)
Before(s, t) == IF op.kind \in UpKinds THEN layer_of[s] < layer_of[t]
                                       ELSE layer_of[t] < layer_of[s]
LayersInOrder ==
  /\ \A s, t \in op.members : task[t] = "running" /\ Before(s, t) => s \in joined
  /\ PermitsKept

(* README:228: a pin survives the daemon.  Whenever no pin is being        *)
(* written, the cache never holds a pin the table lacks, and holds all of  *)
(* them if the table could be read at the start.                           *)
PinsAgree ==
  op.plane # "cache" =>
    \A s \in Services : IF loaded THEN boot_pins[s] = pin_table[s]
                                  ELSE boot_pins[s] \in {pin_table[s], Unpinned}

(* README:219-223: the boot task starts no service the user pinned manual, *)
(* and none outside T0 that is not pinned auto.                            *)
BootSetHonoured ==
  op.kind = "boot" /\ loaded =>
    \A s \in Services : task[s] # "none" =>
      \/ pin_table[s] = "auto"
      \/ pin_table[s] = Unpinned /\ boot_tier[s] = "T0"

(* What boot_group answers is what happened: each count is the set of       *)
(* members whose own command ended that way in this very call.             *)
Ended(outcomes) == {s \in op.members : task[s] \in outcomes}
SummaryHonest ==
  op.plane = "reply" =>
    Summary = [started |-> Ended({"started"}), already_up |-> Ended({"skipped"}),
               stopped |-> Ended({"stopped"}), skipped |-> Ended({"blocked"}),
               retrying |-> Ended({"failed"}), failed |-> Ended({"fatal", "env"})]

(* An operation that holds the mutex can always go on: it never waits for  *)
(* a permit nobody will give back, nor for a service that is not in its    *)
(* layer.                                                                  *)
OperationNeverStuck ==
  op # Free => ENABLED (Plane \/ \E s \in Services : Work(s))

(* How far an operation is: through the planes, the layers, and with each  *)
(* of its services.                                                        *)
PlaneStage == CASE op.plane = "sidecar" -> 0 [] op.plane = "native" -> 1 [] OTHER -> 2

Stage(s) == IF s \in joined THEN 4
            ELSE CASE task[s] = "none" -> 0 [] task[s] = "queued" -> 1
                   [] task[s] = "running" -> 2 [] OTHER -> 3

(* Nor does it go round in circles, with the mutex that everybody waits    *)
(* for in its hands: each of its steps ends it or brings a plane, a layer  *)
(* or a service further, and none takes back what another has done.  There *)
(* are three planes, five layers and four stages of a service, so it ends. *)
Nearer ==
  /\ op'.kind = op.kind /\ op'.members = op.members
  /\ PlaneStage <= PlaneStage' /\ op'.rest \subseteq op.rest
  /\ \A s \in Services : Stage(s) <= Stage(s)'
  /\ \/ PlaneStage < PlaneStage'
     \/ op'.rest # op.rest
     \/ \E s \in op.members : Stage(s) < Stage(s)'

OperationAdvances == [][op # Free => op' = Free \/ Nearer]_vars

(* What makes these inductive: which plane an operation of each kind is in, *)
PlanesOfKinds ==
  /\ op.plane = "sidecar" => op.kind \in {"up_all", "down_all"} /\ task = Untouched /\ joined = {}
  /\ op.plane = "native" => op.kind \in UpKinds \cup DownKinds
  /\ op.plane = "reply" => op.kind \in GroupKinds /\ op.members \subseteq joined
  /\ op.plane = "cache" => op.kind = "pin"
  /\ op.kind = "boot" => op.plane = "native"

(* where the loop over the layers stands,                                  *)
LayerLoop ==
  /\ op.plane = "sidecar" => \A s \in op.members : layer_of[s] \in op.rest
  /\ op.plane = "native" =>
       /\ \A s \in op.members : layer_of[s] \in op.rest \/ s \in joined
       /\ \A s \in Services : task[s] # "none" =>
            s \in op.members /\ (layer_of[s] \in op.rest => Current(layer_of[s]))
  /\ \A s \in Services : task[s] \in {"queued", "running"} =>
       op.plane = "native" /\ s \notin joined

(* what has been written back,                                             *)
WrittenBack ==
  op.plane \in {"native", "reply"} =>
    /\ \A s \in Services : task[s] \in Outcomes =>
         (task[s] = "stopped" <=> op.kind \in DownKinds)
    /\ \A s \in Services : task[s] = "blocked" => s \in joined
    /\ \A s \in joined :
         /\ task[s] \in Outcomes
         /\ state[s] = IF task[s] = "blocked" THEN "Stopped" ELSE Written(s)

(* and which pin the cache still lacks, or the boot task went by.          *)
PinsOfOperations ==
  /\ op.plane = "cache" =>
       \A s \in Services :
         IF s \in op.members THEN pin_table[s] = op.mode
         ELSE IF loaded THEN boot_pins[s] = pin_table[s]
                        ELSE boot_pins[s] \in {pin_table[s], Unpinned}
  /\ op.kind = "boot" => \A s \in op.members : boot_auto(s)

IInv == /\ TypeOK /\ PlanesOfKinds /\ LayerLoop /\ WrittenBack
        /\ PermitsKept /\ PinsAgree /\ PinsOfOperations
=============================================================================
