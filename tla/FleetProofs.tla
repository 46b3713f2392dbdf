----------------------------- MODULE FleetProofs -----------------------------
(***************************************************************************)
(* Theorems about Fleet, for every registry, every number of permits and   *)
(* every set of operations: the layers are taken in order, the pins agree, *)
(* the boot task honours them, and a group's answer is what happened.      *)
(*                                                                         *)
(* LayersInOrder, BootSetHonoured and SummaryHonest speak of a single      *)
(* moment of an operation; what makes them inductive is IInv, the account  *)
(* of where the loop over the layers stands.  Its conjuncts are proved one *)
(* lemma each, with a step for every action.                               *)
(***************************************************************************)
EXTENDS Fleet, TLAPS, FiniteSetTheorems

(* What the operations over native services do when they take the mutex.   *)
LEMMA Begun ==
  ASSUME UpAll \/ DownAll \/ BootGroup \/ OneService \/ BootSet
  PROVE  \E kind \in UpKinds \cup DownKinds, plane \in {"sidecar", "native"},
            members \in SUBSET Services :
           /\ Begin(kind, plane, members, Unpinned)
           /\ plane = "sidecar" => kind \in {"up_all", "down_all"}
           /\ kind = "boot" => \A s \in members : boot_auto(s)
           /\ UNCHANGED <<state, pins>>
           /\ boot_pending' \in {FALSE, boot_pending}
<1>1. CASE UpAll
  BY <1>1 DEF UpAll, UpKinds, DownKinds
<1>2. CASE DownAll
  BY <1>2 DEF DownAll, UpKinds, DownKinds
<1>3. CASE BootGroup
  <2>1. PICK kind \in GroupKinds, group \in Groups :
          Begin(kind, "native", Members(group), Unpinned)
    BY <1>3 DEF BootGroup
  <2>2. Members(group) \in SUBSET Services
    BY <2>1 DEF Members, Groups, BootTier
  <2>3. kind \in UpKinds \cup DownKinds /\ kind # "boot"
    BY <2>1 DEF GroupKinds, UpKinds, DownKinds
  <2> QED BY <1>3, <2>1, <2>2, <2>3 DEF BootGroup
<1>4. CASE OneService
  <2>1. PICK kind \in {"up_one", "down_one"}, s \in Services :
          Begin(kind, "native", {s}, Unpinned)
    BY <1>4 DEF OneService
  <2>2. kind \in UpKinds \cup DownKinds /\ kind # "boot"
    BY <2>1 DEF UpKinds, DownKinds
  <2> QED BY <1>4, <2>1, <2>2 DEF OneService
<1>5. CASE BootSet
  <2> DEFINE auto == {s \in Services : boot_auto(s)}
  <2>1. Begin("boot", "native", auto, Unpinned)
    BY <1>5 DEF BootSet
  <2>2. auto \in SUBSET Services /\ (\A s \in auto : boot_auto(s))
    OBVIOUS
  <2>3. "boot" \in UpKinds \cup DownKinds
    BY DEF UpKinds
  <2>4. UNCHANGED <<state, pins>> /\ boot_pending' \in {FALSE, boot_pending}
    BY <1>5 DEF BootSet
  <2> HIDE DEF auto
  <2> QED BY <2>1, <2>2, <2>3, <2>4
<1> QED BY <1>1, <1>2, <1>3, <1>4, <1>5

-----------------------------------------------------------------------------
(* An operation of each shape is an Operation. *)
LEMMA OperationShapes ==
  /\ Free \in Operation
  /\ \A o \in Operation, plane \in {"native", "business", "reply"} :
       [o EXCEPT !.plane = plane] \in Operation
  /\ \A o \in Operation : \A l : [o EXCEPT !.rest = @ \ {l}] \in Operation
  /\ \A kind \in UpKinds \cup DownKinds \cup {"pin"},
        plane \in {"sidecar", "native", "cache"}, members \in SUBSET Services,
        mode \in PinMode \cup {Unpinned} :
       [kind |-> kind, plane |-> plane, members |-> members,
        rest |-> {layer_of[s] : s \in members}, mode |-> mode] \in Operation
<1>1. Free \in Operation
  BY DEF Free, Operation
<1>2. \A o \in Operation, plane \in {"native", "business", "reply"} :
        [o EXCEPT !.plane = plane] \in Operation
  BY DEF Operation
<1>3. \A o \in Operation : \A l : [o EXCEPT !.rest = @ \ {l}] \in Operation
  BY DEF Operation
<1>4. \A members \in SUBSET Services : {layer_of[s] : s \in members} \in SUBSET Nat
  BY FleetAssumption DEF Layer
<1>5. \A kind \in UpKinds \cup DownKinds \cup {"pin"},
         plane \in {"sidecar", "native", "cache"}, members \in SUBSET Services,
         mode \in PinMode \cup {Unpinned}, rest \in SUBSET Nat :
        [kind |-> kind, plane |-> plane, members |-> members,
         rest |-> rest, mode |-> mode] \in Operation
  BY DEF Operation
<1> QED BY <1>1, <1>2, <1>3, <1>4, <1>5

(* The state join writes back is a state of a runner. *)
LEMMA WrittenType ==
  ASSUME TypeOK, NEW s \in Services
  PROVE  Written(s) \in State
BY DEF TypeOK, Written, State

(* The initial states are well typed.                                      *)
LEMMA TypeInit == Init => TypeOK
<1> SUFFICES ASSUME Init PROVE TypeOK
  OBVIOUS
<1>1. op \in Operation
  BY OperationShapes DEF Init
<1>2. Untouched \in Pins
  BY DEF Untouched, Pins, Unpinned
<1>3. AutoUp \in BOOLEAN
  BY FleetAssumption
<1>4. state \in [Services -> State]
  BY DEF Init, State
<1>5. task \in [Services -> {"none", "queued", "running"} \cup Outcomes] /\ joined \in SUBSET Services
  BY DEF Init, Untouched
<1> QED BY <1>1, <1>2, <1>3, <1>4, <1>5 DEF Init, TypeOK

(* The types of the operation's bookkeeping once it holds the mutex.       *)
LEMMA BeginType ==
  ASSUME NEW kind \in UpKinds \cup DownKinds \cup {"pin"},
         NEW plane \in {"sidecar", "native", "cache"},
         NEW members \in SUBSET Services, NEW mode \in PinMode \cup {Unpinned},
         Begin(kind, plane, members, mode)
  PROVE  /\ op' \in Operation
         /\ task' \in [Services -> {"none", "queued", "running"} \cup Outcomes]
         /\ joined' \in SUBSET Services
<1>1. op' \in Operation
  BY OperationShapes DEF Begin
<1>2. task' \in [Services -> {"none", "queued", "running"} \cup Outcomes] /\ joined' = {}
  BY DEF Begin, Untouched
<1> QED BY <1>1, <1>2

(* Every step keeps the types.                                             *)
LEMMA TypeStep == TypeOK /\ [Next]_vars => TypeOK'
<1> SUFFICES ASSUME TypeOK, [Next]_vars PROVE TypeOK'
  OBVIOUS
<1> USE DEF pins
<1>1. CASE UpAll \/ DownAll \/ BootGroup \/ OneService \/ BootSet
  <2>1. PICK kind \in UpKinds \cup DownKinds, plane \in {"sidecar", "native"},
             members \in SUBSET Services :
          Begin(kind, plane, members, Unpinned) /\ UNCHANGED <<state, pins>>
          /\ boot_pending' \in {FALSE, boot_pending}
    BY <1>1, Begun
  <2>2. /\ op' \in Operation
        /\ task' \in [Services -> {"none", "queued", "running"} \cup Outcomes]
        /\ joined' \in SUBSET Services
    BY <2>1, BeginType
  <2> QED BY <2>1, <2>2 DEF TypeOK
<1>2. CASE Plane
  <2>1. CASE UpSidecar
    BY <2>1, OperationShapes DEF UpSidecar, Docker, Release, TypeOK
  <2>2. CASE ComposeDown
    BY <2>2, OperationShapes DEF ComposeDown, Docker, Release, TypeOK
  <2>3. CASE UpBusiness
    BY <2>3, OperationShapes DEF UpBusiness, Release, TypeOK
  <2>4. CASE NextLayer
    BY <2>4, OperationShapes DEF NextLayer, TypeOK
  <2>5. CASE NativeDone
    BY <2>5, OperationShapes DEF NativeDone, Release, TypeOK
  <2>6. CASE Reply
    BY <2>6, OperationShapes DEF Reply, Release, TypeOK
  <2>7. CASE CachePin
    <3>1. op.mode \in PinMode \cup {Unpinned}
      BY DEF TypeOK, Operation
    <3>2. boot_pins' \in Pins
      BY <2>7, <3>1 DEF CachePin, TypeOK, Pins
    <3> QED BY <2>7, <3>2, OperationShapes DEF CachePin, Release, TypeOK
  <2> QED BY <1>2, <2>1, <2>2, <2>3, <2>4, <2>5, <2>6, <2>7 DEF Plane
<1>3. ASSUME NEW s \in Services, Gate(s) PROVE TypeOK'
  BY <1>3 DEF Gate, TypeOK, State, Outcomes
<1>4. ASSUME NEW s \in Services, SpawnStop(s) PROVE TypeOK'
  BY <1>4 DEF SpawnStop, TypeOK
<1>5. ASSUME NEW s \in Services, Launch(s) PROVE TypeOK'
  <2>1. task' \in [Services -> {"none", "queued", "running"} \cup Outcomes]
    BY <1>5 DEF Launch, TypeOK, Outcomes
  <2> QED BY <1>5, <2>1 DEF Launch, TypeOK
<1>6. ASSUME NEW s \in Services, CommandReturns(s) PROVE TypeOK'
  <2>1. task' \in [Services -> {"none", "queued", "running"} \cup Outcomes]
    BY <1>6 DEF CommandReturns, TypeOK, Outcomes
  <2> QED BY <1>6, <2>1 DEF CommandReturns, TypeOK
<1>7. ASSUME NEW s \in Services, Join(s) PROVE TypeOK'
  <2>1. state' \in [Services -> State]
    BY <1>7, WrittenType DEF Join, TypeOK
  <2> QED BY <1>7, <2>1 DEF Join, TypeOK
<1>8. ASSUME NEW s \in Services, Tick(s) PROVE TypeOK'
  <2>1. TickTo(state[s]) \subseteq State
    BY DEF TickTo, State
  <2>2. state' \in [Services -> State]
    BY <1>8, <2>1 DEF Tick, TypeOK
  <2> QED BY <1>8, <2>2 DEF Tick, TypeOK
<1>9. ASSUME NEW s \in Pinnable, NEW mode \in PinMode \cup {Unpinned}, SetBootPin(s, mode)
      PROVE  TypeOK'
  <2>1. s \in Services
    BY FleetAssumption
  <2>2. /\ op' \in Operation
        /\ task' \in [Services -> {"none", "queued", "running"} \cup Outcomes]
        /\ joined' \in SUBSET Services
    BY <1>9, <2>1, BeginType DEF SetBootPin
  <2>3. pin_table' \in Pins
    BY <1>9, <2>1 DEF SetBootPin, TypeOK, Pins
  <2> QED BY <1>9, <2>2, <2>3 DEF SetBootPin, TypeOK
<1>10. CASE DrainAll
  BY <1>10 DEF DrainAll, TypeOK, State
<1>11. CASE DaemonRestart
  <2>1. state' \in [Services -> State]
    BY <1>11 DEF DaemonRestart, Boot, State
  <2>2. boot_pins' \in Pins /\ pin_table' \in Pins /\ loaded' \in BOOLEAN
    BY <1>11 DEF DaemonRestart, Boot, TypeOK, Pins, Untouched, Unpinned
  <2>3. boot_pending' \in BOOLEAN
    BY <1>11, FleetAssumption DEF DaemonRestart, Boot
  <2>4. /\ op' \in Operation /\ joined' \in SUBSET Services
        /\ task' \in [Services -> {"none", "queued", "running"} \cup Outcomes]
    BY <1>11, OperationShapes DEF DaemonRestart, Release, Untouched
  <2> QED BY <2>1, <2>2, <2>3, <2>4 DEF TypeOK
<1>12. CASE UNCHANGED vars
  BY <1>12 DEF vars, TypeOK
<1> QED BY <1>1, <1>2, <1>3, <1>4, <1>5, <1>6, <1>7, <1>8, <1>9, <1>10, <1>11, <1>12
        DEF Next, Work

(* Every reachable state has its type. *)
THEOREM TypeCorrect == Spec => []TypeOK
<1> QED BY TypeInit, TypeStep, PTL DEF Spec
-----------------------------------------------------------------------------
(* The inductive invariant. *)

(* The invariant holds before the first operation.                         *)
LEMMA IInvInit == Init => IInv
<1> SUFFICES ASSUME Init PROVE IInv
  OBVIOUS
<1>1. TypeOK
  BY TypeInit
<1>2. PlanesOfKinds /\ LayerLoop /\ WrittenBack /\ PinsOfOperations
  BY DEF Init, Free, Untouched, PlanesOfKinds, LayerLoop, WrittenBack, PinsOfOperations
<1>3. Running = {}
  BY DEF Init, Untouched, Running
<1>4. PermitsKept
  BY <1>3, FS_EmptySet, FleetAssumption DEF PermitsKept
<1>5. PinsAgree
  BY DEF Init, Untouched, PinsAgree
<1> QED BY <1>1, <1>2, <1>4, <1>5 DEF IInv

(* A kind is for up or for down. *)
LEMMA Kinds == /\ UpKinds \cap DownKinds = {}
               /\ "boot" \notin GroupKinds \cup {"up_all", "pin"}
               /\ GroupKinds \subseteq UpKinds \cup DownKinds
               /\ "pin" \notin UpKinds \cup DownKinds
BY DEF UpKinds, DownKinds, GroupKinds

(* When the loop is over, every member is written back. *)
LEMMA AllWrittenBack ==
  ASSUME IInv, NativeDone
  PROVE  /\ op.members \subseteq joined
         /\ \A s \in Services : task[s] \notin {"queued", "running"}
<1>1. op.plane = "native" /\ op.rest = {}
  BY DEF NativeDone
<1>2. op.members \subseteq joined
  BY <1>1 DEF IInv, LayerLoop
<1> QED BY <1>1, <1>2 DEF IInv, LayerLoop

(* Every step keeps the planes of the operations.                          *)
LEMMA PlanesStep == IInv /\ [Next]_vars => PlanesOfKinds'
<1> SUFFICES ASSUME IInv, [Next]_vars PROVE PlanesOfKinds'
  OBVIOUS
<1>0. PlanesOfKinds /\ op \in Operation
  BY DEF IInv, TypeOK
<1> USE DEF PlanesOfKinds
<1>1. CASE UpAll \/ DownAll \/ BootGroup \/ OneService \/ BootSet
  <2>1. PICK kind \in UpKinds \cup DownKinds, plane \in {"sidecar", "native"},
             members \in SUBSET Services :
          /\ Begin(kind, plane, members, Unpinned)
          /\ plane = "sidecar" => kind \in {"up_all", "down_all"}
    BY <1>1, Begun
  <2> QED BY <2>1 DEF Begin
<1>2. CASE Plane
  <2>1. CASE UpSidecar
    BY <2>1, <1>0 DEF UpSidecar, Docker, Release, Free, UpKinds, Operation
  <2>2. CASE ComposeDown
    BY <2>2, <1>0 DEF ComposeDown, Docker, Release, Free, DownKinds, Operation
  <2>3. CASE UpBusiness
    BY <2>3 DEF UpBusiness, Release, Free
  <2>4. CASE NextLayer
    BY <2>4, <1>0 DEF NextLayer, Operation
  <2>5. CASE NativeDone
    BY <2>5, <1>0, AllWrittenBack, Kinds DEF NativeDone, Release, Free, Operation
  <2>6. CASE Reply
    BY <2>6 DEF Reply, Release, Free
  <2>7. CASE CachePin
    BY <2>7 DEF CachePin, Release, Free
  <2> QED BY <1>2, <2>1, <2>2, <2>3, <2>4, <2>5, <2>6, <2>7 DEF Plane
<1>3. ASSUME NEW s \in Services, Work(s) PROVE PlanesOfKinds'
  <2>1. task # Untouched \/ op.plane = "native"
    BY <1>3 DEF Work, Gate, SpawnStop, Launch, CommandReturns, Join, InBatch, Untouched
  <2>2. op.plane # "sidecar" /\ UNCHANGED op /\ joined \subseteq joined'
    BY <1>3, <1>0, <2>1 DEF Work, Gate, SpawnStop, Launch, CommandReturns, Join
  <2> QED BY <1>0, <2>2
<1>4. ASSUME NEW s \in Services, Tick(s) PROVE PlanesOfKinds'
  BY <1>4, <1>0 DEF Tick, Free
<1>5. ASSUME NEW s \in Pinnable, NEW mode \in PinMode \cup {Unpinned}, SetBootPin(s, mode)
      PROVE  PlanesOfKinds'
  BY <1>5 DEF SetBootPin, Begin
<1>6. CASE DrainAll
  BY <1>6, <1>0 DEF DrainAll, Free
<1>7. CASE DaemonRestart
  BY <1>7 DEF DaemonRestart, Release, Free
<1>8. CASE UNCHANGED vars
  BY <1>8, <1>0 DEF vars
<1> QED BY <1>1, <1>2, <1>3, <1>4, <1>5, <1>6, <1>7, <1>8 DEF Next

(* Once no task is at work, giving the mutex back leaves nothing behind.   *)
LEMMA ReleasedLoop ==
  ASSUME Release, UNCHANGED <<task, joined>>,
         \A s \in Services : task[s] \notin {"queued", "running"}
  PROVE  LayerLoop'
BY DEF Release, Free, LayerLoop

(* Every step keeps the loop's account of its layers.                      *)
LEMMA LoopStep == IInv /\ [Next]_vars => LayerLoop'
<1> SUFFICES ASSUME IInv, [Next]_vars PROVE LayerLoop'
  OBVIOUS
<1>0. LayerLoop /\ PlanesOfKinds /\ op \in Operation /\ layer_of \in [Services -> Nat]
  BY FleetAssumption DEF Layer, IInv, TypeOK
<1>a. op.members \subseteq Services
  BY <1>0 DEF Operation
<1>b. op.plane # "native" => \A s \in Services : task[s] \notin {"queued", "running"}
  BY <1>0 DEF LayerLoop
<1>1. CASE UpAll \/ DownAll \/ BootGroup \/ OneService \/ BootSet
  <2>1. PICK kind \in UpKinds \cup DownKinds, plane \in {"sidecar", "native"},
             members \in SUBSET Services :
          Begin(kind, plane, members, Unpinned)
    BY <1>1, Begun
  <2>2. \A s \in Services : task'[s] = "none"
    BY <2>1 DEF Begin, Untouched
  <2>3. \A s \in op'.members : layer_of[s] \in op'.rest
    BY <2>1 DEF Begin
  <2> QED BY <2>2, <2>3 DEF LayerLoop
<1>2. CASE Plane
  <2>1. CASE UpSidecar \/ ComposeDown
    <3>1. op.plane = "sidecar" /\ UNCHANGED <<task, joined>>
      BY <2>1 DEF UpSidecar, ComposeDown, Docker, Docker
    <3>2. \A s \in Services : task[s] = "none"
      BY <1>0, <3>1 DEF PlanesOfKinds, Untouched
    <3>3. CASE Release
      BY <3>1, <3>2, <3>3, ReleasedLoop
    <3>4. CASE op' = [op EXCEPT !.plane = "native"]
      <4>1. op'.plane = "native" /\ op'.rest = op.rest /\ op'.members = op.members
        BY <1>0, <3>4 DEF Operation
      <4> QED BY <1>0, <3>1, <3>2, <4>1 DEF LayerLoop
    <3> QED BY <2>1, <3>3, <3>4 DEF UpSidecar, ComposeDown, Docker, Docker
  <2>2. CASE UpBusiness \/ Reply \/ CachePin
    <3>1. Release /\ UNCHANGED <<task, joined>> /\ op.plane # "native"
      BY <2>2 DEF UpBusiness, Reply, CachePin
    <3> QED BY <1>b, <3>1, ReleasedLoop
  <2>3. CASE NextLayer
    <3>1. PICK l \in op.rest : LayerDone(l) /\ op' = [op EXCEPT !.rest = @ \ {l}]
      BY <2>3 DEF NextLayer
    <3>2. /\ op'.plane = "native" /\ op.plane = "native" /\ op'.members = op.members
          /\ op'.kind = op.kind /\ op'.rest = op.rest \ {l} /\ UNCHANGED <<task, joined>>
      BY <1>0, <2>3, <3>1 DEF NextLayer, Operation
    <3>3. \A k \in op'.rest : Current(k) => Current(k)'
      BY <3>2 DEF Current
    <3>4. \A s \in op'.members : layer_of[s] \in op'.rest \/ s \in joined'
      BY <1>0, <3>1, <3>2 DEF LayerLoop, LayerDone
    <3>5. \A s \in Services : task'[s] # "none" =>
            s \in op'.members /\ (layer_of[s] \in op'.rest => Current(layer_of[s])')
      BY <1>0, <3>2, <3>3 DEF LayerLoop
    <3> QED BY <1>0, <3>2, <3>4, <3>5 DEF LayerLoop
  <2>4. CASE NativeDone
    <3>1. \A s \in Services : task[s] \notin {"queued", "running"}
      BY <2>4, AllWrittenBack
    <3>2. op'.plane \notin {"sidecar", "native"} /\ UNCHANGED <<task, joined>>
      BY <1>0, <2>4 DEF NativeDone, Release, Free, Operation
    <3> QED BY <3>1, <3>2 DEF LayerLoop
  <2> QED BY <1>2, <2>1, <2>2, <2>3, <2>4 DEF Plane
<1>3. ASSUME NEW s \in Services, Work(s) PROVE LayerLoop'
  <2>1. /\ UNCHANGED op /\ op.plane = "native" /\ s \in op.members
        /\ Current(layer_of[s]) \/ (layer_of[s] \notin op.rest)
        /\ task' = task \/ \E x : task' = [task EXCEPT ![s] = x]
        /\ joined' \in {joined, joined \cup {s}}
    BY <1>0, <1>3 DEF Work, Gate, SpawnStop, Launch, CommandReturns, Join, InBatch, LayerLoop
  <2>2. task \in [Services -> {"none", "queued", "running"} \cup Outcomes]
    BY DEF IInv, TypeOK
  <2>3. \A t \in Services : task'[t] # "none" =>
          t \in op'.members /\ (layer_of[t] \in op'.rest => Current(layer_of[t])')
    BY <1>0, <2>1, <2>2 DEF LayerLoop, Current
  <2>4. \A t \in op'.members : layer_of[t] \in op'.rest \/ t \in joined'
    BY <1>0, <2>1 DEF LayerLoop
  <2>5. task'[s] \in {"queued", "running"} => s \notin joined'
    <3>1. s \in joined => task[s] \in Outcomes
      BY <2>1 DEF IInv, WrittenBack
    <3> QED BY <1>0, <1>3, <2>2, <3>1
        DEF Work, Gate, SpawnStop, Launch, CommandReturns, Join, LayerLoop, Outcomes
  <2>6. \A t \in Services : task'[t] \in {"queued", "running"} =>
          op'.plane = "native" /\ t \notin joined'
    BY <1>0, <2>1, <2>2, <2>5 DEF LayerLoop
  <2> QED BY <2>1, <2>3, <2>4, <2>6 DEF LayerLoop
<1>4. ASSUME NEW s \in Services, Tick(s) PROVE LayerLoop'
  BY <1>4, <1>0 DEF Tick, LayerLoop, Current
<1>5. ASSUME NEW s \in Pinnable, NEW mode \in PinMode \cup {Unpinned}, SetBootPin(s, mode)
      PROVE  LayerLoop'
  BY <1>5 DEF SetBootPin, Begin, Untouched, LayerLoop
<1>6. CASE DrainAll
  BY <1>6, <1>0 DEF DrainAll, LayerLoop, Current
<1>7. CASE DaemonRestart
  BY <1>7 DEF DaemonRestart, Release, Free, Untouched, LayerLoop
<1>8. CASE UNCHANGED vars
  BY <1>8, <1>0 DEF vars, LayerLoop, Current
<1> QED BY <1>1, <1>2, <1>3, <1>4, <1>5, <1>6, <1>7, <1>8 DEF Next

(* Every step keeps the account of what is written back.                   *)
LEMMA WrittenStep == IInv /\ [Next]_vars => WrittenBack'
<1> SUFFICES ASSUME IInv, [Next]_vars PROVE WrittenBack'
  OBVIOUS
<1>0. WrittenBack /\ PlanesOfKinds /\ LayerLoop /\ op \in Operation
  BY DEF IInv, TypeOK
<1>t. /\ task \in [Services -> {"none", "queued", "running"} \cup Outcomes]
      /\ state \in [Services -> State] /\ joined \subseteq Services
  BY DEF IInv, TypeOK
<1>1. CASE UpAll \/ DownAll \/ BootGroup \/ OneService \/ BootSet
  <2>1. PICK kind \in UpKinds \cup DownKinds, plane \in {"sidecar", "native"},
             members \in SUBSET Services :
          Begin(kind, plane, members, Unpinned)
    BY <1>1, Begun
  <2>2. joined' = {} /\ \A s \in Services : task'[s] = "none"
    BY <2>1 DEF Begin, Untouched
  <2> QED BY <2>2 DEF WrittenBack, Outcomes
<1>2. CASE Plane
  <2>1. CASE Release
    BY <2>1 DEF Release, Free, WrittenBack
  <2>2. CASE op.plane = "sidecar" /\ ~Release
    <3>1. joined' = {} /\ \A s \in Services : task'[s] = "none"
      BY <1>0, <1>2, <2>2 DEF Plane, UpSidecar, ComposeDown, Docker, UpBusiness, NextLayer,
             NativeDone, Reply, CachePin, PlanesOfKinds, Untouched
    <3> QED BY <3>1 DEF WrittenBack, Outcomes
  <2>3. CASE op.plane # "sidecar" /\ ~Release
    <3>1. /\ op.plane = "native" /\ UNCHANGED <<state, task, joined>>
          /\ op'.kind = op.kind
      BY <1>0, <1>2, <2>3 DEF Plane, UpSidecar, ComposeDown, Docker, UpBusiness, NextLayer,
             NativeDone, Reply, CachePin, Operation
    <3> QED BY <1>0, <3>1 DEF WrittenBack, Written
  <2> QED BY <2>1, <2>2, <2>3
<1>3. ASSUME NEW s \in Services, Gate(s) PROVE WrittenBack'
  <2>1. /\ op.plane = "native" /\ op.kind \in UpKinds /\ UNCHANGED op /\ task[s] = "none"
        /\ op.kind \notin DownKinds
    BY <1>3, Kinds DEF Gate, InBatch
  <2>2. s \notin joined
    BY <1>0, <2>1 DEF WrittenBack, Outcomes
  <2>3. CASE task' = [task EXCEPT ![s] = "queued"] /\ UNCHANGED <<state, joined>>
    BY <1>0, <1>t, <2>1, <2>2, <2>3 DEF WrittenBack, Written, Outcomes
  <2>4. CASE /\ state' = [state EXCEPT ![s] = "Stopped"]
             /\ task' = [task EXCEPT ![s] = "blocked"]
             /\ joined' = joined \cup {s}
    BY <1>0, <1>t, <2>1, <2>2, <2>4 DEF WrittenBack, Written, Outcomes
  <2> QED BY <1>3, <2>3, <2>4 DEF Gate
<1>4. ASSUME NEW s \in Services, SpawnStop(s) \/ Launch(s) \/ CommandReturns(s)
      PROVE  WrittenBack'
  <2>1. op.plane = "native" /\ UNCHANGED <<op, state, joined>> /\ task[s] \notin Outcomes
    BY <1>0, <1>4 DEF SpawnStop, Launch, CommandReturns, InBatch, LayerLoop, Outcomes
  <2>2. s \notin joined
    BY <1>0, <2>1 DEF WrittenBack
  <2>3. PICK x \in {"queued", "running", "skipped", "env", "started", "failed", "fatal", "stopped"} :
          task' = [task EXCEPT ![s] = x] /\ (x \in Outcomes => (x = "stopped" <=> op.kind \in DownKinds))
    <3>1. op.kind \in UpKinds <=> op.kind \notin DownKinds
      BY <1>0, <2>1, Kinds DEF PlanesOfKinds
    <3>2. CASE SpawnStop(s)
      BY <3>2 DEF SpawnStop, Outcomes
    <3>3. CASE Launch(s)
      <4>1. PICK next \in {"running", "skipped", "env"} :
              task' = [task EXCEPT ![s] = next] /\ (next # "running" => op.kind \in UpKinds)
        BY <3>3 DEF Launch
      <4> QED BY <3>1, <4>1 DEF Outcomes
    <3>4. CASE CommandReturns(s)
      <4>1. PICK outcome \in {"started", "failed", "fatal", "stopped"} :
              task' = [task EXCEPT ![s] = outcome] /\ (outcome # "stopped" <=> op.kind \in UpKinds)
        BY <3>4 DEF CommandReturns
      <4> QED BY <3>1, <4>1 DEF Outcomes
    <3> QED BY <1>4, <3>2, <3>3, <3>4
  <2>4. \A t \in Services : t # s => task'[t] = task[t]
    BY <1>t, <2>3
  <2>5. task'[s] = x
    BY <1>t, <2>3
  <2>6. \A t \in Services : task'[t] \in Outcomes => (task'[t] = "stopped" <=> op.kind \in DownKinds)
    BY <1>0, <2>1, <2>3, <2>4, <2>5 DEF WrittenBack
  <2>7. \A t \in Services : task'[t] = "blocked" => t \in joined
    BY <1>0, <2>1, <2>4, <2>5 DEF WrittenBack
  <2>8. \A t \in joined : task'[t] = task[t]
    BY <1>t, <2>2, <2>4
  <2> QED BY <1>0, <2>1, <2>6, <2>7, <2>8 DEF WrittenBack, Written
<1>5. ASSUME NEW s \in Services, Join(s) PROVE WrittenBack'
  <2>1. /\ op.plane = "native" /\ UNCHANGED <<op, task>> /\ task[s] \in Outcomes
        /\ s \notin joined /\ joined' = joined \cup {s}
        /\ state' = [state EXCEPT ![s] = Written(s)]
    BY <1>5 DEF Join, InBatch
  <2>2. task[s] # "blocked"
    BY <1>0, <2>1 DEF WrittenBack
  <2>3. state'[s] = Written(s) /\ \A t \in Services : t # s => state'[t] = state[t]
    BY <1>t, <2>1
  <2>4. \A t \in joined : state'[t] = IF task[t] = "blocked" THEN "Stopped" ELSE Written(t)'
    BY <1>0, <1>t, <2>1, <2>3 DEF WrittenBack, Written
  <2>5. state'[s] = Written(s)'
    BY <2>1, <2>3 DEF Written
  <2> QED BY <1>0, <2>1, <2>2, <2>4, <2>5 DEF WrittenBack
<1>6. ASSUME NEW s \in Services, Tick(s) PROVE WrittenBack'
  BY <1>6 DEF Tick, Free, WrittenBack
<1>7. ASSUME NEW s \in Pinnable, NEW mode \in PinMode \cup {Unpinned}, SetBootPin(s, mode)
      PROVE  WrittenBack'
  BY <1>7 DEF SetBootPin, Begin, WrittenBack
<1>8. CASE DrainAll
  BY <1>8 DEF DrainAll, Free, WrittenBack
<1>9. CASE DaemonRestart
  BY <1>9 DEF DaemonRestart, Release, Free, WrittenBack
<1>10. CASE UNCHANGED vars
  BY <1>10, <1>0 DEF vars, WrittenBack, Written
<1> QED BY <1>1, <1>2, <1>3, <1>4, <1>5, <1>6, <1>7, <1>8, <1>9, <1>10 DEF Next, Work

(* Fewer running commands need no more permits. *)
LEMMA FewerPermits ==
  ASSUME PermitsKept, Running' \subseteq Running
  PROVE  PermitsKept'
<1>1. IsFiniteSet(Running)
  BY FS_Subset, FleetAssumption DEF Running
<1>2. IsFiniteSet(Running')
  BY <1>1, FS_Subset
<1>3. Cardinality(Running') <= Cardinality(Running)
  BY <1>1, FS_Subset
<1>4. Cardinality(Running) \in Nat /\ Cardinality(Running') \in Nat
  BY <1>1, <1>2, FS_CardinalityType
<1> QED BY <1>3, <1>4, FleetAssumption DEF PermitsKept

(* Every step keeps the permits of the semaphore.                          *)
LEMMA PermitsStep == IInv /\ [Next]_vars => PermitsKept'
<1> SUFFICES ASSUME IInv, [Next]_vars PROVE PermitsKept'
  OBVIOUS
<1>0. /\ PermitsKept
      /\ task \in [Services -> {"none", "queued", "running"} \cup Outcomes]
  BY DEF IInv, TypeOK
<1>1. CASE UpAll \/ DownAll \/ BootGroup \/ OneService \/ BootSet
  <2>1. \A s \in Services : task'[s] = "none"
    BY <1>1, Begun DEF Begin, Untouched
  <2> QED BY <1>0, <2>1, FewerPermits DEF Running
<1>2. CASE Plane
  BY <1>0, <1>2, FewerPermits DEF Running, Plane, UpSidecar, ComposeDown, Docker, UpBusiness,
     NextLayer, NativeDone, Reply, CachePin
<1>3. ASSUME NEW s \in Services, Launch(s) PROVE PermitsKept'
  <2>1. Running' \subseteq Running \cup {s}
    BY <1>0, <1>3 DEF Launch, Running
  <2>2. IsFiniteSet(Running)
    BY FS_Subset, FleetAssumption DEF Running
  <2>3. /\ IsFiniteSet(Running \cup {s})
        /\ Cardinality(Running \cup {s}) = IF s \in Running THEN Cardinality(Running)
                                                           ELSE Cardinality(Running) + 1
    BY <2>2, FS_AddElement
  <2>4. IsFiniteSet(Running') /\ Cardinality(Running') <= Cardinality(Running \cup {s})
    BY <2>1, <2>3, FS_Subset
  <2>5. Cardinality(Running) \in Nat /\ Cardinality(Running') \in Nat
    BY <2>2, <2>4, FS_CardinalityType
  <2>6. Cardinality(Running) < MaxConcurrentStart
    BY <1>3 DEF Launch, PermitFree
  <2> QED BY <2>3, <2>4, <2>5, <2>6, FleetAssumption DEF PermitsKept
<1>4. ASSUME NEW s \in Services, Gate(s) \/ SpawnStop(s) \/ CommandReturns(s) \/ Join(s)
      PROVE  PermitsKept'
  <2>1. Running' \subseteq Running
    BY <1>0, <1>4 DEF Gate, SpawnStop, CommandReturns, Join, Running
  <2> QED BY <1>0, <2>1, FewerPermits
<1>5. ASSUME NEW s \in Services, Tick(s) PROVE PermitsKept'
  BY <1>0, <1>5, FewerPermits DEF Tick, Running
<1>6. ASSUME NEW s \in Pinnable, NEW mode \in PinMode \cup {Unpinned}, SetBootPin(s, mode)
      PROVE  PermitsKept'
  BY <1>0, <1>6, FewerPermits DEF SetBootPin, Begin, Untouched, Running
<1>7. CASE DrainAll
  BY <1>0, <1>7, FewerPermits DEF DrainAll, Running
<1>8. CASE DaemonRestart
  BY <1>0, <1>8, FewerPermits DEF DaemonRestart, Untouched, Running
<1>9. CASE UNCHANGED vars
  BY <1>0, <1>9, FewerPermits DEF vars, Running
<1> QED BY <1>1, <1>2, <1>3, <1>4, <1>5, <1>6, <1>7, <1>8, <1>9 DEF Next, Work

(* Every step keeps the cache of pins and the table in agreement.          *)
LEMMA PinsStep == IInv /\ [Next]_vars => PinsAgree' /\ PinsOfOperations'
<1> SUFFICES ASSUME IInv, [Next]_vars PROVE PinsAgree' /\ PinsOfOperations'
  OBVIOUS
<1>0. /\ PinsAgree /\ PinsOfOperations /\ PlanesOfKinds /\ op \in Operation
      /\ boot_pins \in Pins /\ pin_table \in Pins
  BY DEF IInv, TypeOK
<1> USE DEF pins
<1>1. CASE UpAll \/ DownAll \/ BootGroup \/ OneService \/ BootSet
  <2>1. PICK kind \in UpKinds \cup DownKinds, plane \in {"sidecar", "native"},
             members \in SUBSET Services :
          /\ Begin(kind, plane, members, Unpinned)
          /\ kind = "boot" => \A s \in members : boot_auto(s)
          /\ UNCHANGED <<state, pins>>
    BY <1>1, Begun
  <2>2. op.plane # "cache" /\ op'.plane # "cache" /\ op'.kind = kind /\ op'.members = members
    BY <2>1 DEF Begin, Free
  <2>3. PinsAgree'
    BY <1>0, <2>1, <2>2 DEF PinsAgree
  <2> QED BY <2>1, <2>2, <2>3 DEF PinsOfOperations, boot_auto
<1>2. CASE UpSidecar \/ ComposeDown \/ UpBusiness \/ NextLayer \/ NativeDone \/ Reply
  <2>1. op.plane # "cache" /\ op'.plane # "cache" /\ UNCHANGED pins
    BY <1>0, <1>2 DEF UpSidecar, ComposeDown, Docker, UpBusiness, NextLayer, NativeDone, Reply,
       Release, Free, Operation
  <2>2. op'.kind = "boot" => op.kind = "boot" /\ op'.members = op.members
    BY <1>0, <1>2 DEF UpSidecar, ComposeDown, Docker, UpBusiness, NextLayer, NativeDone, Reply,
       Release, Free, Operation
  <2>3. PinsAgree'
    BY <1>0, <2>1 DEF PinsAgree
  <2> QED BY <1>0, <2>1, <2>2, <2>3 DEF PinsOfOperations, boot_auto
<1>3. CASE CachePin
  <2>1. op.plane = "cache" /\ op'.plane # "cache" /\ op'.kind # "boot"
    BY <1>3 DEF CachePin, Release, Free
  <2>2. PinsAgree'
    BY <1>0, <1>3, <2>1 DEF CachePin, PinsAgree, PinsOfOperations
  <2> QED BY <2>1, <2>2 DEF PinsOfOperations
<1>4. ASSUME NEW s \in Services, Work(s) PROVE PinsAgree' /\ PinsOfOperations'
  <2>1. UNCHANGED <<op, pins>>
    BY <1>4 DEF Work, Gate, SpawnStop, Launch, CommandReturns, Join
  <2> QED BY <1>0, <2>1 DEF PinsAgree, PinsOfOperations, boot_auto
<1>5. ASSUME NEW s \in Services, Tick(s) PROVE PinsAgree' /\ PinsOfOperations'
  BY <1>0, <1>5 DEF Tick, PinsAgree, PinsOfOperations, boot_auto
<1>6. ASSUME NEW s \in Pinnable, NEW mode \in PinMode \cup {Unpinned}, SetBootPin(s, mode)
      PROVE  PinsAgree' /\ PinsOfOperations'
  <2>1. /\ op.plane # "cache" /\ op'.plane = "cache" /\ op'.kind # "boot"
        /\ op'.members = {s} /\ op'.mode = mode /\ UNCHANGED <<boot_pins, loaded>>
        /\ pin_table' = [pin_table EXCEPT ![s] = mode]
    BY <1>6 DEF SetBootPin, Begin, Free
  <2>2. s \in Services
    BY FleetAssumption
  <2> QED BY <1>0, <2>1, <2>2 DEF PinsAgree, PinsOfOperations, Pins
<1>7. CASE DrainAll
  BY <1>0, <1>7 DEF DrainAll, PinsAgree, PinsOfOperations, boot_auto
<1>8. CASE DaemonRestart
  <2>1. /\ op'.plane # "cache" /\ op'.kind # "boot" /\ UNCHANGED pin_table
        /\ \/ boot_pins' = pin_table /\ loaded' = TRUE
           \/ boot_pins' = Untouched /\ loaded' = FALSE
    BY <1>8 DEF DaemonRestart, Boot, Release, Free
  <2> QED BY <2>1 DEF PinsAgree, PinsOfOperations, Untouched, Unpinned
<1>9. CASE UNCHANGED vars
  BY <1>0, <1>9 DEF vars, PinsAgree, PinsOfOperations, boot_auto
<1> QED BY <1>1, <1>2, <1>3, <1>4, <1>5, <1>6, <1>7, <1>8, <1>9 DEF Next, Plane

(* The account of the loop over the layers holds in every reachable state. *)
THEOREM Invariant == Spec => []IInv
<1>1. IInv /\ [Next]_vars => IInv'
  BY TypeStep, PlanesStep, LoopStep, WrittenStep, PermitsStep, PinsStep DEF IInv
<1> QED BY <1>1, IInvInit, PTL DEF Spec

-----------------------------------------------------------------------------
(* What follows from it. *)

(* README:38-39: while a command of one layer runs, the layers before it   *)
(* are done with, and the semaphore is never overdrawn; whatever the       *)
(* registry and max_concurrent_start are.                                  *)
THEOREM LayersTakenInOrder == Spec => []LayersInOrder
<1>1. ASSUME IInv PROVE LayersInOrder
  <2>0. LayerLoop /\ PermitsKept /\ op \in Operation
    BY <1>1 DEF IInv, TypeOK
  <2>1. ASSUME NEW s \in op.members, NEW t \in op.members, task[t] = "running", Before(s, t)
        PROVE  s \in joined
    <3>1. s \in Services /\ t \in Services
      BY <2>0 DEF Operation
    <3>2. op.plane = "native" /\ t \notin joined
      BY <2>0, <2>1, <3>1 DEF LayerLoop
    <3>3. Current(layer_of[t])
      BY <2>0, <2>1, <3>1, <3>2 DEF LayerLoop
    <3>4. layer_of[s] \in Nat /\ layer_of[t] \in Nat
      BY <3>1, FleetAssumption DEF Layer
    <3>5. layer_of[s] \notin op.rest
      BY <2>1, <3>3, <3>4 DEF Current, Before
    <3> QED BY <2>0, <3>2, <3>5 DEF LayerLoop
  <2> QED BY <2>0, <2>1 DEF LayersInOrder
<1> QED BY <1>1, Invariant, PTL

(* README:228: a pin survives the daemon, whenever it dies.                *)
THEOREM PinsSurvive == Spec => []PinsAgree
<1>1. IInv => PinsAgree
  BY DEF IInv
<1> QED BY <1>1, Invariant, PTL

(* README:219-223: the boot task starts no service pinned manual, and none *)
(* outside T0 that is not pinned auto.                                     *)
THEOREM BootSetIsHonoured == Spec => []BootSetHonoured
<1>1. ASSUME IInv PROVE BootSetHonoured
  <2> SUFFICES ASSUME op.kind = "boot", loaded, NEW s \in Services, task[s] # "none"
               PROVE  \/ pin_table[s] = "auto"
                      \/ pin_table[s] = Unpinned /\ boot_tier[s] = "T0"
    BY DEF BootSetHonoured
  <2>1. op.plane = "native"
    BY <1>1 DEF IInv, PlanesOfKinds
  <2>2. s \in op.members
    BY <1>1, <2>1 DEF IInv, LayerLoop
  <2>3. boot_auto(s)
    BY <1>1, <2>2 DEF IInv, PinsOfOperations
  <2>4. boot_pins[s] = pin_table[s]
    BY <1>1, <2>1 DEF IInv, PinsAgree
  <2> QED BY <2>3, <2>4 DEF boot_auto
<1> QED BY <1>1, Invariant, PTL

(* What boot_group answers is what its commands did.                       *)
THEOREM SummaryIsHonest == Spec => []SummaryHonest
<1>1. ASSUME IInv PROVE SummaryHonest
  <2> SUFFICES ASSUME op.plane = "reply"
               PROVE  Summary =
                 [started |-> Ended({"started"}), already_up |-> Ended({"skipped"}),
                  stopped |-> Ended({"stopped"}), skipped |-> Ended({"blocked"}),
                  retrying |-> Ended({"failed"}), failed |-> Ended({"fatal", "env"})]
    BY DEF SummaryHonest
  <2>1. op.kind \in GroupKinds /\ op.members \subseteq joined
    BY <1>1 DEF IInv, PlanesOfKinds
  <2>2. op.kind \in {"group_up", "group_down"} /\ op.kind # "up_one"
    BY <2>1 DEF GroupKinds
  <2>3. /\ "group_down" \in DownKinds /\ "group_up" \notin DownKinds
    BY DEF DownKinds
  <2>4. ASSUME NEW s \in op.members
        PROVE  /\ task[s] \in Outcomes
               /\ task[s] = "stopped" <=> op.kind = "group_down"
               /\ state[s] = IF task[s] = "blocked" THEN "Stopped" ELSE Written(s)
    <3>1. s \in joined /\ s \in Services
      BY <1>1, <2>1 DEF IInv, TypeOK, Operation
    <3> QED BY <1>1, <2>2, <2>3, <3>1 DEF IInv, WrittenBack
  <2>5. /\ Summary.started = Ended({"started"})
        /\ Summary.already_up = Ended({"skipped"})
        /\ Summary.stopped = Ended({"stopped"})
        /\ Summary.skipped = Ended({"blocked"})
        /\ Summary.retrying = Ended({"failed"})
        /\ Summary.failed = Ended({"fatal", "env"})
    BY <2>2, <2>4 DEF Summary, Ended, Written, Outcomes
  <2> QED BY <2>5 DEF Summary
<1> QED BY <1>1, Invariant, PTL
-----------------------------------------------------------------------------
(* Operations end: none takes back what it has done, and none ever waits   *)
(* for nothing.                                                            *)

(* A service that an operation takes further is one of its members, and    *)
(* the others stay where they are.                                         *)
LEMMA WorkNearer ==
  ASSUME IInv, NEW s \in Services, Work(s)
  PROVE  Nearer
<1>0. /\ op \in Operation /\ task \in [Services -> {"none", "queued", "running"} \cup Outcomes]
      /\ LayerLoop /\ WrittenBack /\ PlanesOfKinds
  BY DEF IInv, TypeOK
<1>1. op' = op /\ s \in op.members /\ \A t \in Services : t # s => Stage(t)' = Stage(t)
  <2>1. op' = op
    BY DEF Work, Gate, SpawnStop, Launch, CommandReturns, Join
  <2>2. s \in op.members
    BY <1>0 DEF Work, Gate, SpawnStop, Launch, CommandReturns, Join, InBatch, LayerLoop
  <2>3. ASSUME NEW t \in Services, t # s
        PROVE  task'[t] = task[t] /\ (t \in joined' <=> t \in joined)
    BY <1>0, <2>3 DEF Work, Gate, SpawnStop, Launch, CommandReturns, Join
  <2> QED
    BY <2>1, <2>2, <2>3 DEF Stage
<1>2. Stage(s) < Stage(s)'
  <2>1. CASE Gate(s) \/ SpawnStop(s)
    <3>1. task[s] = "none" /\ op.plane = "native"
      BY <2>1 DEF Gate, SpawnStop, InBatch
    <3>2. s \notin joined
      BY <1>0, <3>1 DEF WrittenBack, Outcomes
    <3>3. task'[s] = "queued" \/ s \in joined'
      BY <1>0, <2>1 DEF Gate, SpawnStop
    <3> QED
      BY <3>1, <3>2, <3>3 DEF Stage
  <2>2. CASE Launch(s)
    <3>1. task[s] = "queued" /\ s \notin joined /\ task'[s] \in {"running", "skipped", "env"}
      BY <1>0, <2>2 DEF Launch, LayerLoop
    <3> QED
      BY <3>1 DEF Stage
  <2>3. CASE CommandReturns(s)
    <3>1. task[s] = "running" /\ s \notin joined
          /\ task'[s] \in {"started", "failed", "fatal", "stopped"}
      BY <1>0, <2>3 DEF CommandReturns, LayerLoop
    <3> QED
      BY <3>1 DEF Stage
  <2>4. CASE Join(s)
    BY <2>4 DEF Join, Stage, Outcomes
  <2> QED
    BY <2>1, <2>2, <2>3, <2>4 DEF Work
<1>3. PlaneStage' = PlaneStage /\ PlaneStage \in Nat
  BY <1>1 DEF PlaneStage
<1>4. \A t \in Services : Stage(t) \in Nat
  BY DEF Stage
<1>5. \A t \in Services : Stage(t) <= Stage(t)'
  <2> SUFFICES ASSUME NEW t \in Services PROVE Stage(t) <= Stage(t)'
    OBVIOUS
  <2>1. CASE t = s
    <3>1. Stage(s)' \in Nat
      BY DEF Stage
    <3> QED
      BY <1>2, <1>4, <2>1, <3>1
  <2>2. CASE t # s
    BY <1>1, <1>4, <2>2
  <2> QED
    BY <2>1, <2>2
<1> QED
  BY <1>1, <1>2, <1>3, <1>5 DEF Nearer

(* A plane or a layer that is done with moves no service.                  *)
LEMMA PlaneNearer ==
  ASSUME IInv, Plane
  PROVE  op' = Free \/ Nearer
<1>0. op \in Operation
  BY DEF IInv, TypeOK
<1>1. CASE op' = Free
  BY <1>1
<1>2. CASE op' # Free
  <2>1. UNCHANGED <<task, joined>>
    BY <1>2 DEF Plane, UpSidecar, ComposeDown, UpBusiness, NextLayer, NativeDone, Reply,
                CachePin, Release
  <2>2. \A t \in Services : Stage(t)' = Stage(t) /\ Stage(t) \in Nat
    BY <2>1 DEF Stage
  <2>3. CASE op.plane = "sidecar" /\ op' = [op EXCEPT !.plane = "native"]
    BY <1>0, <2>2, <2>3 DEF Nearer, PlaneStage, Operation
  <2>4. CASE op.plane = "native" /\ \E plane \in {"business", "reply"} :
               op' = [op EXCEPT !.plane = plane]
    BY <1>0, <2>2, <2>4 DEF Nearer, PlaneStage, Operation
  <2>5. CASE op.plane = "native" /\ \E l \in op.rest : op' = [op EXCEPT !.rest = @ \ {l}]
    <3>1. PICK l \in op.rest : op' = [op EXCEPT !.rest = @ \ {l}]
      BY <2>5
    <3>2. /\ op'.kind = op.kind /\ op'.members = op.members /\ op'.plane = op.plane
          /\ op'.rest = op.rest \ {l}
      BY <1>0, <3>1 DEF Operation
    <3> QED
      BY <2>2, <3>2 DEF Nearer, PlaneStage
  <2> QED
    BY <1>2, <2>3, <2>4, <2>5 DEF Plane, UpSidecar, ComposeDown, Docker, UpBusiness, NextLayer,
       NativeDone, Reply, CachePin, Release
<1> QED
  BY <1>1, <1>2

(* Every step of an operation ends it or brings it nearer to its end, in a *)
(* fleet of any size, with any number of permits, whatever its commands    *)
(* answer.                                                                 *)
THEOREM OperationsAdvance == Spec => OperationAdvances
<1>1. ASSUME IInv, [Next]_vars, op # Free, vars' # vars
      PROVE  op' = Free \/ Nearer
  <2>1. ~UpAll /\ ~DownAll /\ ~BootGroup /\ ~OneService /\ ~BootSet
    BY <1>1 DEF UpAll, DownAll, BootGroup, OneService, BootSet, Begin
  <2>2. \A s \in Services : ~Tick(s)
    BY <1>1 DEF Tick
  <2>3. (\A s \in Pinnable, mode \in PinMode \cup {Unpinned} : ~SetBootPin(s, mode)) /\ ~DrainAll
    BY <1>1 DEF SetBootPin, Begin, DrainAll
  <2>4. DaemonRestart => op' = Free
    BY DEF DaemonRestart, Release
  <2> QED
    BY <1>1, <2>1, <2>2, <2>3, <2>4, WorkNearer, PlaneNearer DEF Next
<1>2. IInv /\ [Next]_vars => [op # Free => op' = Free \/ Nearer]_vars
  BY <1>1
<1> QED
  BY <1>2, Invariant, PTL DEF Spec, OperationAdvances

(* A mutex that is taken is taken by an operation in one of its planes,    *)
(* and its layers are those there are.                                     *)
Taken == /\ op.plane = "none" => op = Free
         /\ op.rest \subseteq Layer

(* Every operation begins, goes on and ends like that.                     *)
LEMMA TakenKept == Spec => []Taken
<1>1. Init => Taken
  BY DEF Init, Taken, Free
<1>2. TypeOK /\ Taken /\ [Next]_vars => Taken'
  <2> SUFFICES ASSUME TypeOK, Taken, [Next]_vars PROVE Taken'
    OBVIOUS
  <2>0. op \in Operation /\ layer_of \in [Services -> Layer]
    BY FleetAssumption DEF TypeOK
  <2>1. CASE UpAll \/ DownAll \/ BootGroup \/ OneService \/ BootSet
    <3>1. PICK kind \in UpKinds \cup DownKinds, plane \in {"sidecar", "native"},
               members \in SUBSET Services :
            Begin(kind, plane, members, Unpinned)
      BY <2>1, Begun
    <3> QED
      BY <2>0, <3>1 DEF Begin, Taken
  <2>2. CASE Plane
    <3>1. \/ op' = Free
          \/ \E plane \in {"native", "business", "reply"} : op' = [op EXCEPT !.plane = plane]
          \/ \E l : op' = [op EXCEPT !.rest = @ \ {l}] /\ op.plane = "native"
      BY <2>2 DEF Plane, UpSidecar, ComposeDown, Docker, UpBusiness, NextLayer, NativeDone,
                  Reply, CachePin, Release
    <3>2. Free.rest = {} 
      BY DEF Free
    <3> QED
      BY <2>0, <3>1, <3>2 DEF Taken, Operation
  <2>3. ASSUME NEW s \in Pinnable, NEW mode \in PinMode \cup {Unpinned}, SetBootPin(s, mode)
        PROVE  Taken'
    <3>1. s \in Services
      BY FleetAssumption
    <3> QED
      BY <2>0, <2>3, <3>1 DEF SetBootPin, Begin, Taken
  <2>4. CASE DaemonRestart
    BY <2>4 DEF DaemonRestart, Release, Free, Taken
  <2>5. CASE UNCHANGED op
    BY <2>5 DEF Taken
  <2>6. (\E s \in Services : Work(s) \/ Tick(s)) \/ DrainAll \/ UNCHANGED vars => UNCHANGED op
    BY DEF Work, Gate, SpawnStop, Launch, CommandReturns, Join, Tick, DrainAll, vars
  <2> QED
    BY <2>1, <2>2, <2>3, <2>4, <2>5, <2>6 DEF Next
<1> QED
  BY <1>1, <1>2, TypeCorrect, PTL DEF Spec

(* What an operation can do next: the guards of its steps.                 *)
ServiceCanGoOn(s) ==
  \/ InBatch(s) /\ task[s] = "none"
  \/ task[s] = "queued" /\ PermitFree
  \/ task[s] = "running"
  \/ InBatch(s) /\ AllSpawned /\ task[s] \in Outcomes /\ s \notin joined

CanGoOn ==
  \/ op.plane \in {"sidecar", "business", "reply", "cache"}
  \/ op.plane = "native" /\ op.rest = {}
  \/ op.plane = "native" /\ \E l \in op.rest : LayerDone(l)
  \/ \E s \in Services : ServiceCanGoOn(s)

(* A set of layers that is not empty has a first and a last.               *)
LEMMA OneIsCurrent ==
  ASSUME op.rest \subseteq Layer, op.rest # {}
  PROVE  \E l \in op.rest : Current(l)
<1>1. op.rest \subseteq {0, 1, 2, 3, 4}
  BY DEF Layer
<1>2. \E l \in op.rest : \A k \in op.rest : l <= k
  BY <1>1
<1>3. \E l \in op.rest : \A k \in op.rest : k <= l
  BY <1>1
<1> QED
  BY <1>2, <1>3 DEF Current

(* No operation that holds the mutex ever waits for nothing: whatever has  *)
(* happened, the guard of one of its steps is true.  A permit that is out  *)
(* is held by a command of the layer at work, and a layer whose commands   *)
(* are all back is done with.                                              *)
THEOREM OperationGoesOn == Spec => [](op # Free => CanGoOn)
<1>1. ASSUME IInv, Taken, op # Free
      PROVE  CanGoOn
  <2>0. /\ op \in Operation /\ LayerLoop /\ WrittenBack
        /\ task \in [Services -> {"none", "queued", "running"} \cup Outcomes]
    BY <1>1 DEF IInv, TypeOK
  <2>1. op.plane \in {"sidecar", "native", "business", "reply", "cache"}
    BY <1>1, <2>0 DEF Taken, Operation
  <2>2. CASE op.plane # "native" \/ op.rest = {}
    BY <2>1, <2>2 DEF CanGoOn
  <2>3. CASE op.plane = "native" /\ op.rest # {}
    <3>1. PICK l \in op.rest : Current(l)
      BY <1>1, <2>3, OneIsCurrent DEF Taken
    <3> SUFFICES ASSUME \A s \in Services : ~ServiceCanGoOn(s)
                 PROVE  LayerDone(l)
      BY <2>3 DEF CanGoOn
    <3>2. op.members \subseteq Services
      BY <2>0 DEF Operation
    <3>3. AllSpawned
      BY <2>3, <3>2 DEF ServiceCanGoOn, AllSpawned, InBatch
    <3>4. Running = {}
      BY DEF ServiceCanGoOn, Running
    <3>5. PermitFree
      BY <3>4, FS_EmptySet, FleetAssumption DEF PermitFree
    <3>6. ASSUME NEW s \in op.members, layer_of[s] = l
          PROVE  s \in joined
      <4>1. s \in Services /\ InBatch(s)
        BY <2>3, <3>1, <3>2, <3>6 DEF InBatch
      <4>2. task[s] \in Outcomes
        BY <2>0, <3>5, <4>1 DEF ServiceCanGoOn
      <4> QED
        BY <3>3, <4>1, <4>2 DEF ServiceCanGoOn
    <3> QED
      BY <3>1, <3>6 DEF LayerDone
  <2> QED
    BY <2>2, <2>3
<1> QED
  BY <1>1, Invariant, TakenKept, PTL
=============================================================================
