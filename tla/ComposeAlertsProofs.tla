------------------------ MODULE ComposeAlertsProofs ------------------------
(***************************************************************************)
(* Theorems about ComposeAlerts, for every set of containers, window,      *)
(* threshold and spacing of the rounds: types, the bound on silence, and   *)
(* the round an escalation belongs to.                                     *)
(***************************************************************************)
EXTENDS ComposeAlerts, TLAPS

(* A docker condition, whatever the instance lets docker say. *)
Condition == [raw : RawStates, health : Healths]

(* Ages and counters stay in their ranges. *)
LEMMA AgeTypes ==
  /\ Outside \in Nat \ {0}
  /\ \A age \in 0 .. Outside, secs \in Nat : Older(age, secs) \in 0 .. Outside
  /\ \A n \in 0 .. Escalation : Bump(n, Escalation) \in 0 .. Escalation
  /\ \A n \in 0 .. Escalation + 1 : Bump(n, Escalation + 1) \in 0 .. Escalation + 1
BY SMT, AlertAssumption DEF Outside, Older, Bump

(* The states supervisor_state can give a container. *)
LEMMA SupervisorStates ==
  \A c \in Condition :
    supervisor_state(c) \in {"Healthy", "Starting", "Restarting", "Failed"}
BY DEF supervisor_state, Condition

(* observe leaves a snapshot of the right type. *)
LEMMA ObservedType ==
  ASSUME NEW p \in ContainerRecord, NEW c \in Condition, NEW secs \in Nat
  PROVE  Observed(p, c, secs) \in ContainerRecord
<1>1. /\ c.raw \in RawStates
      /\ supervisor_state(c) \in {"Healthy", "Starting", "Restarting", "Failed"}
  BY SupervisorStates DEF Condition
<1>2. /\ p.last_alert \in 0 .. Outside /\ p.fail_count \in 0 .. Escalation
      /\ p.escalated \in BOOLEAN
  BY DEF ContainerRecord
<1>3. 0 \in 0 .. Outside /\ Outside \in 0 .. Outside /\ 0 \in 0 .. Escalation
  BY SMT, AlertAssumption DEF Outside
<1>4. CASE supervisor_state(c) = "Failed"
  <2>1. (IF DecidesDown(p, c, secs) THEN 0 ELSE Older(p.last_alert, secs)) \in 0 .. Outside
    BY <1>2, <1>3, AgeTypes
  <2>2. Bump(p.fail_count, Escalation) \in 0 .. Escalation
    BY <1>2, AgeTypes
  <2>3. (p.escalated \/ DecidesCrashLoop(p, c)) \in BOOLEAN
    OBVIOUS
  <2>4. Observed(p, c, secs) =
          [state |-> "Failed", raw |-> c.raw,
           last_alert |-> IF DecidesDown(p, c, secs) THEN 0 ELSE Older(p.last_alert, secs),
           fail_count |-> Bump(p.fail_count, Escalation),
           escalated |-> p.escalated \/ DecidesCrashLoop(p, c)]
    BY <1>4 DEF Observed
  <2>5. \A a \in 0 .. Outside, f \in 0 .. Escalation, e \in BOOLEAN :
          [state |-> "Failed", raw |-> c.raw, last_alert |-> a,
           fail_count |-> f, escalated |-> e] \in ContainerRecord
    BY <1>1 DEF ContainerRecord
  <2> QED BY <2>1, <2>2, <2>3, <2>4, <2>5, Zenon
<1>5. CASE supervisor_state(c) # "Failed"
  <2>1. Observed(p, c, secs) =
          [state |-> supervisor_state(c), raw |-> c.raw, last_alert |-> Outside,
           fail_count |-> 0, escalated |-> FALSE]
    BY <1>5 DEF Observed, NoRecord
  <2> QED BY <1>1, <1>3, <2>1 DEF ContainerRecord
<1> QED BY <1>4, <1>5

(* A snapshot that is not there has the type of one that is. *)
LEMMA NoRecordType == NoRecord \in ContainerRecord
<1>1. Outside \in 0 .. Outside /\ 0 \in 0 .. Escalation
  BY SMT, AlertAssumption DEF Outside
<1> QED BY <1>1 DEF NoRecord, ContainerRecord

(* Only the three kinds of alert are ever raised. *)
LEMMA AlertKindsOnly ==
  \A p, c, secs, age :
    Alerts(p, c, secs, age) \subseteq {"ServiceDown", "ContainerCrashLoop", "ServiceBack"}
BY DEF Alerts

(* What a round leaves for one container. *)
LEMMA RoundOf ==
  ASSUME NEW seen, NEW secs, Round(seen, secs), NEW c \in Containers
  PROVE  /\ records'[c] = IF c \in DOMAIN seen
                          THEN Observed(records[c], seen[c], secs) ELSE NoRecord
         /\ emitted'[c] = IF c \in DOMAIN seen
                          THEN Alerts(records[c], seen[c], secs, Older(last_down[c], secs))
                          ELSE {}
         /\ last_down'[c] = IF "ServiceDown" \in emitted'[c] THEN 0
                            ELSE Older(last_down[c], secs)
         /\ streak'[c] = IF c \in DOMAIN seen /\ supervisor_state(seen[c]) = "Failed"
                         THEN Bump(streak[c], Escalation + 1) ELSE 0
         /\ silent'[c] = IF /\ c \in DOMAIN seen /\ supervisor_state(seen[c]) = "Failed"
                            /\ streak[c] > 0 /\ "ServiceDown" \notin emitted'[c]
                         THEN silent[c] + secs ELSE 0
BY DEF Round

-----------------------------------------------------------------------------
(* Type correctness. *)

(* The types hold at the start. *)
LEMMA InitType == Init => TypeOK
<1> SUFFICES ASSUME Init PROVE TypeOK
  OBVIOUS
<1>1. Outside \in 0 .. Outside /\ 0 \in 0 .. GapBound /\ 0 \in 0 .. Escalation + 1
  BY SMT, AlertAssumption DEF Outside
<1> QED BY <1>1, NoRecordType DEF Init, TypeOK

(* A round keeps the types. *)
LEMMA RoundType ==
  ASSUME TypeOK, NEW live \in SUBSET Containers, NEW seen \in [live -> Conditions],
         NEW secs \in Nat, Round(seen, secs)
  PROVE  TypeOK'
<1>1. DOMAIN seen = live /\ \A c \in live : seen[c] \in Condition
  BY AlertAssumption DEF Condition
<1>2. ASSUME NEW c \in Containers
      PROVE  records'[c] \in ContainerRecord
  BY <1>1, <1>2, RoundOf, ObservedType, NoRecordType DEF TypeOK
<1>3. ASSUME NEW c \in Containers
      PROVE  emitted'[c] \in SUBSET {"ServiceDown", "ContainerCrashLoop", "ServiceBack"}
  BY <1>3, RoundOf, AlertKindsOnly
<1>4. ASSUME NEW c \in Containers
      PROVE  last_down'[c] \in 0 .. Outside
  <2>1. 0 \in 0 .. Outside
    BY SMT, AlertAssumption DEF Outside
  <2>2. last_down[c] \in 0 .. Outside
    BY DEF TypeOK
  <2>3. last_down'[c] \in {0, Older(last_down[c], secs)}
    BY RoundOf
  <2>4. Older(last_down[c], secs) \in 0 .. Outside
    BY <2>2, AgeTypes
  <2> QED BY <2>1, <2>3, <2>4
<1>5. ASSUME NEW c \in Containers
      PROVE  streak'[c] \in 0 .. Escalation + 1
  <2>1. 0 \in 0 .. Escalation + 1
    BY SMT, AlertAssumption
  <2>2. streak[c] \in 0 .. Escalation + 1
    BY DEF TypeOK
  <2> QED BY <2>1, <2>2, RoundOf, AgeTypes
<1>6. ASSUME NEW c \in Containers
      PROVE  silent'[c] \in Nat
  <2>1. silent[c] \in Nat
    BY DEF TypeOK
  <2>2. silent'[c] \in {0, silent[c] + secs}
    BY RoundOf
  <2> QED BY <2>1, <2>2, SMT
<1>7. gap' \in 0 .. GapBound
  BY SMT, AlertAssumption DEF Round
<1>8. /\ records' \in [Containers -> ContainerRecord]
      /\ emitted' \in [Containers -> SUBSET {"ServiceDown", "ContainerCrashLoop", "ServiceBack"}]
      /\ last_down' \in [Containers -> 0 .. Outside]
      /\ streak' \in [Containers -> 0 .. Escalation + 1]
      /\ silent' \in [Containers -> Nat]
  BY <1>2, <1>3, <1>4, <1>5, <1>6 DEF Round
<1> QED BY <1>7, <1>8 DEF TypeOK

(* Every step keeps the types. *)
LEMMA StepType == TypeOK /\ [Next]_vars => TypeOK'
<1> SUFFICES ASSUME TypeOK, [Next]_vars PROVE TypeOK'
  OBVIOUS
<1>1. CASE TickCompose
  <2>1. PICK live \in SUBSET Containers, dt \in Intervals :
          \E seen \in [live -> Conditions] : Round(seen, gap + dt)
    BY <1>1 DEF TickCompose
  <2>2. gap + dt \in Nat
    BY AlertAssumption, SMT DEF TypeOK
  <2> QED BY <2>1, <2>2, RoundType
<1>2. CASE PsFailed
  <2>1. gap' \in 0 .. GapBound
    BY <1>2, AlertAssumption, SMT DEF PsFailed, TypeOK
  <2> QED BY <1>2, <2>1 DEF PsFailed, TypeOK
<1>3. CASE DaemonRestart
  <2>1. Outside \in 0 .. Outside /\ 0 \in 0 .. Escalation + 1
    BY SMT, AlertAssumption DEF Outside
  <2> QED BY <1>3, <2>1, NoRecordType DEF DaemonRestart, TypeOK
<1>4. CASE UNCHANGED vars
  BY <1>4 DEF vars, TypeOK
<1> QED BY <1>1, <1>2, <1>3, <1>4 DEF Next

(* Type correctness of the alert pipeline (tick_compose, observe, alert).  *)
THEOREM AlertTypeCorrect == Spec => []TypeOK
BY InitType, StepType, PTL DEF Spec
-----------------------------------------------------------------------------
(* The invariant. *)

(* What a round does to a container it sees failed. *)
LEMMA FailedRound ==
  ASSUME NEW seen, NEW secs, Round(seen, secs), NEW c \in Containers,
         c \in DOMAIN seen, supervisor_state(seen[c]) = "Failed"
  PROVE  /\ records'[c].state = "Failed"
         /\ records'[c].last_alert = IF DecidesDown(records[c], seen[c], secs) THEN 0
                                     ELSE Older(records[c].last_alert, secs)
         /\ records'[c].fail_count = Bump(records[c].fail_count, Escalation)
         /\ records'[c].escalated <=>
              records[c].escalated \/ records[c].fail_count + 1 >= Escalation
         /\ "ServiceDown" \in emitted'[c] <=>
              /\ DecidesDown(records[c], seen[c], secs)
              /\ Older(last_down[c], secs) > DedupSec
         /\ "ContainerCrashLoop" \in emitted'[c] <=>
              records[c].fail_count + 1 >= Escalation /\ ~records[c].escalated
         /\ last_down'[c] = IF "ServiceDown" \in emitted'[c] THEN 0
                            ELSE Older(last_down[c], secs)
         /\ streak'[c] = Bump(streak[c], Escalation + 1)
         /\ silent'[c] = IF streak[c] > 0 /\ "ServiceDown" \notin emitted'[c]
                         THEN silent[c] + secs ELSE 0
<1>1. records'[c] =
        [state |-> "Failed", raw |-> seen[c].raw,
         last_alert |-> IF DecidesDown(records[c], seen[c], secs) THEN 0
                        ELSE Older(records[c].last_alert, secs),
         fail_count |-> Bump(records[c].fail_count, Escalation),
         escalated |-> records[c].escalated \/ DecidesCrashLoop(records[c], seen[c])]
  BY RoundOf DEF Observed
<1>2. emitted'[c] = Alerts(records[c], seen[c], secs, Older(last_down[c], secs))
  BY RoundOf
<1>3. /\ "ServiceDown" \in emitted'[c] <=>
           /\ DecidesDown(records[c], seen[c], secs)
           /\ Older(last_down[c], secs) > DedupSec
      /\ "ContainerCrashLoop" \in emitted'[c] <=> DecidesCrashLoop(records[c], seen[c])
  BY <1>2 DEF Alerts, should_emit
<1>4. DecidesCrashLoop(records[c], seen[c]) <=>
        records[c].fail_count + 1 >= Escalation /\ ~records[c].escalated
  BY DEF DecidesCrashLoop
<1>5. records'[c].escalated <=>
        records[c].escalated \/ DecidesCrashLoop(records[c], seen[c])
  <2> DEFINE e == records[c].escalated \/ DecidesCrashLoop(records[c], seen[c])
  <2>1. records'[c].escalated = e
    BY <1>1
  <2> QED BY <2>1, Zenon
<1>6. /\ records'[c].state = "Failed"
      /\ records'[c].last_alert = IF DecidesDown(records[c], seen[c], secs) THEN 0
                                  ELSE Older(records[c].last_alert, secs)
      /\ records'[c].fail_count = Bump(records[c].fail_count, Escalation)
  BY <1>1
<1>7. records'[c].escalated <=>
        records[c].escalated \/ records[c].fail_count + 1 >= Escalation
  BY <1>4, <1>5
<1> QED BY <1>3, <1>4, <1>6, <1>7, RoundOf

(* What a round does to a container it sees in another state or not at all. *)
LEMMA OtherRound ==
  ASSUME NEW seen, NEW secs, Round(seen, secs), NEW c \in Containers,
         c \notin DOMAIN seen \/ supervisor_state(seen[c]) # "Failed"
  PROVE  /\ records'[c].state # "Failed"
         /\ records'[c].fail_count = 0 /\ records'[c].escalated = FALSE
         /\ "ServiceDown" \notin emitted'[c] /\ "ContainerCrashLoop" \notin emitted'[c]
         /\ streak'[c] = 0 /\ silent'[c] = 0
<1> DEFINE Plain(q) == q.state # "Failed" /\ q.fail_count = 0 /\ q.escalated = FALSE
<1>1. CASE c \notin DOMAIN seen
  <2>1. records'[c] = NoRecord /\ emitted'[c] = {} /\ streak'[c] = 0 /\ silent'[c] = 0
    BY <1>1, RoundOf
  <2>2. Plain(NoRecord)
    BY DEF NoRecord
  <2> QED BY <2>1, <2>2
<1>2. CASE c \in DOMAIN seen /\ supervisor_state(seen[c]) # "Failed"
  <2>1. /\ records'[c] = Observed(records[c], seen[c], secs)
        /\ emitted'[c] = Alerts(records[c], seen[c], secs, Older(last_down[c], secs))
        /\ streak'[c] = 0 /\ silent'[c] = 0
    BY <1>2, RoundOf
  <2>2. Plain(Observed(records[c], seen[c], secs))
    BY <1>2 DEF Observed, NoRecord
  <2>3. "ServiceDown" \notin emitted'[c] /\ "ContainerCrashLoop" \notin emitted'[c]
    BY <1>2, <2>1 DEF Alerts, DecidesDown, DecidesCrashLoop
  <2> QED BY <2>1, <2>2, <2>3
<1> QED BY <1>1, <1>2

(* The parts of the types a proof about one container needs. *)
LEMMA ContainerTypes ==
  ASSUME TypeOK, NEW c \in Containers
  PROVE  /\ records[c].last_alert \in 0 .. Outside
         /\ records[c].fail_count \in 0 .. Escalation
         /\ last_down[c] \in 0 .. Outside
         /\ streak[c] \in 0 .. Escalation + 1 /\ silent[c] \in Nat
BY DEF TypeOK, ContainerRecord

(* The snapshots keep agreeing with the history. *)
LEMMA RoundAgrees ==
  ASSUME TypeOK, FailuresAgree, NEW seen, NEW secs, Round(seen, secs)
  PROVE  FailuresAgree'
<1> SUFFICES ASSUME NEW c \in Containers
             PROVE  /\ records'[c].state = "Failed" <=> streak'[c] > 0
                    /\ records'[c].fail_count =
                         IF streak'[c] > Escalation THEN Escalation ELSE streak'[c]
                    /\ records'[c].escalated <=> streak'[c] >= Escalation
  BY Zenon DEF FailuresAgree
<1>1. CASE c \in DOMAIN seen /\ supervisor_state(seen[c]) = "Failed"
  <2>1. /\ records[c].fail_count = IF streak[c] > Escalation THEN Escalation ELSE streak[c]
        /\ records[c].escalated <=> streak[c] >= Escalation
    BY DEF FailuresAgree
  <2>2. streak'[c] = Bump(streak[c], Escalation + 1) /\ streak[c] \in 0 .. Escalation + 1
    BY <1>1, FailedRound, ContainerTypes
  <2>3. /\ streak'[c] > 0
        /\ Bump(records[c].fail_count, Escalation) =
             IF streak'[c] > Escalation THEN Escalation ELSE streak'[c]
        /\ streak'[c] >= Escalation <=>
             streak[c] >= Escalation \/ records[c].fail_count + 1 >= Escalation
    BY <2>1, <2>2, AlertAssumption DEF Bump
  <2> QED BY <1>1, <2>1, <2>3, FailedRound
<1>2. CASE ~(c \in DOMAIN seen /\ supervisor_state(seen[c]) = "Failed")
  <2>1. /\ records'[c].state # "Failed"
        /\ records'[c].fail_count = 0 /\ records'[c].escalated = FALSE /\ streak'[c] = 0
    BY <1>2, OtherRound
  <2> QED BY <2>1, AlertAssumption
<1> QED BY <1>1, <1>2

(* A round never lets a container be silent for longer than allowed. *)
LEMMA RoundReminds ==
  ASSUME TypeOK, FailuresAgree, SilenceBounded, NEW seen, NEW secs \in Nat,
         Round(seen, secs)
  PROVE  SilenceBounded'
<1> SUFFICES ASSUME NEW c \in Containers
             PROVE  /\ streak'[c] = 0 => silent'[c] = 0
                    /\ last_down'[c] <= DedupSec => silent'[c] <= last_down'[c]
                    /\ streak'[c] > 0 => /\ records'[c].last_alert <= DedupSec
                                         /\ silent'[c] <= DedupSec + records'[c].last_alert
  BY Zenon DEF SilenceBounded
<1>1. /\ last_down[c] \in 0 .. Outside /\ silent[c] \in Nat
      /\ records[c].last_alert \in 0 .. Outside /\ streak[c] \in 0 .. Escalation + 1
  BY ContainerTypes
<1>2. /\ last_down[c] <= DedupSec => silent[c] <= last_down[c]
      /\ streak[c] = 0 => silent[c] = 0
      /\ streak[c] > 0 => /\ records[c].last_alert <= DedupSec
                          /\ silent[c] <= DedupSec + records[c].last_alert
  BY DEF SilenceBounded
<1>3. CASE c \in DOMAIN seen /\ supervisor_state(seen[c]) = "Failed"
  <2> DEFINE down == "ServiceDown" \in emitted'[c]
             dec == DecidesDown(records[c], seen[c], secs)
  <2>1. /\ records'[c].last_alert = IF dec THEN 0 ELSE Older(records[c].last_alert, secs)
        /\ down <=> dec /\ Older(last_down[c], secs) > DedupSec
        /\ last_down'[c] = IF down THEN 0 ELSE Older(last_down[c], secs)
        /\ silent'[c] = IF streak[c] > 0 /\ ~down THEN silent[c] + secs ELSE 0
        /\ streak'[c] = Bump(streak[c], Escalation + 1)
    BY <1>3, FailedRound
  <2>2. ~dec => Older(records[c].last_alert, secs) <= DedupSec
    <3>1. dec \/ ~(Older(records[c].last_alert, secs) > DedupSec)
      BY <1>3 DEF DecidesDown, WindowElapsed
    <3>2. Older(records[c].last_alert, secs) \in 0 .. Outside
      BY <1>1, AgeTypes
    <3> QED BY <3>1, <3>2, AlertAssumption, SMT DEF Outside
  <2>3. ~dec => records'[c].last_alert = Older(records[c].last_alert, secs)
    BY <2>1
  <2>4. dec => records'[c].last_alert = 0
    BY <2>1
  <2>5. streak'[c] > 0
    BY <1>1, <2>1, AlertAssumption DEF Bump
  <2>6. streak[c] = 0 \/ down => silent'[c] = 0
    BY <1>1, <2>1
  <2>7. streak[c] > 0 /\ ~down => silent'[c] = silent[c] + secs
    BY <2>1
  <2>8. ~down => last_down'[c] = Older(last_down[c], secs)
    BY <2>1
  <2>9. down => last_down'[c] = 0
    BY <2>1
  <2>10. dec /\ ~down => ~(Older(last_down[c], secs) > DedupSec)
    BY <2>1
  <2> HIDE DEF down, dec
  <2>11. CASE down
    <3>1. silent'[c] = 0 /\ last_down'[c] = 0
      BY <2>6, <2>9, <2>11
    <3>2. records'[c].last_alert \in 0 .. DedupSec
      <4>1. CASE dec
        BY <4>1, <2>4, AlertAssumption, SMT
      <4>2. CASE ~dec
        <5>1. Older(records[c].last_alert, secs) \in 0 .. Outside
          BY <1>1, AgeTypes
        <5> QED BY <4>2, <5>1, <2>2, <2>3, AlertAssumption, SMT DEF Outside
      <4> QED BY <4>1, <4>2
    <3> QED BY <3>1, <3>2, AlertAssumption, SMT
  <2>12. CASE ~down /\ streak[c] = 0
    <3>1. silent'[c] = 0
      BY <2>6, <2>12
    <3>2. last_down'[c] \in 0 .. Outside
      BY <2>8, <2>12, <1>1, AgeTypes
    <3>3. records'[c].last_alert \in 0 .. DedupSec
      <4>1. CASE dec
        BY <4>1, <2>4, AlertAssumption, SMT
      <4>2. CASE ~dec
        <5>1. Older(records[c].last_alert, secs) \in 0 .. Outside
          BY <1>1, AgeTypes
        <5> QED BY <4>2, <5>1, <2>2, <2>3, AlertAssumption, SMT DEF Outside
      <4> QED BY <4>1, <4>2
    <3> QED BY <3>1, <3>2, <3>3, AlertAssumption, SMT DEF Outside
  <2>13. CASE ~down /\ streak[c] > 0
    <3>1. silent'[c] = silent[c] + secs /\ last_down'[c] = Older(last_down[c], secs)
      BY <2>7, <2>8, <2>13
    <3>2. last_down'[c] <= DedupSec => silent'[c] <= last_down'[c]
      BY <3>1, <1>1, <1>2, AlertAssumption, SMT DEF Older, Outside
    <3>3. CASE dec
      <4>1. records'[c].last_alert = 0 /\ ~(Older(last_down[c], secs) > DedupSec)
        BY <3>3, <2>4, <2>10, <2>13
      <4>2. Older(last_down[c], secs) \in 0 .. Outside
        BY <1>1, AgeTypes
      <4>3. silent'[c] <= DedupSec
        BY <3>1, <3>2, <4>1, <4>2, <1>1, AlertAssumption, SMT DEF Outside
      <4> QED BY <2>5, <3>2, <4>1, <4>3, AlertAssumption, SMT
    <3>4. CASE ~dec
      <4>1. /\ records'[c].last_alert = Older(records[c].last_alert, secs)
            /\ Older(records[c].last_alert, secs) <= DedupSec
        BY <3>4, <2>2, <2>3
      <4>2. Older(records[c].last_alert, secs) = records[c].last_alert + secs
        BY <4>1, <1>1, AlertAssumption, SMT DEF Older, Outside
      <4>3. silent[c] <= DedupSec + records[c].last_alert
        BY <1>2, <2>13
      <4> QED BY <2>5, <3>1, <3>2, <4>1, <4>2, <4>3, <1>1, AlertAssumption, SMT
    <3> QED BY <3>3, <3>4
  <2>14. streak[c] = 0 \/ streak[c] > 0
    BY <1>1
  <2> QED BY <2>11, <2>12, <2>13, <2>14
<1>4. CASE ~(c \in DOMAIN seen /\ supervisor_state(seen[c]) = "Failed")
  <2>1. streak'[c] = 0 /\ silent'[c] = 0 /\ last_down'[c] = Older(last_down[c], secs)
    BY <1>4, OtherRound, RoundOf
  <2>2. last_down'[c] \in 0 .. Outside
    BY <2>1, <1>1, AgeTypes
  <2> QED BY <2>1, <2>2, SMT
<1> QED BY <1>3, <1>4

(* The invariant holds at the start ... *)
LEMMA InvInit == Init => IInv
<1> SUFFICES ASSUME Init PROVE IInv
  OBVIOUS
<1>1. ASSUME NEW c \in Containers
      PROVE  /\ records[c] = NoRecord /\ last_down[c] = Outside
             /\ streak[c] = 0 /\ silent[c] = 0
  BY DEF Init
<1>2. /\ NoRecord.state # "Failed" /\ NoRecord.fail_count = 0
      /\ NoRecord.escalated = FALSE
  BY DEF NoRecord
<1>3. ASSUME NEW c \in Containers
      PROVE  /\ records[c].state = "Failed" <=> streak[c] > 0
             /\ records[c].fail_count = IF streak[c] > Escalation THEN Escalation ELSE streak[c]
             /\ records[c].escalated <=> streak[c] >= Escalation
  <2>1. /\ ~(streak[c] > 0) /\ ~(streak[c] > Escalation) /\ ~(streak[c] >= Escalation)
        /\ streak[c] = 0
    BY <1>1, AlertAssumption
  <2>2. /\ records[c].state # "Failed" /\ records[c].fail_count = 0
        /\ records[c].escalated = FALSE
    BY <1>1, <1>2
  <2>3. records[c].fail_count = IF streak[c] > Escalation THEN Escalation ELSE streak[c]
    BY <2>1, <2>2
  <2>4. /\ records[c].state = "Failed" <=> streak[c] > 0
        /\ records[c].escalated <=> streak[c] >= Escalation
    BY <2>1, <2>2, Zenon
  <2> QED BY <2>3, <2>4, Zenon
<1>4. ASSUME NEW c \in Containers
      PROVE  /\ silent[c] = 0 /\ ~(streak[c] > 0)
             /\ last_down[c] <= DedupSec => silent[c] <= last_down[c]
  BY <1>1, AlertAssumption DEF Outside
<1>5. SilenceBounded
  BY <1>4, Zenon DEF SilenceBounded
<1> QED BY <1>3, <1>5, InitType DEF IInv, FailuresAgree

(* ... and every step keeps it. *)
LEMMA InvStep == IInv /\ [Next]_vars => IInv'
<1> SUFFICES ASSUME IInv, [Next]_vars PROVE FailuresAgree' /\ SilenceBounded'
  BY StepType DEF IInv
<1>1. CASE TickCompose
  <2>1. PICK live \in SUBSET Containers, dt \in Intervals :
          \E seen \in [live -> Conditions] : Round(seen, gap + dt)
    BY <1>1 DEF TickCompose
  <2>2. gap + dt \in Nat
    BY AlertAssumption, SMT DEF IInv, TypeOK
  <2> QED BY <2>1, <2>2, RoundAgrees, RoundReminds DEF IInv
<1>2. CASE PsFailed
  BY <1>2 DEF PsFailed, IInv, FailuresAgree, SilenceBounded
<1>3. CASE DaemonRestart
  BY <1>3, AlertAssumption DEF DaemonRestart, FailuresAgree, SilenceBounded, NoRecord, Outside
<1>4. CASE UNCHANGED vars
  BY <1>4 DEF vars, IInv, FailuresAgree, SilenceBounded
<1> QED BY <1>1, <1>2, <1>3, <1>4 DEF Next

(* The inductive invariant of the alert pipeline. *)
THEOREM AlertInvariant == Spec => []IInv
BY InvInit, InvStep, PTL DEF Spec

(* No run of failures is silent for more than two windows at the rounds    *)
(* that see it: tracker and Alerter together never lose a failed container. *)
THEOREM RemindersCome == Spec => []ReminderDue
<1>1. IInv => ReminderDue
  <2> SUFFICES ASSUME IInv, NEW c \in Containers PROVE silent[c] <= 2 * DedupSec
    BY DEF ReminderDue
  <2>1. /\ streak[c] \in 0 .. Escalation + 1 /\ silent[c] \in Nat
        /\ records[c].last_alert \in 0 .. Outside
    BY ContainerTypes DEF IInv
  <2>2. /\ streak[c] = 0 => silent[c] = 0
        /\ streak[c] > 0 => /\ records[c].last_alert <= DedupSec
                            /\ silent[c] <= DedupSec + records[c].last_alert
    BY DEF IInv, SilenceBounded
  <2> QED BY <2>1, <2>2, AlertAssumption, SMT
<1> QED BY <1>1, AlertInvariant, PTL

(* ContainerCrashLoop belongs to the round that completes a run of         *)
(* Escalation failures, and to no other.                                   *)
THEOREM EscalationExact == Spec => EscalatesAtThreshold
<1>1. IInv /\ [Next]_vars =>
        [\A c \in Containers :
           "ContainerCrashLoop" \in emitted'[c] <=>
             streak[c] < Escalation /\ streak'[c] = Escalation]_vars
  <2> SUFFICES ASSUME IInv, Next, NEW c \in Containers
               PROVE  "ContainerCrashLoop" \in emitted'[c] <=>
                        streak[c] < Escalation /\ streak'[c] = Escalation
    OBVIOUS
  <2>1. /\ streak[c] \in 0 .. Escalation + 1
        /\ records[c].fail_count = IF streak[c] > Escalation THEN Escalation ELSE streak[c]
        /\ records[c].escalated <=> streak[c] >= Escalation
    BY ContainerTypes DEF IInv, FailuresAgree
  <2>2. CASE TickCompose
    <3>1. PICK seen, secs : Round(seen, secs)
      BY <2>2 DEF TickCompose
    <3>2. CASE c \in DOMAIN seen /\ supervisor_state(seen[c]) = "Failed"
      <4>1. streak'[c] = Bump(streak[c], Escalation + 1)
        BY <3>1, <3>2, FailedRound
      <4>2. records[c].fail_count + 1 >= Escalation /\ ~(streak[c] >= Escalation) <=>
              streak[c] < Escalation /\ streak'[c] = Escalation
        BY <2>1, <4>1, AlertAssumption DEF Bump
      <4> QED BY <2>1, <3>1, <3>2, <4>2, FailedRound
    <3>3. CASE ~(c \in DOMAIN seen /\ supervisor_state(seen[c]) = "Failed")
      <4>1. streak'[c] = 0 /\ "ContainerCrashLoop" \notin emitted'[c]
        BY <3>1, <3>3, OtherRound
      <4> QED BY <4>1, AlertAssumption
    <3> QED BY <3>2, <3>3
  <2>3. CASE PsFailed
    <3>1. emitted'[c] = {} /\ streak'[c] = streak[c]
      BY <2>3 DEF PsFailed
    <3> QED BY <2>1, <3>1, AlertAssumption
  <2>4. CASE DaemonRestart
    <3>1. emitted'[c] = {} /\ streak'[c] = 0
      BY <2>4 DEF DaemonRestart
    <3> QED BY <3>1, AlertAssumption
  <2> QED BY <2>2, <2>3, <2>4 DEF Next
<1> QED BY <1>1, AlertInvariant, PTL DEF Spec, EscalatesAtThreshold
=============================================================================
