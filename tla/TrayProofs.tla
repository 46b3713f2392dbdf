----------------------------- MODULE TrayProofs -----------------------------
(***************************************************************************)
(* What the tray says and asks, for every set of services, every registry  *)
(* and any number of clicks and outages.                                   *)
(***************************************************************************)
EXTENDS Tray, TLAPS

(* Commands, and the rows they are clicked on.                             *)
Kinds == {"up", "down", "restart", "drain", "rollout", "group_up", "group_down"}
Tiers == {"Core", "Platform", "App"}
Command == [kind : Kinds, on : Service \cup Tiers, id : Nat]

RowsKnown == /\ tier \in [Service -> Tiers]
             /\ DOMAIN shown \subseteq Service
             /\ DOMAIN poll.rows \subseteq Service
             /\ DOMAIN actual = Service

CommandsTyped == /\ queue \in Seq(Command)
                 /\ pending = << >> \/ \E c \in Command : pending = <<c>>
                 /\ clicks \in Nat

ClickInv == RowsKnown /\ CommandsTyped

(* What a click may put in the queue or in the bubble.                     *)
LEMMA AskType ==
  ASSUME NEW kind \in Kinds, NEW on \in Service \cup Tiers, clicks \in Nat
  PROVE  /\ Ask(kind, on) \in Command /\ Ask(kind, on).kind = kind /\ Ask(kind, on).on = on
         /\ Ask(kind, on).id = clicks + 1
BY DEF Ask, Command

(* A command that is enqueued comes last.                                  *)
LEMMA Queued ==
  ASSUME NEW c \in Command, queue \in Seq(Command)
  PROVE  /\ Append(queue, c) \in Seq(Command)
         /\ Len(Append(queue, c)) = Len(queue) + 1
         /\ Last(Append(queue, c)) = c
         /\ Len(queue) \in Nat
BY DEF Last

(* A click queues a command that needs no confirmation, or puts one into   *)
(* an empty bubble; a decision empties the bubble, and may queue what was  *)
(* in it; nothing else touches either, but the worker that takes all.      *)
ClickTaken ==
  /\ pending = << >> /\ clicks' = clicks + 1 /\ UNCHANGED <<batch, work>>
  /\ \E c \in Command :
       /\ c.id = clicks + 1
       /\ \/ queue' = Append(queue, c) /\ pending' = pending /\ ~Destructive(c)
          \/ queue' = queue /\ pending' = <<c>>
Decided == pending # << >> /\ pending' = << >> /\ queue' \in {queue, Append(queue, pending[1])}
           /\ UNCHANGED <<clicks, batch, work>>
Untouched == pending' = pending /\ queue' \in {queue, << >>} /\ clicks' = clicks

Click == ToggleRow \/ RowMenu \/ GroupButtons

(* A click asks in the bubble or enqueues, and does nothing else.          *)
LEMMA ClickMeans ==
  ASSUME ClickInv, Click
  PROVE  ClickTaken
<1>0. clicks \in Nat /\ tier \in [Service -> Tiers] /\ DOMAIN shown \subseteq Service
  BY DEF ClickInv, RowsKnown, CommandsTyped
<1>1. CASE ToggleRow
  <2>1. PICK s \in DOMAIN shown :
          LET stop == is_running(shown[s])
              c == Ask(IF stop THEN "down" ELSE "up", s)
          IN  IF stop /\ tier[s] = "Core"
                THEN destructive(c) /\ UNCHANGED queue
                ELSE enqueue(c) /\ UNCHANGED pending
    BY <1>1 DEF ToggleRow
  <2> DEFINE stop == is_running(shown[s])
             c == Ask(IF stop THEN "down" ELSE "up", s)
  <2>2. c \in Command /\ c.kind \in {"down", "up"} /\ c.on = s /\ c.id = clicks + 1
        /\ (c.kind = "down" => stop)
    BY <1>0, AskType DEF Kinds
  <2>3. pending = << >> /\ clicks' = clicks + 1 /\ UNCHANGED <<batch, work>>
    BY <1>0, <1>1 DEF ToggleRow, Asking, daemon
  <2>4. IF stop /\ tier[s] = "Core" THEN pending' = <<c>> /\ queue' = queue
                                    ELSE queue' = Append(queue, c) /\ pending' = pending
    BY <2>1 DEF destructive, enqueue
  <2> HIDE DEF c, stop
  <2>5. CASE stop /\ tier[s] = "Core"
    BY <2>2, <2>3, <2>4, <2>5 DEF ClickTaken
  <2>6. CASE ~(stop /\ tier[s] = "Core")
    <3>1. ~Destructive(c)
      BY <2>2, <2>6 DEF Destructive
    <3> QED
      BY <2>2, <2>3, <2>4, <2>6, <3>1 DEF ClickTaken
  <2> QED
    BY <2>5, <2>6
<1>2. CASE RowMenu
  <2>1. pending = << >> /\ clicks' = clicks + 1 /\ UNCHANGED <<batch, work>>
    BY <1>0, <1>2 DEF RowMenu, Asking, daemon
  <2>2. PICK s \in DOMAIN shown :
          \/ enqueue(Ask("restart", s)) /\ UNCHANGED pending
          \/ \E kind \in {"drain", "rollout"} : destructive(Ask(kind, s)) /\ UNCHANGED queue
    BY <1>2 DEF RowMenu
  <2>3. CASE enqueue(Ask("restart", s)) /\ UNCHANGED pending
    <3> DEFINE c == Ask("restart", s)
    <3>1. c \in Command /\ c.kind = "restart" /\ c.id = clicks + 1
      BY <1>0, AskType DEF Kinds
    <3>2. queue' = Append(queue, c) /\ pending' = pending
      BY <2>3 DEF enqueue
    <3> HIDE DEF c
    <3>3. ~Destructive(c)
      BY <3>1 DEF Destructive
    <3> QED
      BY <2>1, <3>1, <3>2, <3>3 DEF ClickTaken
  <2>4. ASSUME NEW kind \in {"drain", "rollout"}, destructive(Ask(kind, s)) /\ UNCHANGED queue
        PROVE  ClickTaken
    <3>1. Ask(kind, s) \in Command /\ Ask(kind, s).id = clicks + 1
      BY <1>0, AskType DEF Kinds
    <3> QED
      BY <2>1, <2>4, <3>1 DEF ClickTaken, destructive
  <2> QED
    BY <2>2, <2>3, <2>4
<1>3. CASE GroupButtons
  <2>1. pending = << >> /\ clicks' = clicks + 1 /\ UNCHANGED <<batch, work>>
    BY <1>0, <1>3 DEF GroupButtons, Asking, daemon
  <2>2. PICK t \in {tier[s] : s \in Service} :
          \/ enqueue(Ask("group_up", t)) /\ UNCHANGED pending
          \/ destructive(Ask("group_down", t)) /\ UNCHANGED queue
    BY <1>3 DEF GroupButtons
  <2>3. t \in Tiers
    BY <1>0
  <2>4. CASE enqueue(Ask("group_up", t)) /\ UNCHANGED pending
    <3> DEFINE c == Ask("group_up", t)
    <3>1. c \in Command /\ c.kind = "group_up" /\ c.id = clicks + 1
      BY <1>0, <2>3, AskType DEF Kinds
    <3>2. queue' = Append(queue, c) /\ pending' = pending
      BY <2>4 DEF enqueue
    <3> HIDE DEF c
    <3>3. ~Destructive(c)
      BY <3>1 DEF Destructive
    <3> QED
      BY <2>1, <3>1, <3>2, <3>3 DEF ClickTaken
  <2>5. CASE destructive(Ask("group_down", t)) /\ UNCHANGED queue
    <3>1. Ask("group_down", t) \in Command /\ Ask("group_down", t).id = clicks + 1
      BY <1>0, <2>3, AskType DEF Kinds
    <3> QED
      BY <2>1, <2>5, <3>1 DEF ClickTaken, destructive
  <2> QED
    BY <2>2, <2>4, <2>5
<1> QED
  BY <1>1, <1>2, <1>3 DEF Click

(* Every step is a click, a decision, or leaves the bubble and the queue   *)
(* alone.                                                                  *)
LEMMA ClickMoves ==
  ASSUME ClickInv, Next
  PROVE  ClickTaken \/ Decided \/ Untouched
<1>3. CASE Click
  BY <1>3, ClickMeans
<1>4. CASE Decide
  BY <1>4 DEF Decide, Decided, daemon
<1>5. CASE self_heal
  BY <1>5 DEF self_heal, Untouched, worker
<1>6. CASE Worker
  BY <1>6 DEF Worker, Take, Post, PostReturns, Untouched
<1>7. CASE Poller
  BY <1>7 DEF Poller, PollBegins, BootAnswers, BootFills, BootFails, HealthReturns, Untouched,
              worker
<1>8. CASE Works \/ DaemonDies \/ DaemonStarts
  BY <1>8 DEF Works, Locks, Executes, Settles, DaemonDies, DaemonStarts, Untouched, worker
<1> QED
  BY <1>3, <1>4, <1>5, <1>6, <1>7, <1>8 DEF Next, User, Click

(* Nothing has been clicked at the start.                                  *)
LEMMA InitClick == Init => ClickInv
<1> SUFFICES ASSUME Init PROVE ClickInv
  OBVIOUS
<1>1. tier \in [Service -> Tiers]
  BY TrayAssumption DEF Init, Tiers
<1>2. DOMAIN shown = {} /\ DOMAIN poll.rows = {} /\ DOMAIN actual = Service
  BY DEF Init, Idle, NoRow
<1> QED
  BY <1>1, <1>2 DEF Init, ClickInv, RowsKnown, CommandsTyped

(* The rows come from the daemon's answer, which knows its services.       *)
LEMMA RowsStep ==
  ASSUME RowsKnown, [Next]_vars
  PROVE  RowsKnown'
<1> USE DEF RowsKnown
<1>1. CASE UNCHANGED vars
  BY <1>1 DEF vars, daemon, model
<1>2. CASE ToggleRow
  <2>1. \E s, st : shown' = [shown EXCEPT ![s] = st]
    BY <1>2 DEF ToggleRow, set_state
  <2> QED
    BY <1>2, <2>1 DEF ToggleRow, Asking, daemon
<1>3. CASE RowMenu \/ GroupButtons \/ Decide \/ self_heal
  BY <1>3 DEF RowMenu, GroupButtons, Decide, self_heal, Asking, daemon, model
<1>4. CASE Worker
  BY <1>4 DEF Worker, Take, Post, PostReturns, daemon, model
<1>5. CASE PollBegins \/ BootAnswers \/ BootFails \/ HealthReturns
  <2>1. UNCHANGED <<tier, shown, actual>>
    BY <1>5 DEF PollBegins, BootAnswers, BootFails, HealthReturns, daemon, model
  <2>2. poll'.rows \in {NoRow, actual}
    BY <1>5 DEF PollBegins, BootAnswers, BootFails, HealthReturns, Idle
  <2>3. DOMAIN NoRow = {}
    BY DEF NoRow
  <2> QED
    BY <2>1, <2>2, <2>3
<1>6. CASE BootFills
  <2>1. shown' = poll.rows /\ poll'.rows = NoRow /\ UNCHANGED <<tier, actual>>
    BY <1>6 DEF BootFills, Idle, daemon
  <2>2. DOMAIN NoRow = {}
    BY DEF NoRow
  <2> QED
    BY <2>1, <2>2
<1>7. CASE Works
  <2>1. UNCHANGED <<tier, shown, poll>>
    BY <1>7 DEF Works, Locks, Executes, Settles, model
  <2>2. DOMAIN actual' = Service
    BY <1>7 DEF Works, Locks, Executes, Settles
  <2> QED
    BY <2>1, <2>2
<1>8. CASE DaemonDies \/ DaemonStarts
  BY <1>8 DEF DaemonDies, DaemonStarts, model
<1> QED
  BY <1>1, <1>2, <1>3, <1>4, <1>5, <1>6, <1>7, <1>8 DEF Next, User, Poller

(* Every step keeps the rows known and the commands typed.                 *)
LEMMA StepClick == ClickInv /\ [Next]_vars => ClickInv'
<1> SUFFICES ASSUME ClickInv, [Next]_vars PROVE ClickInv'
  OBVIOUS
<1>1. RowsKnown'
  BY RowsStep DEF ClickInv
<1>2. queue \in Seq(Command) /\ clicks \in Nat
      /\ (pending = << >> \/ \E c \in Command : pending = <<c>>)
  BY DEF ClickInv, CommandsTyped
<1>3. CASE UNCHANGED vars
  BY <1>2, <1>1, <1>3 DEF vars, worker, ClickInv, CommandsTyped
<1>4. CASE ClickTaken
  <2>1. PICK c \in Command : /\ pending = << >> /\ clicks' = clicks + 1 /\ UNCHANGED <<batch, work>>
                             /\ \/ queue' = Append(queue, c) /\ pending' = pending
                                \/ queue' = queue /\ pending' = <<c>>
    BY <1>4 DEF ClickTaken
  <2>2. queue' \in Seq(Command)
    BY <1>2, <2>1, Queued
  <2> QED
    BY <1>1, <2>1, <2>2 DEF ClickInv, CommandsTyped
<1>5. CASE Decided
  <2>1. PICK c \in Command : pending = <<c>>
    BY <1>2, <1>5 DEF Decided
  <2>2. queue' \in {queue, Append(queue, c)} /\ pending' = << >> /\ clicks' = clicks
    BY <1>5, <2>1 DEF Decided
  <2>3. queue' \in Seq(Command)
    BY <1>2, <2>2, Queued
  <2> QED
    BY <1>1, <1>2, <2>2, <2>3 DEF ClickInv, CommandsTyped
<1>6. CASE Untouched
  <2>1. queue' \in {queue, << >>}
    BY <1>6 DEF Untouched
  <2>2. pending' = pending /\ clicks' = clicks
    BY <1>6 DEF Untouched
  <2>3. << >> \in Seq(Command)
    OBVIOUS
  <2>4. queue' \in Seq(Command)
    BY <1>2, <2>1, <2>3
  <2> QED
    BY <1>1, <1>2, <2>2, <2>4 DEF ClickInv, CommandsTyped
<1> QED
  BY <1>3, <1>4, <1>5, <1>6, ClickMoves

(* What takes down a core service or a group, or drains or rolls out, is   *)
(* queued only by a decision on a bubble about that very command, and an   *)
(* open bubble keeps its command until it is decided (main.rs 528, 545).   *)
THEOREM AlwaysConfirmed == Spec => ConfirmedFirst
<1> DEFINE Confirmed ==
      /\ Len(queue') > Len(queue) /\ Destructive(Last(queue')) => pending = <<Last(queue')>>
      /\ pending # << >> => pending' \in {pending, << >>}
<1>1. ASSUME ClickInv, Next PROVE Confirmed
  <2>1. queue \in Seq(Command) /\ Len(queue) \in Nat /\ Len(<< >>) = 0
        /\ (pending = << >> \/ \E c \in Command : pending = <<c>>)
    BY <1>1 DEF ClickInv, CommandsTyped
  <2>2. CASE ClickTaken
    <3>1. PICK c \in Command :
            /\ pending = << >>
            /\ \/ queue' = Append(queue, c) /\ ~Destructive(c)
               \/ queue' = queue
      BY <2>2 DEF ClickTaken
    <3>2. CASE queue' = Append(queue, c) /\ ~Destructive(c)
      BY <2>1, <3>1, <3>2, Queued
    <3>3. CASE queue' = queue
      BY <2>1, <3>1, <3>3
    <3> QED
      BY <3>1, <3>2, <3>3
  <2>3. CASE Decided
    <3>1. PICK c \in Command : pending = <<c>>
      BY <2>1, <2>3 DEF Decided
    <3>2. queue' \in {queue, Append(queue, c)} /\ pending' = << >>
      BY <2>3, <3>1 DEF Decided
    <3>3. CASE queue' = Append(queue, c)
      BY <2>1, <3>1, <3>2, <3>3, Queued
    <3>4. CASE queue' = queue
      BY <2>1, <3>2, <3>4
    <3> QED
      BY <3>2, <3>3, <3>4
  <2>4. CASE Untouched
    BY <2>1, <2>4 DEF Untouched
  <2> QED
    BY <1>1, <2>2, <2>3, <2>4, ClickMoves
<1>2. Spec => []ClickInv
  BY InitClick, StepClick, PTL DEF Spec
<1>3. ClickInv /\ [Next]_vars => [Confirmed]_vars
  BY <1>1
<1> QED
  BY <1>2, <1>3, PTL DEF Spec, ConfirmedFirst
-----------------------------------------------------------------------------
(* The order of the commands, from the queue over the batch to the         *)
(* daemon.  The order in the daemon alone is not inductive: what is behind *)
(* must come later still, and a bubble that waits for its decision is      *)
(* later than all that has been sent.                                      *)
Sorted(s) == \A i, j \in DOMAIN s :
               i < j /\ s[i] # UpAll /\ s[j] # UpAll => s[i].id < s[j].id
Before(s, t) == \A i \in DOMAIN s, j \in DOMAIN t :
                  s[i] # UpAll /\ t[j] # UpAll => s[i].id < t[j].id
Below(s, n) == \A i \in DOMAIN s : s[i] # UpAll => s[i].id < n

Asked(s) == Below(s, clicks + 1) /\ (pending # << >> => Below(s, pending[1].id))

Order ==
  /\ batch \in Seq(Command) /\ work \in Seq(Command \cup {UpAll})
  /\ Sorted(work) /\ Sorted(batch) /\ Sorted(queue)
  /\ Before(work, batch) /\ Before(work, queue) /\ Before(batch, queue)
  /\ Asked(work) /\ Asked(batch) /\ Asked(queue)
  /\ pending # << >> => pending[1].id <= clicks

OrderInv == ClickInv /\ Order

(* Two ordered sequences, one before the other, make an ordered one.       *)
LEMMA SortedJoin ==
  ASSUME NEW S, NEW s \in Seq(S), NEW t \in Seq(S), Sorted(s), Sorted(t), Before(s, t)
  PROVE  Sorted(s \o t)
<1> DEFINE r == s \o t
<1>1. /\ Len(s) \in Nat /\ Len(t) \in Nat /\ DOMAIN s = 1 .. Len(s) /\ DOMAIN t = 1 .. Len(t)
      /\ DOMAIN r = 1 .. Len(s) + Len(t)
      /\ \A i \in DOMAIN r : r[i] = IF i <= Len(s) THEN s[i] ELSE t[i - Len(s)]
  OBVIOUS
<1> HIDE DEF r
<1>2. ASSUME NEW i \in DOMAIN r, NEW j \in DOMAIN r, i < j, r[i] # UpAll, r[j] # UpAll
      PROVE  r[i].id < r[j].id
  <2>1. CASE j <= Len(s)
    BY <1>1, <1>2, <2>1 DEF Sorted
  <2>2. CASE i > Len(s)
    <3>1. /\ r[i] = t[i - Len(s)] /\ r[j] = t[j - Len(s)]
          /\ i - Len(s) \in DOMAIN t /\ j - Len(s) \in DOMAIN t /\ i - Len(s) < j - Len(s)
      BY <1>1, <1>2, <2>2
    <3> QED
      BY <1>2, <3>1 DEF Sorted
  <2>3. CASE i <= Len(s) /\ j > Len(s)
    <3>1. r[i] = s[i] /\ r[j] = t[j - Len(s)] /\ i \in DOMAIN s /\ j - Len(s) \in DOMAIN t
      BY <1>1, <1>2, <2>3
    <3> QED
      BY <1>2, <3>1 DEF Before
  <2> QED
    BY <1>1, <1>2, <2>1, <2>2, <2>3
<1> QED
  BY <1>2 DEF Sorted, r

(* A command at the end, later than all that are there.                    *)
LEMMA AppendSorted ==
  ASSUME NEW S, NEW s \in Seq(S), NEW c \in S, Sorted(s), c # UpAll => Below(s, c.id)
  PROVE  Sorted(Append(s, c))
<1> DEFINE r == Append(s, c)
<1>1. /\ Len(s) \in Nat /\ DOMAIN s = 1 .. Len(s) /\ DOMAIN r = 1 .. Len(s) + 1
      /\ \A i \in DOMAIN r : r[i] = IF i <= Len(s) THEN s[i] ELSE c
  OBVIOUS
<1> HIDE DEF r
<1>2. ASSUME NEW i \in DOMAIN r, NEW j \in DOMAIN r, i < j, r[i] # UpAll, r[j] # UpAll
      PROVE  r[i].id < r[j].id
  <2>1. i \in DOMAIN s /\ r[i] = s[i]
    BY <1>1, <1>2
  <2>2. CASE j <= Len(s)
    BY <1>1, <1>2, <2>1, <2>2 DEF Sorted
  <2>3. CASE j > Len(s)
    BY <1>1, <1>2, <2>1, <2>3 DEF Below
  <2> QED
    BY <1>1, <2>2, <2>3
<1> QED
  BY <1>2 DEF Sorted, r

(* A sequence stays below a number with a command that is below it.        *)
LEMMA AppendBelow ==
  ASSUME NEW S, NEW s \in Seq(S), NEW c \in S, NEW n, Below(s, n), c # UpAll => c.id < n
  PROVE  Below(Append(s, c), n)
<1>1. /\ DOMAIN s = 1 .. Len(s) /\ DOMAIN Append(s, c) = 1 .. Len(s) + 1 /\ Len(s) \in Nat
      /\ \A i \in DOMAIN Append(s, c) : Append(s, c)[i] = IF i <= Len(s) THEN s[i] ELSE c
  OBVIOUS
<1> QED
  BY <1>1 DEF Below

(* When one sequence is before another with a command more.                *)
LEMMA AppendBefore ==
  ASSUME NEW S, NEW s \in Seq(S), NEW t \in Seq(S), NEW c \in S, Before(s, t)
  PROVE  /\ (c # UpAll => Below(s, c.id)) => Before(s, Append(t, c))
         /\ (\A j \in DOMAIN t : c # UpAll /\ t[j] # UpAll => c.id < t[j].id)
              => Before(Append(s, c), t)
<1>1. ASSUME NEW q \in Seq(S)
      PROVE  /\ DOMAIN q = 1 .. Len(q) /\ DOMAIN Append(q, c) = 1 .. Len(q) + 1
             /\ Len(q) \in Nat
             /\ \A i \in DOMAIN Append(q, c) : Append(q, c)[i] = IF i <= Len(q) THEN q[i] ELSE c
  OBVIOUS
<1>2. (c # UpAll => Below(s, c.id)) => Before(s, Append(t, c))
  BY <1>1 DEF Below, Before
<1>3. (\A j \in DOMAIN t : c # UpAll /\ t[j] # UpAll => c.id < t[j].id) => Before(Append(s, c), t)
  BY <1>1 DEF Before
<1> QED
  BY <1>2, <1>3

(* Without its first.                                                      *)
LEMMA TailOrder ==
  ASSUME NEW S, NEW s \in Seq(S), s # << >>
  PROVE  /\ Tail(s) \in Seq(S) /\ Head(s) \in S
         /\ Sorted(s) => Sorted(Tail(s))
         /\ \A n : Below(s, n) => Below(Tail(s), n)
         /\ \A t : Before(s, t) => Before(Tail(s), t)
         /\ \A t : Before(t, s) => Before(t, Tail(s))
         /\ \A t : Before(t, s) /\ Head(s) # UpAll => Below(t, Head(s).id)
         /\ Sorted(s) => \A j \in DOMAIN Tail(s) :
                           Head(s) # UpAll /\ Tail(s)[j] # UpAll => Head(s).id < Tail(s)[j].id
         /\ \A t : Before(s, t) => \A j \in DOMAIN t :
                                     Head(s) # UpAll /\ t[j] # UpAll => Head(s).id < t[j].id
         /\ \A n : Below(s, n) /\ Head(s) # UpAll => Head(s).id < n
<1> DEFINE r == Tail(s)
           h == Head(s)
<1>1. /\ r \in Seq(S) /\ h \in S /\ h = s[1] /\ 1 \in DOMAIN s
      /\ Len(s) \in Nat /\ DOMAIN s = 1 .. Len(s) /\ DOMAIN r = 1 .. Len(s) - 1
      /\ \A i \in DOMAIN r : i + 1 \in DOMAIN s /\ r[i] = s[i + 1]
  OBVIOUS
<1> HIDE DEF r, h
<1>2. Sorted(s) => Sorted(r)
  <2> SUFFICES ASSUME Sorted(s), NEW i \in DOMAIN r, NEW j \in DOMAIN r, i < j,
                      r[i] # UpAll, r[j] # UpAll
               PROVE  r[i].id < r[j].id
    BY DEF Sorted
  <2>1. i + 1 \in DOMAIN s /\ j + 1 \in DOMAIN s /\ r[i] = s[i + 1] /\ r[j] = s[j + 1]
        /\ i + 1 < j + 1
    BY <1>1
  <2> QED
    BY <2>1 DEF Sorted
<1>3. \A n : Below(s, n) => Below(r, n) /\ (h # UpAll => h.id < n)
  BY <1>1 DEF Below
<1>4. \A t : Before(s, t) => Before(r, t) /\ \A j \in DOMAIN t :
                                     h # UpAll /\ t[j] # UpAll => h.id < t[j].id
  BY <1>1 DEF Before
<1>5. \A t : Before(t, s) => Before(t, r) /\ (h # UpAll => Below(t, h.id))
  BY <1>1 DEF Before, Below
<1>6. Sorted(s) => \A j \in DOMAIN r : h # UpAll /\ r[j] # UpAll => h.id < r[j].id
  <2> SUFFICES ASSUME Sorted(s), NEW j \in DOMAIN r, h # UpAll, r[j] # UpAll
               PROVE  h.id < r[j].id
    OBVIOUS
  <2>1. j + 1 \in DOMAIN s /\ 1 < j + 1 /\ r[j] = s[j + 1]
    BY <1>1
  <2> QED
    BY <1>1, <2>1 DEF Sorted
<1> QED
  BY <1>1, <1>2, <1>3, <1>4, <1>5, <1>6 DEF r, h

(* The empty sequence is in every order.                                   *)
LEMMA EmptyOrder ==
  /\ Sorted(<< >>)
  /\ \A n : Below(<< >>, n)
  /\ \A t : Before(<< >>, t) /\ Before(t, << >>)
BY DEF Sorted, Below, Before

(* What is later than a number is later than any above it.                 *)
LEMMA BelowGrows ==
  ASSUME NEW s \in Seq(Command \cup {UpAll}), NEW m \in Nat, NEW n \in Nat, m <= n, Below(s, m)
  PROVE  Below(s, n)
BY DEF Below, Command

(* Every step keeps the commands in the order of their clicks.             *)
LEMMA StepOrder ==
  ASSUME OrderInv, [Next]_vars
  PROVE  Order'
<1>0. /\ queue \in Seq(Command) /\ batch \in Seq(Command) /\ work \in Seq(Command \cup {UpAll})
      /\ clicks \in Nat /\ (pending = << >> \/ \E c \in Command : pending = <<c>>)
      /\ queue \in Seq(Command \cup {UpAll}) /\ batch \in Seq(Command \cup {UpAll})
  BY DEF OrderInv, ClickInv, CommandsTyped, Order
<1>1. CASE UNCHANGED vars
  <2>1. UNCHANGED <<queue, batch, work, pending, clicks>>
    BY <1>1 DEF vars, worker, daemon
  <2> QED
    BY <2>1 DEF OrderInv, Order, Asked
<1>2. CASE ClickTaken
  <2>1. PICK c \in Command :
          /\ c.id = clicks + 1
          /\ \/ queue' = Append(queue, c) /\ pending' = pending
             \/ queue' = queue /\ pending' = <<c>>
    BY <1>2 DEF ClickTaken
  <2>2. pending = << >> /\ clicks' = clicks + 1 /\ UNCHANGED <<batch, work>>
    BY <1>2 DEF ClickTaken
  <2>3. \A s : Below(s, clicks + 1) <=> Below(s, c.id)
    BY <2>1
  <2>4. Below(queue, clicks + 2) /\ Below(batch, clicks + 2) /\ Below(work, clicks + 2)
    <3>1. clicks + 1 \in Nat /\ clicks + 2 \in Nat /\ clicks + 1 <= clicks + 2
      BY <1>0
    <3>2. Below(queue, clicks + 1) /\ Below(batch, clicks + 1) /\ Below(work, clicks + 1)
      BY DEF OrderInv, Order, Asked
    <3> QED
      BY <1>0, <3>1, <3>2, BelowGrows
  <2>5. CASE queue' = Append(queue, c) /\ pending' = pending
    <3>1. Sorted(queue')
      BY <1>0, <2>3, <2>5, AppendSorted DEF OrderInv, Order, Asked
    <3>2. Before(work, queue') /\ Before(batch, queue')
      BY <1>0, <2>3, <2>5, AppendBefore DEF OrderInv, Order, Asked
    <3>3. Below(queue', clicks + 2)
      <4>1. c.id < clicks + 2
        BY <1>0, <2>1
      <4> QED
        BY <1>0, <2>4, <2>5, <4>1, AppendBelow
    <3>4. clicks' + 1 = clicks + 2
      BY <1>0, <2>2
    <3> QED
      BY <2>2, <2>4, <2>5, <3>1, <3>2, <3>3, <3>4 DEF OrderInv, Order, Asked
  <2>6. CASE queue' = queue /\ pending' = <<c>>
    <3>1. clicks' + 1 = clicks + 2 /\ pending'[1] = c /\ c.id <= clicks'
      BY <1>0, <2>1, <2>2, <2>6
    <3> QED
      BY <2>2, <2>3, <2>4, <2>6, <3>1 DEF OrderInv, Order, Asked
  <2> QED
    BY <2>1, <2>5, <2>6
<1>3. CASE Decided
  <2>1. PICK c \in Command : pending = <<c>> /\ pending[1] = c
    BY <1>0, <1>3 DEF Decided
  <2>2. queue' \in {queue, Append(queue, c)} /\ pending' = << >>
        /\ UNCHANGED <<clicks, batch, work>>
    BY <1>3, <2>1 DEF Decided
  <2>3. c.id < clicks + 1 /\ Below(queue, c.id) /\ Below(batch, c.id) /\ Below(work, c.id)
    BY <1>0, <2>1 DEF OrderInv, Order, Asked, Command
  <2>4. CASE queue' = Append(queue, c)
    <3>1. Sorted(queue')
      BY <1>0, <2>3, <2>4, AppendSorted DEF OrderInv, Order
    <3>2. Before(work, queue') /\ Before(batch, queue')
      BY <1>0, <2>3, <2>4, AppendBefore DEF OrderInv, Order
    <3>3. Below(queue', clicks + 1)
      BY <1>0, <2>3, <2>4, AppendBelow DEF OrderInv, Order, Asked
    <3> QED
      BY <2>2, <3>1, <3>2, <3>3 DEF OrderInv, Order, Asked
  <2>5. CASE queue' = queue
    BY <2>2, <2>5 DEF OrderInv, Order, Asked
  <2> QED
    BY <2>2, <2>4, <2>5
<1>4. CASE Take
  <2>1. batch = << >> /\ batch' = queue /\ queue' = << >> /\ UNCHANGED <<work, pending, clicks>>
    BY <1>4 DEF Take, daemon
  <2> QED
    BY <1>0, <2>1, EmptyOrder DEF OrderInv, Order, Asked
<1>5. CASE Post
  <2>1. /\ batch # << >> /\ batch' = Tail(batch) /\ UNCHANGED <<queue, pending, clicks>>
        /\ work' \in {work, Append(work, Head(batch))}
    BY <1>5 DEF Post
  <2> DEFINE c == Head(batch)
  <2>2. /\ batch' \in Seq(Command) /\ c \in Command
        /\ Sorted(batch') /\ Before(work, batch') /\ Before(batch', queue)
        /\ (\A n : Below(batch, n) => Below(batch', n) /\ (c # UpAll => c.id < n))
        /\ (\A j \in DOMAIN batch' : c # UpAll /\ batch'[j] # UpAll => c.id < batch'[j].id)
        /\ (\A j \in DOMAIN queue : c # UpAll /\ queue[j] # UpAll => c.id < queue[j].id)
        /\ (c # UpAll => Below(work, c.id))
    BY <1>0, <2>1, TailOrder DEF OrderInv, Order
  <2> HIDE DEF c
  <2>3. Asked(batch)'
    BY <2>1, <2>2 DEF OrderInv, Order, Asked
  <2>4. CASE work' = work
    BY <2>1, <2>2, <2>3, <2>4 DEF OrderInv, Order, Asked
  <2>5. CASE work' = Append(work, c)
    <3>1. work' \in Seq(Command \cup {UpAll})
      BY <1>0, <2>2, <2>5
    <3>2. Sorted(work')
      BY <1>0, <2>2, <2>5, AppendSorted DEF OrderInv, Order
    <3>3. Before(work', batch') /\ Before(work', queue)
      <4>1. batch' \in Seq(Command \cup {UpAll})
        BY <2>2
      <4> QED
        BY <1>0, <2>2, <2>5, <4>1, AppendBefore DEF OrderInv, Order
    <3>4. Below(work', clicks + 1) /\ (pending # << >> => Below(work', pending[1].id))
      BY <1>0, <2>2, <2>5, AppendBelow DEF OrderInv, Order, Asked
    <3> QED
      BY <2>1, <2>2, <2>3, <3>1, <3>2, <3>3, <3>4 DEF OrderInv, Order, Asked
  <2> QED
    BY <2>1, <2>4, <2>5 DEF c
<1>6. CASE Executes
  <2>1. held /\ work' = Tail(work) /\ UNCHANGED <<queue, batch, pending, clicks>>
    BY <1>6 DEF Executes, worker
  <2>2. CASE work # << >>
    <3>1. /\ work' \in Seq(Command \cup {UpAll}) /\ Sorted(work')
          /\ Before(work', batch) /\ Before(work', queue)
          /\ \A n : Below(work, n) => Below(work', n)
      BY <1>0, <2>1, <2>2, TailOrder DEF OrderInv, Order
    <3> QED
      BY <2>1, <3>1 DEF OrderInv, Order, Asked
  <2>3. CASE work = << >>
    BY <2>1, <2>3, EmptyOrder DEF OrderInv, Order, Asked
  <2> QED
    BY <2>2, <2>3
<1>7. CASE DaemonDies
  <2>1. work' = << >> /\ UNCHANGED <<queue, batch, pending, clicks>>
    BY <1>7 DEF DaemonDies, worker
  <2> QED
    BY <2>1, EmptyOrder DEF OrderInv, Order, Asked
<1>8. CASE self_heal
  <2>1. UNCHANGED <<queue, batch, pending, clicks>> /\ work' \in {work, Append(work, UpAll)}
    BY <1>8 DEF self_heal, worker
  <2>2. CASE work' = Append(work, UpAll)
    <3>1. work' \in Seq(Command \cup {UpAll})
      BY <1>0, <2>2
    <3>2. Sorted(work') /\ Before(work', batch) /\ Before(work', queue)
      BY <1>0, <2>2, AppendSorted, AppendBefore DEF OrderInv, Order
    <3>3. Below(work', clicks + 1) /\ (pending # << >> => Below(work', pending[1].id))
      BY <1>0, <2>2, AppendBelow DEF OrderInv, Order, Asked
    <3> QED
      BY <2>1, <3>1, <3>2, <3>3 DEF OrderInv, Order, Asked
  <2> QED
    BY <2>1, <2>2 DEF OrderInv, Order, Asked
<1>9. CASE PostReturns \/ Poller \/ Locks \/ (\E s \in Service : Settles(s)) \/ DaemonStarts
  <2>1. UNCHANGED <<queue, batch, work, pending, clicks>>
    BY <1>9 DEF PostReturns, Poller, PollBegins, BootAnswers, BootFills, BootFails,
                HealthReturns, Locks, Settles, DaemonStarts, worker, daemon
  <2> QED
    BY <2>1 DEF OrderInv, Order, Asked
<1>10. Click \/ Decide => ClickTaken \/ Decided
  BY ClickMeans DEF OrderInv, Decide, Decided, daemon
<1> QED
  BY <1>1, <1>2, <1>3, <1>4, <1>5, <1>6, <1>7, <1>8, <1>9, <1>10
     DEF Next, User, Click, Worker, Works

(* Commands reach the daemon in the order they were asked for, each at     *)
(* most once: a stop that follows a start is never undone by it, whatever  *)
(* is cancelled, times out or is lost with a daemon (api.rs 124, main.rs   *)
(* 440).                                                                   *)
THEOREM OrderHolds == Spec => []OrderKept
<1>1. Init => OrderInv
  <2> SUFFICES ASSUME Init PROVE OrderInv
    OBVIOUS
  <2>1. queue = << >> /\ batch = << >> /\ work = << >> /\ pending = << >>
    BY DEF Init
  <2> QED
    BY <2>1, InitClick, EmptyOrder DEF OrderInv, Order, Asked
<1>2. OrderInv /\ [Next]_vars => OrderInv'
  BY StepClick, StepOrder DEF OrderInv
<1>3. OrderInv => OrderKept
  <2> SUFFICES ASSUME OrderInv PROVE OrderKept
    OBVIOUS
  <2> DEFINE S == Command \cup {UpAll}
  <2>1. queue \in Seq(S) /\ batch \in Seq(S) /\ work \in Seq(S)
    BY DEF OrderInv, ClickInv, CommandsTyped, Order
  <2>2. work \o batch \in Seq(S) /\ Sorted(work \o batch)
    BY <2>1, SortedJoin DEF OrderInv, Order
  <2>3. Before(work \o batch, queue)
    <3> DEFINE r == work \o batch
    <3>1. /\ Len(work) \in Nat /\ DOMAIN work = 1 .. Len(work) /\ DOMAIN batch = 1 .. Len(batch)
          /\ DOMAIN r = 1 .. Len(work) + Len(batch) /\ Len(batch) \in Nat
          /\ \A i \in DOMAIN r : r[i] = IF i <= Len(work) THEN work[i] ELSE batch[i - Len(work)]
      BY <2>1
    <3> HIDE DEF r
    <3>2. ASSUME NEW i \in DOMAIN r
          PROVE  \/ \E j \in DOMAIN work : r[i] = work[j]
                 \/ \E j \in DOMAIN batch : r[i] = batch[j]
      <4>1. CASE i <= Len(work)
        BY <3>1, <4>1
      <4>2. CASE i > Len(work)
        <5>1. i - Len(work) \in DOMAIN batch /\ r[i] = batch[i - Len(work)]
          BY <3>1, <4>2
        <5> QED
          BY <5>1
      <4> QED
        BY <3>1, <4>1, <4>2
    <3>3. Before(r, queue)
      BY <3>2 DEF OrderInv, Order, Before
    <3> QED
      BY <3>3 DEF r
  <2>4. Sorted(Commands)
    BY <2>1, <2>2, <2>3, SortedJoin DEF OrderInv, ClickInv, CommandsTyped, Order, Commands
  <2> QED
    BY <2>4 DEF OrderKept, Sorted
<1> QED
  BY <1>1, <1>2, <1>3, PTL DEF Spec
-----------------------------------------------------------------------------
(* Types.  A painted panel has its rows because the answer that made the   *)
(* model reachable had them all, and no click adds or removes one.         *)
Rows == [Service -> States]
Painted ==
  /\ tier \in Registries /\ actual \in Rows
  /\ shown = NoRow \/ shown \in Rows
  /\ reachable => shown \in Rows
  /\ poll.at \in {"idle", "boot", "answered", "health"}
  /\ poll.at = "answered" => poll.rows \in Rows

Counted ==
  /\ posted = << >> \/ \E c \in Command : posted = <<c>>
  /\ held => alive /\ work # << >>
  /\ clicks \in 0 .. MaxClicks /\ outages \in 0 .. MaxOutages
  /\ healed \in BOOLEAN

TypeInv == OrderInv /\ Painted /\ Counted

(* A command leaves a service in one of its states.                        *)
LEMMA OutcomeType ==
  ASSUME NEW c \in Command \cup {UpAll}, NEW st \in States
  PROVE  Outcome(c, st) \in States
<1>1. c.kind \in Kinds
  BY DEF Command, UpAll, Kinds
<1> QED
  BY <1>1 DEF Outcome, Kinds, States

(* Every step keeps what the window shows in its type.                     *)
LEMMA StepPainted ==
  ASSUME TypeInv, [Next]_vars
  PROVE  Painted'
<1> USE DEF Painted
<1>0. Painted
  BY DEF TypeInv
<1>1. CASE UNCHANGED vars
  BY <1>0, <1>1 DEF vars, model, daemon
<1>2. CASE ToggleRow
  <2>1. UNCHANGED <<tier, reachable, poll, actual>>
    BY <1>2 DEF ToggleRow, Asking, daemon
  <2>2. PICK s \in DOMAIN shown, st \in {"Stopped", "Starting"} :
          shown' = [shown EXCEPT ![s] = st]
    BY <1>2 DEF ToggleRow, set_state
  <2>3. DOMAIN NoRow = {}
    BY DEF NoRow
  <2>4. shown \in Rows
    BY <1>0, <2>2, <2>3
  <2>5. st \in States
    BY DEF States
  <2>6. shown' \in Rows
    BY <2>2, <2>4, <2>5 DEF Rows
  <2> QED
    BY <1>0, <2>1, <2>6
<1>3. CASE RowMenu \/ GroupButtons \/ Decide \/ self_heal \/ Worker
  <2>1. UNCHANGED <<tier, shown, reachable, poll, actual>>
    BY <1>3 DEF RowMenu, GroupButtons, Decide, self_heal, Asking, Worker, Take, Post,
                PostReturns, daemon, model
  <2> QED
    BY <1>0, <2>1
<1>4. CASE PollBegins \/ BootFails
  <2>1. UNCHANGED <<tier, shown, reachable, actual>>
    BY <1>4 DEF PollBegins, BootFails, daemon, model
  <2>2. poll'.at \in {"boot", "health"}
    BY <1>4 DEF PollBegins, BootFails, Idle
  <2> QED
    BY <1>0, <2>1, <2>2
<1>5. CASE BootAnswers
  <2>1. UNCHANGED <<tier, shown, reachable, actual>> /\ poll' = [at |-> "answered", rows |-> actual]
    BY <1>5 DEF BootAnswers, daemon, model
  <2> QED
    BY <1>0, <2>1
<1>6. CASE BootFills
  <2>1. UNCHANGED <<tier, actual>> /\ poll' = Idle /\ shown' = poll.rows /\ poll.at = "answered"
    BY <1>6 DEF BootFills, daemon
  <2> QED
    BY <1>0, <2>1 DEF Idle
<1>7. CASE HealthReturns
  <2>1. UNCHANGED <<tier, shown, actual>> /\ poll' = Idle /\ (reachable' => reachable)
    BY <1>7 DEF HealthReturns, daemon
  <2> QED
    BY <1>0, <2>1 DEF Idle
<1>8. CASE Executes
  <2>1. UNCHANGED <<tier, shown, reachable, poll>> /\ held
    BY <1>8 DEF Executes, model
  <2>2. work[1] \in Command \cup {UpAll}
    BY <2>1 DEF TypeInv, Counted, OrderInv, Order
  <2>3. \A s \in Service : actual[s] \in States /\ Outcome(work[1], actual[s]) \in States
    BY <1>0, <2>2, OutcomeType DEF Rows
  <2>4. actual' = [s \in Service |->
          IF s \in Targets(work[1]) THEN Outcome(work[1], actual[s]) ELSE actual[s]]
    BY <1>8 DEF Executes
  <2>5. actual' \in Rows
    BY <2>3, <2>4 DEF Rows
  <2> QED
    BY <1>0, <2>1, <2>5
<1>9. ASSUME NEW s \in Service, Settles(s) PROVE Painted'
  <2>1. UNCHANGED <<tier, shown, reachable, poll>>
    BY <1>9 DEF Settles, model
  <2>2. \E st \in {"Healthy", "Stopped"} : actual' = [actual EXCEPT ![s] = st]
    BY <1>9 DEF Settles
  <2>3. actual' \in Rows
    BY <1>0, <2>2 DEF Rows, States
  <2> QED
    BY <1>0, <2>1, <2>3
<1>10. CASE Locks \/ DaemonDies \/ DaemonStarts
  <2>1. UNCHANGED <<tier, shown, reachable, poll, actual>>
    BY <1>10 DEF Locks, DaemonDies, DaemonStarts, model
  <2> QED
    BY <1>0, <2>1
<1> QED
  BY <1>1, <1>2, <1>3, <1>4, <1>5, <1>6, <1>7, <1>8, <1>9, <1>10
     DEF Next, User, Worker, Poller, Works

(* Every step keeps the counters within their bounds.                      *)
LEMMA StepCounted ==
  ASSUME TypeInv, [Next]_vars
  PROVE  Counted'
<1> USE DEF Counted
<1>0. Counted /\ MaxClicks \in Nat /\ MaxOutages \in Nat
      /\ batch \in Seq(Command) /\ work \in Seq(Command \cup {UpAll})
  BY TrayAssumption DEF TypeInv, OrderInv, Order
<1>1. CASE UNCHANGED vars
  BY <1>0, <1>1 DEF vars, worker, daemon
<1>2. CASE Click
  <2>1. clicks < MaxClicks /\ clicks' = clicks + 1
        /\ UNCHANGED <<posted, held, alive, work, outages, healed>>
    BY <1>2 DEF Click, ToggleRow, RowMenu, GroupButtons, Asking, daemon
  <2> QED
    BY <1>0, <2>1
<1>3. CASE Decide \/ Take \/ Poller
  <2>1. UNCHANGED <<clicks, posted, held, alive, work, outages, healed>>
    BY <1>3 DEF Decide, Take, Poller, PollBegins, BootAnswers, BootFills, BootFails,
                HealthReturns, worker, daemon
  <2> QED
    BY <1>0, <2>1
<1>4. CASE Post
  <2>1. posted' = <<Head(batch)>> /\ Head(batch) \in Command
    BY <1>0, <1>4 DEF Post
  <2>2. work' \in {work, Append(work, Head(batch))}
        /\ UNCHANGED <<clicks, held, alive, outages, healed>>
    BY <1>4 DEF Post
  <2>3. work # << >> => work' # << >>
    <3>1. Append(work, Head(batch)) # << >>
      BY <1>0, <2>1
    <3> QED
      BY <2>2, <3>1
  <2> QED
    BY <1>0, <2>1, <2>2, <2>3
<1>5. CASE PostReturns
  <2>1. posted' = << >> /\ UNCHANGED <<clicks, held, alive, work, outages, healed>>
    BY <1>5 DEF PostReturns, daemon
  <2> QED
    BY <1>0, <2>1
<1>6. CASE Works
  <2>1. UNCHANGED <<clicks, posted, alive, outages, healed>>
    BY <1>6 DEF Works, Locks, Executes, Settles, worker
  <2>2. held' => alive /\ work' # << >>
    BY <1>0, <1>6 DEF Works, Locks, Executes, Settles
  <2> QED
    BY <1>0, <2>1, <2>2
<1>7. CASE DaemonDies
  <2>1. outages < MaxOutages /\ outages' = outages + 1 /\ held' = FALSE
        /\ UNCHANGED <<clicks, posted, healed>>
    BY <1>7 DEF DaemonDies, worker
  <2> QED
    BY <1>0, <2>1
<1>8. CASE DaemonStarts
  <2>1. alive' /\ UNCHANGED <<clicks, posted, held, work, outages, healed>>
    BY <1>8 DEF DaemonStarts, worker
  <2> QED
    BY <1>0, <2>1
<1>9. CASE self_heal
  <2>1. healed' = TRUE /\ UNCHANGED <<clicks, posted, held, alive, outages>>
        /\ work' \in {work, Append(work, UpAll)}
    BY <1>9 DEF self_heal, worker
  <2>2. Append(work, UpAll) # << >>
    BY <1>0
  <2> QED
    BY <1>0, <2>1, <2>2
<1> QED
  BY <1>1, <1>2, <1>3, <1>4, <1>5, <1>6, <1>7, <1>8, <1>9
     DEF Next, User, Click, Worker

(* The variables keep to their values, no panel is painted before there    *)
(* are rows for it, and the daemon holds its lock for a command that is    *)
(* there.                                                                  *)
THEOREM TypeCorrect == Spec => []TypeOK
<1>1. Init => TypeInv
  <2> SUFFICES ASSUME Init PROVE TypeInv
    OBVIOUS
  <2>1. OrderInv
    <3>1. queue = << >> /\ batch = << >> /\ work = << >> /\ pending = << >>
      BY DEF Init
    <3> QED
      BY <3>1, InitClick, EmptyOrder DEF OrderInv, Order, Asked
  <2>2. Painted
    <3>1. {"Healthy", "Stopped"} \subseteq States
      BY DEF States
    <3> QED
      BY <3>1 DEF Init, Painted, Rows, Idle
  <2>3. Counted
    <3>1. clicks = 0 /\ outages = 0 /\ healed \in BOOLEAN /\ ~held /\ posted = << >>
      BY DEF Init
    <3>2. clicks \in 0 .. MaxClicks /\ outages \in 0 .. MaxOutages
      BY <3>1, TrayAssumption
    <3> QED
      BY <3>1, <3>2 DEF Counted
  <2> QED
    BY <2>1, <2>2, <2>3 DEF TypeInv
<1>2. TypeInv /\ [Next]_vars => TypeInv'
  BY StepClick, StepOrder, StepPainted, StepCounted DEF TypeInv, OrderInv
<1>3. TypeInv => TypeOK
  <2> SUFFICES ASSUME TypeInv PROVE TypeOK
    OBVIOUS
  <2>1. shown \in [DOMAIN shown -> States] /\ DOMAIN shown \in {{}, Service}
        /\ (reachable => DOMAIN shown = Service)
    <3>1. CASE shown = NoRow
      <4>1. DOMAIN shown = {} /\ shown \in [{} -> States]
        BY <3>1 DEF NoRow
      <4> QED
        BY <4>1 DEF TypeInv, Painted, Rows
    <3>2. CASE shown \in Rows
      BY <3>2 DEF Rows
    <3> QED
      BY <3>1, <3>2 DEF TypeInv, Painted
  <2>2. Len(pending) <= 1 /\ Len(posted) <= 1
    <3>1. ASSUME NEW s, s = << >> \/ \E c : s = <<c>>
          PROVE  Len(s) <= 1
      <4>1. CASE s = << >>
        BY <4>1
      <4>2. ASSUME NEW c, s = <<c>> PROVE Len(s) <= 1
        BY <4>2
      <4> QED
        BY <3>1, <4>1, <4>2
    <3>2. pending = << >> \/ \E c : pending = <<c>>
      BY DEF TypeInv, OrderInv, ClickInv, CommandsTyped
    <3>3. posted = << >> \/ \E c : posted = <<c>>
      BY DEF TypeInv, Counted
    <3> QED
      BY <3>1, <3>2, <3>3
  <2> QED
    BY <2>1, <2>2 DEF TypeInv, Painted, Counted, Rows, TypeOK
<1> QED
  BY <1>1, <1>2, <1>3, PTL DEF Spec
=============================================================================
