---------------------------- MODULE DaemonProofs ----------------------------
(***************************************************************************)
(* The core mutex and the worker threads of the daemon, for any number of  *)
(* connections, workers and commands at once, whatever panics, hangs, is   *)
(* refused or is cut off by a signal or a kill.                            *)
(*                                                                         *)
(* The queue of the mutex and the states of the tasks are two accounts of  *)
(* the same thing.  Queued says that they agree, which is what makes a     *)
(* holder one task only; Taken says that every worker a command has taken  *)
(* is still charged to the holder that is at work.                         *)
(***************************************************************************)
EXTENDS DaemonContract, TLAPS

(* A task that waits for the mutex or has it, and one that is in its queue. *)
AtLock(a) == State(a) \in {"reading", "waiting", "working"}
InQueue(q, a) == \E i \in DOMAIN q : q[i] = a

Connection ==
  [at : {"idle", "sent", "waiting", "working", "answered", "lost"},
   request : Request \cup {NoRequest}, part : {"whole", "head", "torn"},
   scope : {"none", "one", "all"}, reply : {"none", "ok", "error"}]

Typed ==
  /\ phase \in {"running", "stopping", "ending", "down"}
  /\ tick \in {"loop", "reading", "asleep", "waiting", "working", "ended"}
  /\ boot \in {"spawned", "waiting", "working", "ended"}
  /\ conn \in [Conns -> Connection]
  /\ listening \in BOOLEAN /\ stop_tx \in BOOLEAN

(* Whoever waits for the mutex or has it is in its queue, once, and only   *)
(* the first in it works.                                                  *)
Queued ==
  /\ queue \in Seq(Tasks) /\ IsInjective(queue)
  /\ \A a \in Tasks : InQueue(queue, a) <=> AtLock(a)
  /\ \A a \in Tasks : State(a) = "working" => Holds(a)

(* A worker that is taken is taken by a command of the task at work, but   *)
(* for a daemon that ends, whose commands outlive their task.              *)
Taken ==
  /\ started \in 0 .. MaxConcurrentStart
  /\ blocked \in 0 .. MaxConcurrentStart
  /\ hung \in 0 .. blocked
  /\ lost \in BOOLEAN /\ (lost => blocked > 0)
  /\ phase # "ending" => blocked <= started
  /\ (blocked > 0 /\ phase # "ending" => queue # <<>> /\ State(Head(queue)) = "working")
  /\ phase \in {"ending", "down"} => queue = <<>>
  /\ phase = "down" => blocked = 0

IInv == Typed /\ Queued /\ Taken
-----------------------------------------------------------------------------
(* The queue of the mutex. *)

(* Who joins goes to its end, and is in it once.                           *)
LEMMA Joined ==
  ASSUME NEW q \in Seq(Tasks), IsInjective(q), NEW a \in Tasks, ~InQueue(q, a)
  PROVE  /\ Append(q, a) \in Seq(Tasks) /\ IsInjective(Append(q, a))
         /\ (\A b : InQueue(Append(q, a), b) <=> InQueue(q, b) \/ b = a)
         /\ Append(q, a) # <<>>
         /\ (q # <<>> => Head(Append(q, a)) = Head(q))
<1> DEFINE r == Append(q, a)
<1>1. /\ r \in Seq(Tasks) /\ Len(r) = Len(q) + 1 /\ Len(q) \in Nat
      /\ DOMAIN q = 1 .. Len(q) /\ DOMAIN r = 1 .. Len(q) + 1
      /\ (\A i \in 1 .. Len(q) : r[i] = q[i])
      /\ r[Len(q) + 1] = a
  OBVIOUS
<1>2. r # <<>> /\ Head(r) = r[1]
  OBVIOUS
<1> HIDE DEF r
<1>3. q # <<>> => Head(r) = Head(q)
  <2> SUFFICES ASSUME q # <<>> PROVE Head(r) = Head(q)
    OBVIOUS
  <2>1. Len(q) >= 1 /\ Head(q) = q[1]
    OBVIOUS
  <2> QED
    BY <1>1, <1>2, <2>1
<1>4. IsInjective(r)
  BY <1>1 DEF IsInjective, InQueue
<1>5. ASSUME NEW b PROVE InQueue(r, b) <=> InQueue(q, b) \/ b = a
  BY <1>1 DEF InQueue
<1> QED
  BY <1>1, <1>2, <1>3, <1>4, <1>5 DEF r

(* Who leaves is the first in it, and the others stay.                     *)
LEMMA Left ==
  ASSUME NEW q \in Seq(Tasks), IsInjective(q), q # <<>>
  PROVE  /\ Tail(q) \in Seq(Tasks) /\ IsInjective(Tail(q))
         /\ \A b : InQueue(Tail(q), b) <=> InQueue(q, b) /\ b # Head(q)
<1> DEFINE r == Tail(q)
<1>1. /\ r \in Seq(Tasks) /\ Len(q) \in Nat \ {0} /\ Len(r) = Len(q) - 1
      /\ DOMAIN q = 1 .. Len(q) /\ DOMAIN r = 1 .. Len(q) - 1
      /\ Head(q) = q[1]
      /\ (\A i \in 1 .. Len(q) - 1 : r[i] = q[i + 1])
  OBVIOUS
<1> HIDE DEF r
<1>2. IsInjective(r)
  <2> SUFFICES ASSUME NEW i \in DOMAIN r, NEW j \in DOMAIN r, r[i] = r[j]
               PROVE  i = j
    BY DEF IsInjective
  <2>1. i + 1 \in DOMAIN q /\ j + 1 \in DOMAIN q /\ q[i + 1] = q[j + 1]
    BY <1>1
  <2>2. i + 1 = j + 1
    BY <2>1 DEF IsInjective
  <2> QED
    BY <1>1, <2>2
<1>3. ASSUME NEW b, InQueue(r, b)
      PROVE  InQueue(q, b) /\ b # Head(q)
  <2>1. PICK i \in DOMAIN r : r[i] = b
    BY <1>3 DEF InQueue
  <2>2. i + 1 \in DOMAIN q /\ q[i + 1] = b /\ 1 \in DOMAIN q /\ i + 1 # 1
    BY <1>1, <2>1
  <2> QED
    BY <1>1, <2>2 DEF InQueue, IsInjective
<1>4. ASSUME NEW b, InQueue(q, b), b # Head(q)
      PROVE  InQueue(r, b)
  <2>1. PICK i \in DOMAIN q : q[i] = b
    BY <1>4 DEF InQueue
  <2>2. i - 1 \in DOMAIN r /\ r[i - 1] = b
    BY <1>1, <1>4, <2>1
  <2> QED
    BY <2>2 DEF InQueue
<1> QED
  BY <1>1, <1>2, <1>3, <1>4 DEF r

(* A task works exactly when it is first and says so.                      *)
LEMMA WorkingIs ==
  ASSUME NEW a \in Tasks
  PROVE  Working(a) <=> Holds(a) /\ State(a) = "working"
BY DaemonAssumption DEF Working, State, Tasks
-----------------------------------------------------------------------------
(* What a step does to the queue: somebody joins it, its first leaves it,  *)
(* or it stays and only its first may begin to work, or all is dropped.    *)
Others(a) == \A b \in Tasks : b # a => State(b)' = State(b)
Joins(a) == /\ queue' = Append(queue, a) /\ ~AtLock(a)
            /\ State(a)' \in {"reading", "waiting"} /\ Others(a)
Leaves(a) == Holds(a) /\ queue' = Tail(queue) /\ ~AtLock(a)' /\ Others(a)
Stays == /\ queue' = queue
         /\ \A b \in Tasks : /\ AtLock(b)' <=> AtLock(b)
                             /\ State(b)' = "working" => State(b) = "working" \/ Holds(b)
Clears == queue' = <<>> /\ \A b \in Tasks : ~AtLock(b)'

(* A step in which one task joins or leaves, nobody does, or all are       *)
(* dropped keeps the account of the queue.                                 *)
LEMMA QueueStep ==
  ASSUME Queued, (\E a \in Tasks : Joins(a) \/ Leaves(a)) \/ Stays \/ Clears
  PROVE  Queued'
<1>1. /\ queue \in Seq(Tasks) /\ IsInjective(queue)
      /\ (\A a \in Tasks : InQueue(queue, a) <=> AtLock(a))
      /\ (\A a \in Tasks : State(a) = "working" => Holds(a))
  BY DEF Queued
<1>2. ASSUME NEW a \in Tasks, Joins(a) PROVE Queued'
  <2>1. /\ queue' \in Seq(Tasks) /\ IsInjective(queue')
        /\ (\A b : InQueue(queue', b) <=> InQueue(queue, b) \/ b = a)
        /\ queue' # <<>>
        /\ (queue # <<>> => Head(queue') = Head(queue))
    BY <1>1, <1>2, Joined DEF Joins
  <2>2. \A b \in Tasks : InQueue(queue', b) <=> AtLock(b)'
    BY <1>1, <1>2, <2>1 DEF Joins, Others, AtLock
  <2>3. \A b \in Tasks : State(b)' = "working" => Holds(b)'
    BY <1>1, <1>2, <2>1 DEF Joins, Others, Holds
  <2> QED
    BY <2>1, <2>2, <2>3 DEF Queued
<1>3. ASSUME NEW a \in Tasks, Leaves(a) PROVE Queued'
  <2>1. queue # <<>> /\ Head(queue) = a
    BY <1>3 DEF Leaves, Holds
  <2>2. /\ queue' \in Seq(Tasks) /\ IsInjective(queue')
        /\ (\A b : InQueue(queue', b) <=> InQueue(queue, b) /\ b # a)
    BY <1>1, <1>3, <2>1, Left DEF Leaves
  <2>3. \A b \in Tasks : InQueue(queue', b) <=> AtLock(b)'
    BY <1>1, <1>3, <2>2 DEF Leaves, Others, AtLock
  <2>4. \A b \in Tasks : State(b)' # "working"
    BY <1>1, <1>3, <2>1 DEF Leaves, Others, AtLock, Holds
  <2> QED
    BY <2>2, <2>3, <2>4 DEF Queued
<1>4. CASE Stays
  <2>1. \A b \in Tasks : State(b)' = "working" => Holds(b)'
    BY <1>1, <1>4 DEF Stays, Holds
  <2>2. \A b \in Tasks : InQueue(queue', b) <=> AtLock(b)'
    BY <1>1, <1>4 DEF Stays
  <2> QED
    BY <1>1, <1>4, <2>1, <2>2 DEF Stays, Queued
<1>5. CASE Clears
  <2>1. queue' \in Seq(Tasks) /\ IsInjective(queue') /\ (\A b : ~InQueue(queue', b))
    BY <1>5 DEF Clears, IsInjective, InQueue
  <2>2. \A b \in Tasks : State(b)' # "working"
    BY <1>5 DEF Clears, AtLock
  <2> QED
    BY <1>5, <2>1, <2>2 DEF Clears, Queued
<1> QED
  BY <1>2, <1>3, <1>4, <1>5
-----------------------------------------------------------------------------
(* Which task a step is about.                                             *)
LEMMA ConnMoves ==
  ASSUME Typed, NEW c \in Conns, NEW x, conn' = [conn EXCEPT ![c] = x], UNCHANGED <<tick, boot>>
  PROVE  State(c) = conn[c].at /\ State(c)' = x.at /\ Others(c) /\ c \in Tasks
BY DaemonAssumption DEF Typed, State, Others, Tasks

(* A request begins and ends with a fresh state of its connection.         *)
LEMMA SentAt ==
  ASSUME NEW r, NEW part
  PROVE  [Idle EXCEPT !.at = "sent", !.request = r, !.part = part].at = "sent"
BY DEF Idle

(* An answered connection is at its answer.                                *)
LEMMA AnsweredAt ==
  ASSUME NEW c, NEW reply
  PROVE  \E x : Answered(c, reply) = [conn EXCEPT ![c] = x] /\ x.at = "answered"
<1> DEFINE x == [Idle EXCEPT !.at = "answered", !.request = conn[c].request, !.reply = reply]
<1>1. x.at = "answered"
  BY DEF Idle
<1>2. Answered(c, reply) = [conn EXCEPT ![c] = x]
  BY DEF Answered
<1> HIDE DEF x
<1> QED
  BY <1>1, <1>2

(* A lost connection is not at the mutex.                                  *)
LEMMA LostAt == [Idle EXCEPT !.at = "lost"].at = "lost"
BY DEF Idle

(* A step of the tick alone moves no other task.                           *)
LEMMA TickMoves ==
  ASSUME UNCHANGED <<boot, conn>>
  PROVE  /\ State("tick") = tick /\ State("tick")' = tick' /\ Others("tick")
         /\ "tick" \in Tasks
BY DEF State, Others, Tasks

(* A step of the boot task alone moves no other task.                      *)
LEMMA BootMoves ==
  ASSUME UNCHANGED <<tick, conn>>
  PROVE  /\ State("boot") = boot /\ State("boot")' = boot' /\ Others("boot")
         /\ "boot" \in Tasks
BY DEF State, Others, Tasks

(* A task that moves without touching the queue leaves the queue's account *)
(* as it was.                                                              *)
LEMMA OneStays ==
  ASSUME NEW a \in Tasks, queue' = queue, Others(a), AtLock(a)' <=> AtLock(a),
         State(a)' = "working" => State(a) = "working" \/ Holds(a)
  PROVE  Stays
BY DEF Stays, Others, AtLock
-----------------------------------------------------------------------------
(* What every step does to the mutex and to the workers that are taken.    *)
Up == phase \in {"running", "stopping"}
Join == /\ \E a \in Tasks : Joins(a)
        /\ Up /\ UNCHANGED <<phase, started, blocked, hung, lost>>
Leave == /\ \E a \in Tasks : Leaves(a)
         /\ started' = 0 /\ blocked = 0 /\ UNCHANGED <<phase, blocked, hung, lost>>
Stay == /\ Stays /\ (\A b \in Tasks : State(b) = "working" => State(b)' = "working")
        /\ UNCHANGED <<started, blocked, hung, lost>>
        /\ phase' = phase \/ (Up /\ phase' = "stopping")

(* Only a task that holds the mutex and is at work has a worker to lose,   *)
(* so whoever gives it back without one has none.                          *)
LEMMA NoneTaken ==
  ASSUME IInv, Up, NEW a \in Tasks, Holds(a), State(a) # "working"
  PROVE  blocked = 0
<1>1. blocked \in Nat
  BY DaemonAssumption DEF IInv, Taken
<1> QED
  BY <1>1 DEF IInv, Taken, Holds, Up

(* A connection's step joins the queue, leaves it, or does neither.        *)
LEMMA TaskMoves ==
  ASSUME IInv, NEW c \in Conns, Task(c) \/ Client(c)
  PROVE  Join \/ Leave \/ Stay
<1>0. Typed /\ c \in Tasks /\ (\A b \in Tasks : State(b) = "working" => Holds(b))
  BY DEF IInv, Queued, Tasks
<1>1. CASE Send(c)
  <2>1. PICK x : conn' = [conn EXCEPT ![c] = x] /\ x.at = "sent"
    <3>1. PICK r, part : conn' = [conn EXCEPT ![c] = [Idle EXCEPT !.at = "sent", !.request = r,
                                                                  !.part = part]]
      BY <1>1 DEF Send
    <3> QED
      BY <3>1, SentAt
  <2>2. UNCHANGED <<tick, boot, queue, started, blocked, hung, lost, phase>> /\ conn[c].at = "idle"
    BY <1>1 DEF Send, core, commands, process
  <2>3. State(c) = "idle" /\ State(c)' = "sent" /\ Others(c)
    BY <1>0, <2>1, <2>2, ConnMoves
  <2>4. Stays
    BY <1>0, <2>2, <2>3, OneStays DEF AtLock
  <2> QED
    BY <2>2, <2>3, <2>4 DEF Stay, Others
<1>2. CASE Arrive(c)
  <2>1. PICK x : conn' = [conn EXCEPT ![c] = x] /\ x.at = "sent"
    <3>1. conn[c] \in Connection
      BY <1>0 DEF Typed
    <3>2. [conn[c] EXCEPT !.part = "whole"].at = "sent"
      BY <1>2, <3>1 DEF Arrive, Connection
    <3> QED
      BY <1>2, <3>2 DEF Arrive
  <2>2. UNCHANGED <<tick, boot, queue, started, blocked, hung, lost, phase>> /\ conn[c].at = "sent"
    BY <1>2 DEF Arrive, core, commands, process
  <2>3. State(c) = "sent" /\ State(c)' = "sent" /\ Others(c)
    BY <1>0, <2>1, <2>2, ConnMoves
  <2>4. Stays
    BY <1>0, <2>2, <2>3, OneStays DEF AtLock
  <2> QED
    BY <2>2, <2>3, <2>4 DEF Stay, Others
<1>3. CASE Deliver(c)
  <2>1. conn' = [conn EXCEPT ![c] = Idle] /\ Idle.at = "idle"
    BY <1>3 DEF Deliver, Idle
  <2>2. UNCHANGED <<tick, boot, queue, started, blocked, hung, lost, phase>>
        /\ conn[c].at \in {"answered", "lost"}
    BY <1>3 DEF Deliver, core, commands, process
  <2>3. State(c) \in {"answered", "lost"} /\ State(c)' = "idle" /\ Others(c)
    BY <1>0, <2>1, <2>2, ConnMoves
  <2>4. Stays
    BY <1>0, <2>2, <2>3, OneStays DEF AtLock
  <2> QED
    BY <2>2, <2>3, <2>4 DEF Stay, Others
<1>4. CASE Receive(c)
  <2>1. UNCHANGED <<tick, boot, blocked, hung, lost>> /\ conn[c].at = "sent" /\ Up
    BY <1>4 DEF Receive, commands, Polled, Scheduled, Up
  <2>2. CASE Enqueue(c) /\ conn' = [conn EXCEPT ![c].at = "waiting"] /\ UNCHANGED phase
    <3>1. [conn[c] EXCEPT !.at = "waiting"].at = "waiting"
      BY <1>0 DEF Typed, Connection
    <3>2. State(c) = "sent" /\ State(c)' = "waiting" /\ Others(c)
      BY <1>0, <2>1, <2>2, <3>1, ConnMoves
    <3>3. Joins(c)
      BY <2>2, <3>2 DEF Joins, AtLock, Enqueue, Enqueued
    <3> QED
      BY <1>0, <2>1, <2>2, <3>3 DEF Join, Enqueue
  <2>3. CASE (\E r : conn' = Answered(c, r)) /\ UNCHANGED core
             /\ (phase' = phase \/ phase' = "stopping")
    <3>1. PICK x : conn' = [conn EXCEPT ![c] = x] /\ x.at = "answered"
      BY <2>3, AnsweredAt
    <3>2. State(c) = "sent" /\ State(c)' = "answered" /\ Others(c)
      BY <1>0, <2>1, <3>1, ConnMoves
    <3>3. Stays
      BY <1>0, <2>3, <3>2, OneStays DEF AtLock, core
    <3> QED
      BY <2>1, <2>3, <3>2, <3>3 DEF Stay, Others, core
  <2> QED
    BY <1>4, <2>2, <2>3 DEF Receive, Shutdown
<1>5. CASE Operate(c)
  <2>1. UNCHANGED <<tick, boot, phase, queue, started, blocked, hung, lost>>
        /\ conn[c].at = "waiting" /\ Holds(c)
    BY <1>5 DEF Operate, core, commands, process
  <2>2. PICK x : conn' = [conn EXCEPT ![c] = x] /\ x.at = "working"
    <3>1. [conn[c] EXCEPT !.at = "working", !.scope = Scope(c)].at = "working"
      BY <1>0 DEF Typed, Connection
    <3> QED
      BY <1>5, <3>1 DEF Operate
  <2>3. State(c) = "waiting" /\ State(c)' = "working" /\ Others(c)
    BY <1>0, <2>1, <2>2, ConnMoves
  <2>4. Stays
    BY <1>0, <2>1, <2>3, OneStays DEF AtLock
  <2> QED
    BY <2>1, <2>3, <2>4 DEF Stay, Others
<1>6. CASE Complete(c) \/ PanicInConn(c)
  <2>1. UNCHANGED <<tick, boot, phase, blocked, hung, lost>> /\ Working(c) /\ blocked = 0 /\ Unlock
    BY <1>6 DEF Complete, PanicInConn, commands, process
  <2>2. PICK x : conn' = [conn EXCEPT ![c] = x] /\ x.at \in {"answered", "lost"}
    <3>1. CASE Complete(c)
      BY <3>1, AnsweredAt DEF Complete
    <3>2. CASE PanicInConn(c)
      BY <3>2, LostAt DEF PanicInConn
    <3> QED
      BY <1>6, <3>1, <3>2
  <2>3. State(c)' \in {"answered", "lost"} /\ Others(c)
    BY <1>0, <2>1, <2>2, ConnMoves
  <2>4. Holds(c)
    BY <2>1 DEF Working
  <2> QED
    BY <1>0, <2>1, <2>3, <2>4 DEF Unlock, Leaves, Leave, AtLock
<1> QED
  BY <1>1, <1>2, <1>3, <1>4, <1>5, <1>6 DEF Task, Client

(* So does a step of the tick loop or of the boot task.                    *)
LEMMA LoopMoves ==
  ASSUME IInv, Loop \/ BootSet \/ BootSetEnds
  PROVE  Join \/ Leave \/ Stay
<1>0. \A b \in Tasks : State(b) = "working" => Holds(b)
  BY DEF IInv, Queued
<1>1. CASE TickReads
  <2>1. UNCHANGED <<boot, conn, blocked, hung, lost, phase>> /\ Up
    BY <1>1 DEF TickReads, commands, process, Scheduled, Up
  <2>2. /\ State("tick") = tick /\ State("tick")' = tick' /\ Others("tick")
        /\ "tick" \in Tasks
    BY <2>1, TickMoves
  <2>3. CASE tick = "loop" /\ tick' = "reading" /\ Enqueue("tick")
    BY <2>1, <2>2, <2>3 DEF Joins, Join, AtLock, Enqueue, Enqueued
  <2>4. CASE tick = "reading" /\ Holds("tick") /\ tick' = "asleep" /\ Unlock
    <3>1. blocked = 0
      BY <2>1, <2>2, <2>4, NoneTaken
    <3> QED
      BY <2>1, <2>2, <2>4, <3>1 DEF Leaves, Leave, AtLock, Unlock
  <2> QED
    BY <1>1, <2>3, <2>4 DEF TickReads
<1>2. CASE TickSpawns
  <2>1. UNCHANGED <<boot, conn, blocked, hung, lost, phase>> /\ Up
        /\ tick = "asleep" /\ tick' = "waiting" /\ Enqueue("tick")
    BY <1>2 DEF TickSpawns, commands, process, Polled, Scheduled, Up
  <2> QED
    BY <2>1, TickMoves DEF Joins, Join, AtLock, Enqueue, Enqueued
<1>3. CASE Round
  <2>1. UNCHANGED <<boot, conn, queue, started, blocked, hung, lost, phase>>
        /\ tick = "waiting" /\ tick' = "working" /\ Holds("tick")
    BY <1>3 DEF Round, core, commands, process
  <2>2. /\ State("tick") = tick /\ State("tick")' = tick' /\ Others("tick")
        /\ "tick" \in Tasks
    BY <2>1, TickMoves
  <2>3. Stays
    BY <2>1, <2>2, OneStays DEF AtLock
  <2> QED
    BY <2>1, <2>2, <2>3 DEF Stay, Others
<1>4. CASE RoundEnds \/ PanicInRound
  <2>1. UNCHANGED <<boot, conn, blocked, hung, lost, phase>>
        /\ Working("tick") /\ blocked = 0 /\ tick' = "loop" /\ Unlock
    BY <1>4 DEF RoundEnds, PanicInRound, commands, process
  <2> QED
    BY <2>1, TickMoves DEF Leaves, Leave, AtLock, Unlock, Working
<1>5. CASE BootSet
  <2>1. UNCHANGED <<tick, conn, blocked, hung, lost, phase>> /\ Up
    BY <1>5 DEF BootSet, commands, process, Scheduled, Up
  <2>2. /\ State("boot") = boot /\ State("boot")' = boot' /\ Others("boot")
        /\ "boot" \in Tasks
    BY <2>1, BootMoves
  <2>3. CASE boot = "spawned" /\ boot' = "waiting" /\ Enqueue("boot")
    BY <2>1, <2>2, <2>3 DEF Joins, Join, AtLock, Enqueue, Enqueued
  <2>4. CASE boot = "waiting" /\ Holds("boot") /\ boot' = "working" /\ UNCHANGED core
    <3>1. Stays
      BY <2>2, <2>4, OneStays DEF AtLock, core
    <3> QED
      BY <2>1, <2>2, <2>4, <3>1 DEF Stay, Others, core
  <2> QED
    BY <1>5, <2>3, <2>4 DEF BootSet
<1>6. CASE BootSetEnds
  <2>1. UNCHANGED <<tick, conn, blocked, hung, lost, phase>>
        /\ Working("boot") /\ blocked = 0 /\ boot' = "ended" /\ Unlock
    BY <1>6 DEF BootSetEnds, commands, process
  <2> QED
    BY <2>1, BootMoves DEF Leaves, Leave, AtLock, Unlock, Working
<1> QED
  BY <1>1, <1>2, <1>3, <1>4, <1>5, <1>6 DEF Loop
-----------------------------------------------------------------------------
(* A process that ends drops every task where it stands.                   *)
LEMMA DropsAll ==
  ASSUME Typed, Dropped
  PROVE  Clears
<1>1. tick' = "ended" /\ boot' = "ended" /\ queue' = <<>>
  BY DEF Dropped
<1>2. ASSUME NEW c \in Conns PROVE conn'[c].at \in {"idle", "lost"}
  <2>1. Idle.at = "idle" /\ [Idle EXCEPT !.at = "lost"].at = "lost"
    BY DEF Idle
  <2>2. conn'[c] = Idle \/ conn'[c] = Finished[c]
    BY DEF Dropped
  <2>3. Finished[c] \in {Idle, [Idle EXCEPT !.at = "lost"]}
    BY DEF Finished
  <2> QED
    BY <2>1, <2>2, <2>3
<1>3. ASSUME NEW b \in Tasks PROVE ~AtLock(b)'
  <2>1. CASE b \in {"tick", "boot"}
    BY <1>1, <2>1 DEF AtLock, State
  <2>2. CASE b \in Conns
    BY <1>1, <1>2, <2>2 DEF AtLock, State
  <2> QED
    BY <2>1, <2>2 DEF Tasks
<1> QED
  BY <1>1, <1>3 DEF Clears

(* Refused connections and a daemon that starts touch no task at the lock. *)
LEMMA ProcessMoves ==
  ASSUME IInv, Process
  PROVE  \/ Stay
         \/ (MainReturns \/ Killed) /\ Clears
         \/ (Exit \/ Start) /\ Stays
<1>0. Typed /\ Queued /\ Taken
  BY DEF IInv
<1>1. CASE AcceptFails
  <2>1. UNCHANGED <<phase, queue, started, blocked, hung, lost, tick, boot>>
    BY <1>1 DEF AcceptFails, core, commands
  <2>2. ASSUME NEW b \in Tasks
        PROVE  State(b)' = State(b) \/ (State(b) = "sent" /\ State(b)' = "lost")
    <3>1. CASE b \in {"tick", "boot"}
      BY <2>1, <3>1 DEF State
    <3>2. CASE b \in Conns
      <4>1. PICK refused \in SUBSET {c \in Uds : conn[c].at = "sent"} :
              conn' = [c \in Conns |->
                         IF c \in refused THEN [Idle EXCEPT !.at = "lost"] ELSE conn[c]]
        BY <1>1 DEF AcceptFails
      <4>2. IF b \in refused THEN conn[b].at = "sent" /\ conn'[b].at = "lost"
                             ELSE conn'[b] = conn[b]
        BY <3>2, <4>1, LostAt
      <4> QED
        BY <2>1, <4>2 DEF State
    <3> QED
      BY <3>1, <3>2 DEF Tasks
  <2>3. Stays
    BY <2>1, <2>2 DEF Stays, AtLock
  <2> QED
    BY <2>1, <2>2, <2>3 DEF Stay
<1>2. CASE Signal
  <2>1. UNCHANGED <<queue, started, blocked, hung, lost, tick, boot, conn>> /\ Up /\ phase' = "stopping"
    BY <1>2 DEF Signal, core, commands, Up
  <2>2. \A b : State(b)' = State(b)
    BY <2>1 DEF State
  <2> QED
    BY <2>1, <2>2 DEF Stays, Stay, AtLock
<1>3. CASE MainReturns \/ Killed
  BY <1>0, <1>3, DropsAll DEF MainReturns, Killed
<1>4. CASE Exit
  <2>1. \A b : State(b)' = State(b)
    BY <1>4 DEF Exit, State
  <2> QED
    BY <1>4, <2>1 DEF Exit, Stays, AtLock, core
<1>5. CASE Start
  <2>1. phase = "down" /\ queue' = queue /\ conn' = conn /\ tick' = "loop"
        /\ boot' \in {"spawned", "ended"}
    BY <1>5 DEF Start, core
  <2>2. queue = <<>>
    BY <1>0, <2>1 DEF Taken
  <2>3. \A b \in Tasks : ~AtLock(b)
    BY <1>0, <2>2 DEF Queued, InQueue
  <2>4. \A b \in Tasks : ~AtLock(b)'
    BY <2>1, <2>3 DEF AtLock, State
  <2>5. \A b \in Tasks : State(b)' # "working"
    BY <2>4 DEF AtLock
  <2> QED
    BY <1>5, <2>1, <2>3, <2>4, <2>5 DEF Stays
<1> QED
  BY <1>1, <1>2, <1>3, <1>4, <1>5 DEF Process

(* A command that returns or hangs moves no task.                          *)
LEMMA CommandMoves ==
  ASSUME Queued, Run
  PROVE  Stays /\ \A b : State(b)' = State(b)
<1>1. UNCHANGED <<queue, tick, boot, conn>>
  BY DEF Run, CommandReturns, CommandHangs, Command, core
<1>2. \A b : State(b)' = State(b)
  BY <1>1 DEF State
<1> QED
  BY <1>1, <1>2 DEF Stays, AtLock

(* Every step keeps the account of the queue.                              *)
LEMMA StepQueued == IInv /\ [Next]_vars => Queued'
<1> SUFFICES ASSUME IInv, [Next]_vars PROVE Queued'
  OBVIOUS
<1>0. Queued
  BY DEF IInv
<1>1. CASE UNCHANGED vars
  BY <1>0, <1>1 DEF vars, Queued, InQueue, AtLock, State, Holds
<1>2. CASE Next
  <2>1. Join \/ Leave \/ Stay \/ Stays \/ Clears
    BY <1>0, <1>2, TaskMoves, LoopMoves, ProcessMoves, CommandMoves DEF Next
  <2> QED
    BY <1>0, <2>1, QueueStep DEF Join, Leave, Stay
<1> QED
  BY <1>1, <1>2
-----------------------------------------------------------------------------
(* The workers. *)
LEMMA StepTaken == IInv /\ [Next]_vars => Taken'
<1> SUFFICES ASSUME IInv, [Next]_vars PROVE Taken'
  OBVIOUS
<1>0. Typed /\ Queued /\ Taken /\ MaxConcurrentStart \in Nat \ {0}
  BY DaemonAssumption DEF IInv
<1>1. /\ started \in 0 .. MaxConcurrentStart /\ started \in Nat
      /\ blocked \in 0 .. MaxConcurrentStart /\ blocked \in Nat
      /\ hung \in 0 .. blocked /\ hung \in Nat
      /\ lost \in BOOLEAN /\ (lost => blocked > 0)
      /\ (phase # "ending" => blocked <= started)
      /\ (blocked > 0 /\ phase # "ending" => queue # <<>> /\ State(Head(queue)) = "working")
      /\ (phase \in {"ending", "down"} => queue = <<>>)
      /\ (phase = "down" => blocked = 0)
  BY <1>0 DEF Taken
<1>2. CASE UNCHANGED vars
  <2>1. UNCHANGED <<phase, queue, started, blocked, hung, lost, tick, boot, conn>>
    BY <1>2 DEF vars
  <2>2. \A b : State(b)' = State(b)
    BY <2>1 DEF State
  <2> QED
    BY <1>1, <2>1, <2>2 DEF Taken
<1>3. CASE Join
  <2>1. PICK a \in Tasks : Joins(a)
    BY <1>3 DEF Join
  <2>2. queue \in Seq(Tasks) /\ IsInjective(queue) /\ ~InQueue(queue, a)
    BY <1>0, <2>1 DEF Queued, Joins
  <2>3. queue' # <<>> /\ (queue # <<>> => Head(queue') = Head(queue))
    BY <2>1, <2>2, Joined DEF Joins
  <2>4. ASSUME queue # <<>>, State(Head(queue)) = "working"
        PROVE  State(Head(queue))' = "working"
    <3>1. PICK h \in Tasks : h = Head(queue)
      BY <2>2, <2>4
    <3>2. h # a /\ State(h)' = "working"
      BY <2>1, <2>4, <3>1 DEF Joins, Others, AtLock
    <3>3. h = Head(queue')
      BY <2>3, <2>4, <3>1
    <3> QED
      BY <3>2, <3>3
  <2> QED
    BY <1>1, <1>3, <2>3, <2>4 DEF Taken, Join, Up
<1>4. CASE Leave
  <2>1. queue # <<>> /\ blocked = 0 /\ started' = 0 /\ UNCHANGED <<phase, blocked, hung, lost>>
    BY <1>4 DEF Leave, Leaves, Holds
  <2>2. phase \notin {"ending", "down"}
    BY <1>1, <2>1
  <2> QED
    BY <1>0, <1>1, <2>1, <2>2 DEF Taken
<1>5. CASE Stay
  <2>1. queue' = queue /\ UNCHANGED <<started, blocked, hung, lost>>
        /\ (phase' = phase \/ (Up /\ phase' = "stopping"))
    BY <1>5 DEF Stay, Stays
  <2>2. queue # <<>> => Head(queue) \in Tasks
    BY <1>0 DEF Queued
  <2>3. ASSUME queue # <<>>, State(Head(queue)) = "working"
        PROVE  State(Head(queue))' = "working"
    <3>1. PICK h \in Tasks : h = Head(queue)
      BY <2>2, <2>3
    <3>2. State(h)' = "working" /\ h = Head(queue')
      BY <1>5, <2>1, <2>3, <3>1 DEF Stay
    <3> QED
      BY <3>2
  <2> QED
    BY <1>1, <2>1, <2>3 DEF Taken, Up
<1>6. CASE Run
  <2>1. queue' = queue /\ phase' = phase /\ \A b : State(b)' = State(b)
    <3>1. queue' = queue /\ phase' = phase
      BY <1>6 DEF Run, CommandReturns, CommandHangs, Command, core, process
    <3> QED
      BY <1>0, <1>6, <3>1, CommandMoves
  <2>2. CASE CommandReturns
    <3>1. blocked > hung /\ blocked' = blocked - 1 /\ UNCHANGED <<started, hung>>
      BY <2>2 DEF CommandReturns, core
    <3>2. lost' \in BOOLEAN /\ ~lost'
      BY <2>2 DEF CommandReturns
    <3> QED
      BY <1>0, <1>1, <2>1, <3>1, <3>2 DEF Taken
  <2>3. CASE CommandHangs
    <3>1. blocked > hung /\ hung' = hung + 1 /\ UNCHANGED <<started, blocked, lost>>
      BY <2>3 DEF CommandHangs, core
    <3> QED
      BY <1>0, <1>1, <2>1, <3>1 DEF Taken
  <2>4. ASSUME NEW a \in Tasks, Command(a) PROVE Taken'
    <3>1. /\ Working(a) /\ Up /\ started < Commands(a) /\ hung' = hung
          /\ started' = started + 1 /\ blocked' = blocked + 1 /\ lost' \in BOOLEAN
      BY <1>1, <2>4 DEF Command, Scheduled, Up
    <3>2. queue # <<>> /\ State(Head(queue)) = "working"
      BY <3>1, WorkingIs DEF Holds
    <3>3. Commands(a) \in {1, MaxConcurrentStart}
      BY DEF Commands
    <3>4. started < MaxConcurrentStart
      BY <1>0, <1>1, <3>1, <3>3
    <3>5. phase # "ending" /\ phase # "down"
      BY <3>1 DEF Up
    <3> QED
      BY <1>0, <1>1, <2>1, <3>1, <3>2, <3>4, <3>5 DEF Taken
  <2> QED
    BY <1>6, <2>2, <2>3, <2>4 DEF Run, Tasks
<1>7. CASE (MainReturns \/ Killed) /\ Clears
  <2>1. queue' = <<>> /\ started' = 0
    BY <1>7 DEF MainReturns, Killed, Dropped
  <2>2. CASE MainReturns
    BY <1>0, <1>1, <2>1, <2>2 DEF MainReturns, commands, Taken
  <2>3. CASE Killed
    <3>1. lost' \in BOOLEAN /\ ~lost'
      BY <2>3 DEF Killed
    <3>2. phase' = "down" /\ blocked' = 0 /\ hung' = 0
      BY <2>3 DEF Killed
    <3> QED
      BY <1>0, <1>1, <2>1, <3>1, <3>2 DEF Taken
  <2> QED
    BY <1>7, <2>2, <2>3
<1>8. CASE Exit \/ Start
  <2>1. UNCHANGED <<queue, started, blocked, hung, lost>> /\ blocked = 0 /\ queue = <<>>
        /\ phase' \in {"down", "running"}
    BY <1>1, <1>8 DEF Exit, Start, core, commands
  <2> QED
    BY <1>0, <1>1, <2>1 DEF Taken
<1> QED
  BY <1>2, <1>3, <1>4, <1>5, <1>6, <1>7, <1>8, TaskMoves, LoopMoves, ProcessMoves DEF Next
-----------------------------------------------------------------------------
(* Types. *)
LEMMA FreshTypes ==
  /\ Idle \in Connection /\ [Idle EXCEPT !.at = "lost"] \in Connection
  /\ \A r \in Request, part \in {"whole", "head", "torn"} :
       [Idle EXCEPT !.at = "sent", !.request = r, !.part = part] \in Connection
  /\ \A r \in Request \cup {NoRequest}, reply \in {"ok", "error"} :
       [Idle EXCEPT !.at = "answered", !.request = r, !.reply = reply] \in Connection
BY DEF Idle, Connection

(* An answer is a state of a connection.                                   *)
LEMMA AnsweredType ==
  ASSUME conn \in [Conns -> Connection], NEW c \in Conns, NEW reply \in {"ok", "error"}
  PROVE  Answered(c, reply) \in [Conns -> Connection]
<1>1. conn[c].request \in Request \cup {NoRequest}
  BY DEF Connection
<1> DEFINE x == [Idle EXCEPT !.at = "answered", !.request = conn[c].request, !.reply = reply]
<1>2. x \in Connection
  BY <1>1, FreshTypes
<1>3. Answered(c, reply) = [conn EXCEPT ![c] = x]
  BY DEF Answered
<1> HIDE DEF x
<1> QED
  BY <1>2, <1>3

(* What is on its way stays a connection wherever it is put.               *)
LEMMA MovedType ==
  ASSUME NEW x \in Connection, NEW at \in {"waiting", "working"},
         NEW scope \in {"none", "one", "all"}
  PROVE  /\ [x EXCEPT !.at = at] \in Connection
         /\ [x EXCEPT !.at = at, !.scope = scope] \in Connection
         /\ [x EXCEPT !.part = "whole"] \in Connection
BY DEF Connection

(* Every step keeps the connections in their type.                         *)
LEMMA ConnStep ==
  ASSUME conn \in [Conns -> Connection], [Next]_vars
  PROVE  conn' \in [Conns -> Connection]
<1>1. CASE \E c \in Conns : Client(c)
  <2>1. PICK c \in Conns : Client(c)
    BY <1>1
  <2>2. CASE Send(c)
    <3>1. PICK r \in Request, part \in {"whole", "head", "torn"} :
            conn' = [conn EXCEPT ![c] = [Idle EXCEPT !.at = "sent", !.request = r,
                                                     !.part = part]]
      BY <2>2 DEF Send
    <3> QED
      BY <3>1, FreshTypes
  <2>3. CASE Arrive(c)
    <3>1. conn' = [conn EXCEPT ![c] = [conn[c] EXCEPT !.part = "whole"]]
      BY <2>3 DEF Arrive
    <3>2. [conn[c] EXCEPT !.part = "whole"] \in Connection
      BY MovedType
    <3> QED
      BY <3>1, <3>2
  <2>4. CASE Deliver(c)
    BY <2>4, FreshTypes DEF Deliver
  <2> QED
    BY <2>1, <2>2, <2>3, <2>4 DEF Client
<1>2. CASE \E c \in Conns : Task(c)
  <2>1. PICK c \in Conns : Task(c)
    BY <1>2
  <2> DEFINE Answers == \E reply \in {"ok", "error"} : conn' = Answered(c, reply)
  <2>2. CASE Answers
    BY <2>2, AnsweredType
  <2>3. CASE conn' = [conn EXCEPT ![c].at = "waiting"]
    <3>1. [conn[c] EXCEPT !.at = "waiting"] \in Connection
      BY MovedType
    <3> QED
      BY <2>3, <3>1
  <2>4. CASE Operate(c)
    <3>1. Scope(c) \in {"none", "one", "all"}
      BY DEF Scope
    <3>2. [conn[c] EXCEPT !.at = "working", !.scope = Scope(c)] \in Connection
      BY <3>1, MovedType
    <3> QED
      BY <2>4, <3>2 DEF Operate
  <2>5. CASE PanicInConn(c)
    BY <2>5, FreshTypes DEF PanicInConn
  <2>6. Receive(c) => Answers \/ conn' = [conn EXCEPT ![c].at = "waiting"]
    BY DEF Receive, Shutdown
  <2>7. Complete(c) => Answers
    BY DEF Complete
  <2> QED
    BY <2>1, <2>2, <2>3, <2>4, <2>5, <2>6, <2>7 DEF Task
<1>3. CASE AcceptFails
  <2>1. PICK refused \in SUBSET Uds :
          conn' = [c \in Conns |->
                     IF c \in refused THEN [Idle EXCEPT !.at = "lost"] ELSE conn[c]]
    BY <1>3 DEF AcceptFails
  <2> QED
    BY <2>1, FreshTypes
<1>4. CASE MainReturns \/ Killed
  <2>1. PICK written \in SUBSET Conns :
          conn' = [c \in Conns |-> IF c \in written THEN Idle ELSE Finished[c]]
    BY <1>4 DEF MainReturns, Killed, Dropped
  <2>2. \A c \in Conns : Finished[c] \in Connection
    BY FreshTypes DEF Finished
  <2> QED
    BY <2>1, <2>2, FreshTypes
<1>5. CASE UNCHANGED vars \/ Loop \/ BootSet \/ BootSetEnds \/ Run \/ Signal \/ Exit \/ Start
  <2>1. conn' = conn
    BY <1>5 DEF vars, Loop, TickReads, TickSpawns, Round, RoundEnds, PanicInRound, BootSet,
                BootSetEnds, Run, CommandReturns, CommandHangs, Command, Signal, Exit, Start
  <2> QED
    BY <2>1
<1> QED
  BY <1>1, <1>2, <1>3, <1>4, <1>5 DEF Next, Process

(* Every step keeps the tasks and the process in their types.              *)
LEMMA StepTyped == Typed /\ [Next]_vars => Typed'
<1> SUFFICES ASSUME Typed, [Next]_vars PROVE Typed'
  OBVIOUS
<1>1. conn' \in [Conns -> Connection]
  BY ConnStep DEF Typed
<1>2. CASE UNCHANGED vars
  BY <1>1, <1>2 DEF vars, Typed
<1>3. CASE Loop \/ BootSet \/ BootSetEnds
  BY <1>1, <1>3 DEF Typed, Loop, TickReads, TickSpawns, Round, RoundEnds, PanicInRound,
                    BootSet, BootSetEnds, process
<1>4. ASSUME NEW c \in Conns, Task(c) \/ Client(c)
      PROVE  Typed'
  <2>1. UNCHANGED <<tick, boot, listening>>
    BY <1>4 DEF Task, Client, Send, Arrive, Deliver, Receive, Operate, Complete,
                PanicInConn, process
  <2>2. phase' \in {phase, "stopping"} /\ stop_tx' \in {stop_tx, FALSE}
    BY <1>4 DEF Task, Client, Send, Arrive, Deliver, Receive, Shutdown, Operate, Complete,
                PanicInConn, process
  <2> QED
    BY <1>1, <2>1, <2>2 DEF Typed
<1>5. CASE Run
  BY <1>1, <1>5 DEF Typed, Run, CommandReturns, CommandHangs, Command, process
<1>6. CASE Process
  BY <1>1, <1>6, DaemonAssumption
     DEF Typed, Process, AcceptFails, Signal, MainReturns, Exit, Killed, Dropped, Start
<1> QED
  BY <1>2, <1>3, <1>4, <1>5, <1>6 DEF Next
-----------------------------------------------------------------------------
(* Theorems. *)

(* A daemon that has just started has an empty queue and idle workers.     *)
LEMMA InitIInv == Init => IInv
<1> SUFFICES ASSUME Init PROVE IInv
  OBVIOUS
<1>1. Typed
  BY DaemonAssumption, FreshTypes DEF Init, Typed
<1>2. \A b \in Tasks : ~AtLock(b)
  BY DEF Init, Tasks, AtLock, State, Idle
<1>3. queue \in Seq(Tasks) /\ IsInjective(queue) /\ (\A b : ~InQueue(queue, b))
  BY DEF Init, IsInjective, InQueue
<1>4. Queued
  BY <1>2, <1>3 DEF Queued, AtLock
<1>5. Taken
  <2>1. lost \in BOOLEAN /\ ~lost
    BY DEF Init
  <2>2. phase = "running" /\ started = 0 /\ blocked = 0 /\ hung = 0
    BY DEF Init
  <2> QED
    BY <2>1, <2>2, DaemonAssumption DEF Taken
<1> QED
  BY <1>1, <1>4, <1>5 DEF IInv

(* The mutex and the workers agree with the tasks, in every state of every *)
(* daemon (main.rs, rpc/server.rs, http_server.rs).                        *)
THEOREM Invariant == Spec => []IInv
<1>1. IInv /\ [Next]_vars => IInv'
  BY StepTyped, StepQueued, StepTaken DEF IInv
<1> QED
  BY InitIInv, <1>1, PTL DEF Spec

(* Every variable stays in its type, no task is in the queue of the mutex  *)
(* twice, no more commands run than max_concurrent_start, and a worker     *)
(* that is taken belongs to the task that holds the mutex and is at work.  *)
THEOREM TypeCorrect == Spec => []TypeOK
<1>1. IInv => TypeOK
  <2> SUFFICES ASSUME IInv PROVE TypeOK
    OBVIOUS
  <2>1. blocked > 0 /\ phase # "ending" => Working(Head(queue))
    <3> SUFFICES ASSUME blocked > 0, phase # "ending" PROVE Working(Head(queue))
      OBVIOUS
    <3>1. queue # <<>> /\ State(Head(queue)) = "working" /\ queue \in Seq(Tasks)
      BY DEF IInv, Taken, Queued
    <3>2. Head(queue) \in Tasks
      BY <3>1
    <3> QED
      BY <3>1, <3>2, WorkingIs DEF Holds
  <2>2. lost \in BOOLEAN /\ (lost => blocked > 0) /\ hung \in 0 .. blocked
        /\ {blocked, started} \subseteq 0 .. MaxConcurrentStart
    BY DEF IInv, Taken
  <2> QED
    BY <2>1, <2>2 DEF IInv, Typed, Queued, TypeOK, Tasks, Connection
<1> QED
  BY Invariant, <1>1, PTL

(* No two tasks are ever at work under the core mutex, though any of them  *)
(* may panic with it, be dropped at an await or hang in a command, and a   *)
(* connection may be refused or the process killed at any time.            *)
OneAtATime == \A a, b \in Tasks : State(a) = "working" /\ State(b) = "working" => a = b

(* OneAtATime holds for any set of connections, workers and commands.      *)
THEOREM CoreExclusive == Spec => []OneAtATime
<1>1. IInv => OneAtATime
  BY DEF IInv, Queued, Holds, OneAtATime
<1> QED
  BY Invariant, <1>1, PTL

(* A mutex that is held is held by a task that is alive: one that waits    *)
(* for its turn, reads, or works.  No panic, refusal or lost client leaves *)
(* it to nobody.                                                           *)
HolderAlive == queue # <<>> => AtLock(Head(queue))

(* HolderAlive holds for any set of connections, workers and commands.     *)
THEOREM NeverPoisoned == Spec => []HolderAlive
<1>1. IInv => HolderAlive
  <2> SUFFICES ASSUME IInv, queue # <<>> PROVE AtLock(Head(queue))
    BY DEF HolderAlive
  <2>1. queue \in Seq(Tasks) /\ (\A a \in Tasks : InQueue(queue, a) <=> AtLock(a))
    BY DEF IInv, Queued
  <2>2. 1 \in DOMAIN queue /\ queue[1] = Head(queue) /\ Head(queue) \in Tasks
    BY <2>1
  <2> QED
    BY <2>1, <2>2 DEF InQueue
<1> QED
  BY Invariant, <1>1, PTL
-----------------------------------------------------------------------------
(* The contract of the core mutex. *)

(* Whoever is at work is the first in the queue, and the core is open.     *)
LEMMA WorkersHold ==
  ASSUME IInv
  PROVE  /\ \A a, b \in AtWork : a = b
         /\ AtWork # {} => queue # <<>> /\ AtWork = {Head(queue)}
         /\ queue # <<>> => phase \in {"running", "stopping"}
         /\ AtWork = {} /\ phase # "ending" => blocked = 0
<1>1. \A a \in AtWork : queue # <<>> /\ Head(queue) = a
  BY DEF IInv, Queued, AtWork, Holds
<1>2. queue # <<>> => phase \in {"running", "stopping"}
  BY DEF IInv, Typed, Taken
<1>3. ASSUME AtWork = {}, phase # "ending" PROVE blocked = 0
  <2>1. blocked \in Nat /\ (blocked > 0 => queue # <<>> /\ State(Head(queue)) = "working")
    BY <1>3, DaemonAssumption DEF IInv, Taken
  <2>2. queue # <<>> => Head(queue) \in Tasks
    BY DEF IInv, Queued
  <2> QED
    BY <1>3, <2>1, <2>2 DEF AtWork
<1> QED
  BY <1>1, <1>2, <1>3

(* A task that joins the queue joins the line.                             *)
LEMMA JoinAsks ==
  ASSUME IInv, Join
  PROVE  \E a \in Tasks : Promised!Ask(a)
<1>1. PICK a \in Tasks : Joins(a)
  BY DEF Join
<1>2. queue \in Seq(Tasks) /\ ~InQueue(queue, a) /\ queue' = Append(queue, a)
  BY <1>1 DEF IInv, Queued, Joins
<1>3. AtWork' = AtWork /\ a \notin AtWork
  BY <1>1 DEF Joins, Others, AtLock, AtWork
<1>4. Line' = Append(Line, a) /\ ~Promised!Waits(a)
  <2>1. CASE AtWork = {}
    BY <1>2, <1>3, <2>1 DEF Line, Promised!Waits, InQueue
  <2>2. CASE AtWork # {}
    <3>1. queue # <<>>
      BY <2>2, WorkersHold
    <3>2. Tail(Append(queue, a)) = Append(Tail(queue), a)
      BY <1>2, <3>1
    <3>3. \A i \in DOMAIN Tail(queue) : i + 1 \in DOMAIN queue /\ Tail(queue)[i] = queue[i + 1]
      BY <1>2, <3>1
    <3>4. ~Promised!Waits(a)
      BY <1>2, <2>2, <3>3 DEF Line, Promised!Waits, InQueue
    <3> QED
      BY <1>2, <1>3, <2>2, <3>2, <3>4 DEF Line
  <2> QED
    BY <2>1, <2>2
<1>5. phase \in {"running", "stopping"} /\ UNCHANGED <<phase, blocked>>
  BY DEF Join, Up
<1> QED
  BY <1>3, <1>4, <1>5 DEF Promised!Ask

(* One that leaves it ends its operation, or has only read.                *)
LEMMA LeaveLeaves ==
  ASSUME IInv, Leave
  PROVE  Promised!Leave \/ Promised!Pass
<1>1. PICK a \in Tasks : Leaves(a)
  BY DEF Leave
<1>2. queue # <<>> /\ Head(queue) = a /\ queue' = Tail(queue) /\ blocked = 0
      /\ UNCHANGED <<phase, blocked>>
  BY <1>1 DEF Leave, Leaves, Holds
<1>3. AtWork \subseteq {a} /\ phase \in {"running", "stopping"}
  BY <1>2, WorkersHold
<1>4. AtWork' = {}
  BY <1>1, <1>3 DEF Leaves, Others, AtLock, AtWork
<1>5. CASE AtWork = {}
  BY <1>2, <1>3, <1>4, <1>5 DEF Line, Promised!Pass, Promised!Vacant
<1>6. CASE AtWork # {}
  BY <1>2, <1>3, <1>4, <1>6 DEF Line, Promised!Leave
<1> QED
  BY <1>5, <1>6

(* While the queue stays, its first begins to work, or nothing happens.    *)
LEMMA StayEnters ==
  ASSUME IInv, Stay
  PROVE  Promised!Enter \/ UNCHANGED Promised!vars
<1>1. queue' = queue /\ UNCHANGED blocked
      /\ (phase \in {"running", "stopping"})' = (phase \in {"running", "stopping"})
  BY DEF Stay, Stays, Up
<1>2. AtWork \subseteq AtWork' /\ \A b \in AtWork' : b \in AtWork \/ Holds(b)
  BY DEF Stay, Stays, AtWork
<1>3. CASE AtWork' = AtWork
  BY <1>1, <1>3 DEF Line, Promised!vars
<1>4. CASE AtWork' # AtWork
  <2>1. PICK b \in AtWork' : b \notin AtWork
    BY <1>2, <1>4
  <2>2. queue # <<>> /\ Head(queue) = b
    BY <1>2, <2>1 DEF Holds
  <2>3. AtWork = {} /\ phase \in {"running", "stopping"}
    BY <2>1, <2>2, WorkersHold
  <2>4. AtWork' = {b} /\ blocked = 0
    BY <1>2, <2>1, <2>2, <2>3, WorkersHold DEF Holds
  <2> QED
    BY <1>1, <2>2, <2>3, <2>4 DEF Line, Promised!Enter, Promised!Vacant
<1> QED
  BY <1>3, <1>4

(* A command belongs to the one operation there is.                        *)
LEMMA RunRuns ==
  ASSUME IInv, Run
  PROVE  Promised!StartCommand \/ Promised!CommandReturns \/ UNCHANGED Promised!vars
<1>1. /\ queue' = queue /\ phase' = phase
      /\ \A b : State(b)' = State(b)
  <2>1. queue' = queue /\ phase' = phase
    BY DEF Run, CommandReturns, CommandHangs, Command, core, process
  <2> QED
    BY <2>1, CommandMoves DEF IInv
<1>2. AtWork' = AtWork /\ Line' = Line
  BY <1>1 DEF AtWork, Line
<1>3. blocked \in Nat /\ hung \in Nat /\ started \in Nat
      /\ (phase # "ending" => blocked <= started)
  BY DaemonAssumption DEF IInv, Taken
<1>4. CASE CommandReturns
  BY <1>1, <1>2, <1>3, <1>4 DEF CommandReturns, Promised!CommandReturns
<1>5. CASE CommandHangs
  BY <1>1, <1>2, <1>5 DEF CommandHangs, Promised!vars
<1>6. ASSUME NEW a \in Tasks, Command(a) PROVE Promised!StartCommand
  <2>1. Working(a) /\ started < Commands(a) /\ blocked' = blocked + 1 /\ phase # "ending"
    BY <1>6 DEF Command, Scheduled
  <2>2. a \in AtWork
    BY <2>1, WorkingIs DEF AtWork
  <2>3. Commands(a) \in Nat /\ Commands(a) <= MaxConcurrentStart
    BY DaemonAssumption DEF Commands
  <2> QED
    BY <1>1, <1>2, <1>3, <2>1, <2>2, <2>3, DaemonAssumption DEF Promised!StartCommand
<1> QED
  BY <1>4, <1>5, <1>6 DEF Run, Tasks

(* The core closes with the process and opens with the next.               *)
LEMMA ProcessCloses ==
  ASSUME IInv, Process
  PROVE  \/ Promised!Enter \/ Promised!Close \/ Promised!Reopen
         \/ UNCHANGED Promised!vars
<1>1. CASE Stay
  BY <1>1, StayEnters
<1>2. CASE (MainReturns \/ Killed) /\ Clears
  <2>1. queue' = <<>> /\ AtWork' = {}
    BY <1>2 DEF Clears, AtLock, AtWork
  <2>2. phase' \in {"ending", "down"} /\ blocked' \in {blocked, 0}
    BY <1>2 DEF MainReturns, Killed, commands
  <2> QED
    BY <2>1, <2>2 DEF Line, Promised!Close
<1>3. CASE Exit
  <2>1. UNCHANGED <<queue, tick, boot, conn, blocked>> /\ phase = "ending" /\ phase' = "down"
    BY <1>3 DEF Exit, core, commands
  <2>2. AtWork' = AtWork
    BY <2>1 DEF AtWork, State
  <2> QED
    BY <2>1, <2>2 DEF Line, Promised!vars
<1>4. CASE Start /\ Stays
  <2>1. queue' = queue /\ blocked' = blocked /\ phase = "down" /\ phase' = "running"
    BY <1>4 DEF Start, core, commands
  <2>2. queue = <<>>
    BY <2>1, WorkersHold
  <2>3. AtWork = {} /\ blocked = 0
    BY <2>1, <2>2, WorkersHold
  <2>4. AtWork' = {}
    BY <1>4, <2>2, <2>3 DEF Stays, AtWork, Holds
  <2> QED
    BY <2>1, <2>2, <2>3, <2>4 DEF Line, Promised!Reopen, Promised!Vacant
<1> QED
  BY <1>1, <1>2, <1>3, <1>4, ProcessMoves

(* The daemon keeps the contract of the core mutex, for any number of      *)
(* connections, workers and commands: operations come one at a time, in    *)
(* the order they were asked for, and none finds a command of another      *)
(* still at work.                                                          *)
THEOREM OperationsInTurn == Spec => OneOperation
<1>1. Init => Promised!Init
  <2> SUFFICES ASSUME Init PROVE Promised!Init
    OBVIOUS
  <2>1. AtWork = {}
    BY DEF Init, AtWork, Tasks, State, Idle
  <2> QED
    BY <2>1 DEF Init, Line, Promised!Init, Promised!Vacant
<1>2. IInv /\ [Next]_vars => [Promised!Next]_(Promised!vars)
  <2> SUFFICES ASSUME IInv, [Next]_vars PROVE Promised!Next \/ UNCHANGED Promised!vars
    OBVIOUS
  <2>1. CASE UNCHANGED vars
    <3>1. UNCHANGED <<phase, queue, tick, boot, conn, blocked>>
      BY <2>1 DEF vars
    <3>2. AtWork' = AtWork
      BY <3>1 DEF AtWork, State
    <3> QED
      BY <3>1, <3>2 DEF Line, Promised!vars
  <2>2. CASE Join \/ Leave \/ Stay
    BY <2>2, JoinAsks, LeaveLeaves, StayEnters DEF Promised!Next
  <2>3. CASE Run
    BY <2>3, RunRuns DEF Promised!Next
  <2>4. CASE Process
    BY <2>4, ProcessCloses DEF Promised!Next
  <2> QED
    BY <2>1, <2>2, <2>3, <2>4, TaskMoves, LoopMoves DEF Next
<1> QED
  BY <1>1, <1>2, Invariant, PTL DEF Spec, OneOperation, Promised!Spec
=============================================================================
