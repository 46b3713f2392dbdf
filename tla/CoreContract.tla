----------------------------- MODULE CoreContract -----------------------------
(***************************************************************************)
(* What the core mutex promises to whoever uses the supervisor's core: one  *)
(* operation at a time, in the order they asked, each with its commands to  *)
(* itself.  An operation that ends, by an answer, an error or a panic,     *)
(* leaves no command at work behind; only the end of the process cuts one  *)
(* off, and then the core stays closed until its commands are back.        *)
(***************************************************************************)
EXTENDS Naturals, Sequences

CONSTANTS
  Users,  \* who asks for the core: the connections and the two tasks
  Limit   \* most commands an operation has at work at once

VARIABLES
  open,     \* there is a core to ask for
  line,     \* who waits for it, the first to have asked first
  inside,   \* who is in an operation: nobody, or one
  commands  \* its start and stop commands at work

vars == <<open, line, inside, commands>>

Waits(a) == \E i \in DOMAIN line : line[i] = a
Vacant == inside = {} /\ commands = 0

Init == open = TRUE /\ line = <<>> /\ Vacant
-----------------------------------------------------------------------------
Ask(a) == /\ open
          /\ a \notin inside /\ ~Waits(a)
          /\ line' = Append(line, a)
          /\ UNCHANGED <<open, inside, commands>>

Enter == /\ open /\ Vacant /\ line # <<>>
         /\ inside' = {Head(line)}
         /\ line' = Tail(line)
         /\ UNCHANGED <<open, commands>>

(* A read takes its turn and gives it on at once. *)
Pass == /\ open /\ Vacant /\ line # <<>>
        /\ line' = Tail(line)
        /\ UNCHANGED <<open, inside, commands>>

Leave == /\ inside # {} /\ commands = 0
         /\ inside' = {}
         /\ UNCHANGED <<open, line, commands>>

StartCommand == /\ inside # {} /\ commands < Limit
                /\ commands' = commands + 1
                /\ UNCHANGED <<open, line, inside>>

CommandReturns == /\ commands > 0
                  /\ commands' = commands - 1
                  /\ UNCHANGED <<open, line, inside>>
-----------------------------------------------------------------------------
(* The process ends in order, is killed with all it has, or starts again.  *)
Close == /\ open' = FALSE /\ line' = <<>> /\ inside' = {}
         /\ commands' \in {commands, 0}

Reopen == /\ ~open /\ Vacant
          /\ open' = TRUE
          /\ UNCHANGED <<line, inside, commands>>

Next == \/ \E a \in Users : Ask(a)
        \/ Enter \/ Pass \/ Leave
        \/ StartCommand \/ CommandReturns
        \/ Close \/ Reopen

Spec == Init /\ [][Next]_vars
=============================================================================
