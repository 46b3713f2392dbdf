------------------------------- MODULE Policy -------------------------------
(***************************************************************************)
(* The crash window and backoff of one service (RestartPolicy, policy.rs), *)
(* and the fixed delay curves of the runner.  Only differences of          *)
(* timestamps are ever used by the code, so a timestamp in the past is     *)
(* kept as its age in seconds and one in the future as the seconds that    *)
(* are left; both move with Elapse in module Runner.  Ages stop at the     *)
(* first value the code cannot tell from an older one.                     *)
(***************************************************************************)
EXTENDS Integers, Sequences, FiniteSets

CONSTANTS
  WindowSec,        \* length of the crash window
  MaxCrashes,       \* crashes the window may hold before the policy is capped
  BackoffMax,       \* longest exponential delay
  EscalatedCurve,   \* breaker delays: 10, 60, 300
  StartRetryCurve   \* start-failure delays: 5, 15, 60, 300

ASSUME PolicyAssumption ==
  /\ WindowSec \in Nat
  /\ MaxCrashes \in Nat
  /\ BackoffMax \in Nat \ {0}
  /\ EscalatedCurve \in Seq(Nat) /\ EscalatedCurve # <<>>
  /\ StartRetryCurve \in Seq(Nat) /\ StartRetryCurve # <<>>

(* Sequences of crash ages, oldest first; WindowSec + 1 stands for every   *)
(* age outside the window.                                                 *)
CrashLog == Seq(0 .. WindowSec + 1)

-----------------------------------------------------------------------------
(* Stale crashes are popped off the front of the deque up to the first one *)
(* the window still covers.                                                *)
Popped(crashes) ==
  {i \in 1 .. Len(crashes) : \A j \in 1 .. i : crashes[j] > WindowSec}

InWindow(crashes) ==
  SubSeq(crashes, Cardinality(Popped(crashes)) + 1, Len(crashes))

record_crash(crashes) == Append(InWindow(crashes), 0)

(* Fault: one crash too many is let through. *)
is_capped_late(crashes) == Len(crashes) > MaxCrashes + 1

is_capped(crashes) == Len(crashes) > MaxCrashes

(* 1 for an empty deque, else 2^(n-1), never more than BackoffMax.         *)
(* The deque is not pruned first: stale crashes still lengthen the delay.  *)
next_delay(crashes) ==
  IF Len(crashes) = 0 THEN 1
  ELSE LET doubled == 2 ^ (Len(crashes) - 1)
       IN  IF doubled \in 1 .. BackoffMax THEN doubled ELSE BackoffMax

(* The n-th entry of a delay curve, from 1, flat after its end.            *)
CurveAt(curve, n) ==
  curve[IF n <= 1 THEN 1 ELSE IF n >= Len(curve) THEN Len(curve) ELSE n]

escalated_delay(n) == CurveAt(EscalatedCurve, n)

start_retry_delay(n) == CurveAt(StartRetryCurve, n)
=============================================================================
