------------------------------ MODULE MCRunner ------------------------------
(* Instances of Runner for TLC: delay curves, and the sets of outcomes.    *)
EXTENDS Runner

ShortEscalated == <<1, 2>>
ShortRetry == <<1, 2>>

EscalatedOfCode == <<10, 60, 300>>
RetryOfCode == <<5, 15, 60, 300>>

AnyStart == {StartOutcomes}
SteadyStarts == {{"ok"}, {"err"}, {"err78"}}
OnlyOk == {{"ok"}}

(* A busy service on a port times out or answers with a wrong status; a    *)
(* socket is connected to at once, and may only answer badly.              *)
Misleading == [k \in ProbeKinds |->
                 IF k = "port" THEN {"timeout", "bad_status"} ELSE {"bad_status"}]
Truthful == [k \in ProbeKinds |-> {}]
=============================================================================
