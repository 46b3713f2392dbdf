-------------------------- MODULE MCRunnerContract --------------------------
(* The instances of MCRunner, with the contract the runner implements.     *)
EXTENDS MCRunner, RunnerContract
=============================================================================
