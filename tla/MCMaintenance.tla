---------------------------- MODULE MCMaintenance ----------------------------
(* The instance of Maintenance that TLC checks; its constants are in the    *)
(* configurations.                                                         *)
EXTENDS Maintenance
=============================================================================
