------------------------------ MODULE MCDaemon ------------------------------
(* The instance of Daemon that TLC checks; its constants are in the         *)
(* configurations.                                                         *)
EXTENDS DaemonContract
=============================================================================
