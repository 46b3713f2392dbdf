------------------------------- MODULE MCTray -------------------------------
(* One service: a core one, whose stop asks first, or one of the APP       *)
(* panel, whose stop does not.                                             *)
EXTENDS Tray

MCService == {"gateway"}
MCRegistries == {[s \in MCService |-> t] : t \in {"Core", "App"}}
=============================================================================
