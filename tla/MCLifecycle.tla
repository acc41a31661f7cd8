---------------------------- MODULE MCLifecycle ----------------------------
(* The instance of CommandLifecycle that TLC checks. *)
EXTENDS CommandLifecycle
=============================================================================
