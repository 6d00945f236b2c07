----------------------------- MODULE MCSetupLock -----------------------------
(* The instance of SetupLock that TLC checks; MCSetupLock.cfg has its bounds. *)
EXTENDS SetupLock

=============================================================================
