----------------------------- MODULE MCEventBus -----------------------------
(* Small instances of EventBus for TLC: the .cfg files give the constants.  *)
EXTENDS EventBus
=============================================================================
