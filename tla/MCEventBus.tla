----------------------------- MODULE MCEventBus -----------------------------
(* An instance of EventBus: a client that is announced and one that is not.  *)
EXTENDS EventBus, TLC

CONSTANTS c1, c2

=============================================================================
