----------------------------- MODULE MCEventBus -----------------------------
(* Instances of EventBus for TLC. *)
EXTENDS EventBus

CONSTANTS api, monitor, d1, d2
=============================================================================
