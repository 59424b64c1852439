------------------------------- MODULE MCPush -------------------------------
(* A small instance of the notification outbox for TLC.  Without symmetry:  *)
(* the run has a liveness property.                                         *)
EXTENDS PushDeliveries
=============================================================================
