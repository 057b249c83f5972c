---------------------------- MODULE MCEventSink ----------------------------
(* A small instance of EventSink, with its refinement, for TLC. *)
EXTENDS EventSinkDelivery
=============================================================================
