--------------------------- MODULE MCEventQueue ----------------------------
(***************************************************************************)
(* EventQueue on a small instance: two event types, a queue of three       *)
(* places and enough events to fill it, overflow it several times,         *)
(* clear it and overflow it again.                                         *)
(***************************************************************************)
EXTENDS EventQueue
=============================================================================
