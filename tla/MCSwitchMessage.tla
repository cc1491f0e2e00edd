--------------------------- MODULE MCSwitchMessage ---------------------------
(* SwitchMessage with two CPUs, two processes and messages of two pieces.   *)
EXTENDS SwitchMessage
=============================================================================
