----------------------------- MODULE MCMonitorV2 -----------------------------
(* MonitorV2 on small instances: two tasks, one or two writing processes,   *)
(* blocks of two events, two or three pid writes.                          *)
EXTENDS MonitorV2
=============================================================================
