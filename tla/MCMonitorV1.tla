----------------------------- MODULE MCMonitorV1 -----------------------------
(* MonitorV1 with two CPUs, two commanding processes and two tasks, whose   *)
(* pids are CPU numbers except in the run about stop_pid.                  *)
EXTENDS MonitorV1
=============================================================================
