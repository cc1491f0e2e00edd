--------------------------- MODULE MCSampledSwitch ---------------------------
(* SampledSwitch with two CPUs, two processes and one-piece messages.       *)
EXTENDS SampledSwitch
=============================================================================
