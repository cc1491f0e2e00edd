-------------------------------- MODULE Tools --------------------------------
(***************************************************************************)
(* The small programs beside the two monitors: the PMU module, the         *)
(* programs that measure themselves and the launcher of the programs to be *)
(* measured.  They share nothing.                                          *)
(* Bound: a behaviour is one of one of them, as tool says.                 *)
(***************************************************************************)
EXTENDS PmuModule, PerfEvent, Launcher

VARIABLE tool
vars == <<pmuVars, perfVars, launcherVars, tool>>

Init ==
    /\ tool \in {"pmu", "perf", "launcher"}
    /\ PmuInit /\ PerfInit /\ LauncherInit

UsePmu ==
    /\ tool = "pmu" /\ PmuStep
    /\ UNCHANGED <<perfVars, launcherVars, tool>>
UsePerf ==
    /\ tool = "perf" /\ PerfStep
    /\ UNCHANGED <<pmuVars, launcherVars, tool>>
UseLauncher ==
    /\ tool = "launcher" /\ LauncherStep
    /\ UNCHANGED <<pmuVars, perfVars, tool>>
Next == UsePmu \/ UsePerf \/ UseLauncher

(* Processes that can go on do so, and a sent signal is taken. *)
Fairness ==
    /\ WF_vars(UsePerf /\ PerfProcesses)
    /\ WF_vars(UseLauncher /\ LauncherCode)
    /\ WF_vars(UseLauncher /\ TakeStop)
Spec == Init /\ [][Next]_vars /\ Fairness

-----------------------------------------------------------------------------
TypeOK == PmuTypeOK /\ PerfTypeOK /\ LauncherTypeOK

(* The programs that wait for a child get their answer and end, whatever   *)
(* the child does: nothing else would end them.                            *)
WaitersEnd ==
    /\ tool = "perf" ~> parent \in {"done", "failed"}
    /\ tool = "launcher" ~> launcher \in {"done", "failed"}
=============================================================================
