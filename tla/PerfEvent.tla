------------------------------ MODULE PerfEvent ------------------------------
(***************************************************************************)
(* The programs of arm_pmu_experiments: each opens a disabled event for    *)
(* itself, resets and enables it, works, disables it and prints the count. *)
(* In pmu_events_cli.c a forked child resets and enables the parent's      *)
(* event while the parent waits for it; no child executes anything.        *)
(***************************************************************************)
EXTENDS Integers

CONSTANT MaxWork        \* bound: events that the measured process causes
ASSUME WorkAssumption == MaxWork \in Nat

VARIABLES
    forks,      \* the program is pmu_events_cli.c
    parent, child,      \* what each process does next
    enabled, count,     \* the event
    printed,
    work

perfVars == <<forks, parent, child, enabled, count, printed, work>>

PerfInit ==
    /\ forks \in BOOLEAN
    /\ parent = "open" /\ child = "none"
    /\ enabled = FALSE /\ count = 0 /\ printed = 0 /\ work = 0

Open(ok) ==
    /\ parent = "open"
    /\ parent' = IF ~ok THEN "failed" ELSE IF forks THEN "fork" ELSE "reset"
    /\ UNCHANGED <<forks, child, enabled, count, printed, work>>

Fork(ok) ==
    /\ parent = "fork"
    /\ parent' = IF ok THEN "wait" ELSE "failed"
    /\ child' = IF ok THEN "reset" ELSE child
    /\ UNCHANGED <<forks, enabled, count, printed, work>>

(* ioctl RESET and ENABLE, by the process who. *)
Reset(who) == who = "reset" /\ count' = 0 /\ UNCHANGED enabled
Enable(who) == who = "enable" /\ enabled' = TRUE /\ UNCHANGED count

ParentStarts ==
    /\ \/ Reset(parent) /\ parent' = "enable"
       \/ Enable(parent) /\ parent' = "disable"
    /\ UNCHANGED <<forks, child, printed, work>>
ChildStarts ==
    /\ \/ Reset(child) /\ child' = "enable"
       \/ Enable(child) /\ child' = "exited"
    /\ UNCHANGED <<forks, parent, printed, work>>
ChildKilled ==
    /\ child \in {"reset", "enable"} /\ child' = "exited"
    /\ UNCHANGED <<forks, parent, enabled, count, printed, work>>

(* Mutant of WaitForChild: the parent does not wait. *)
WaitForNobody ==
    /\ parent = "wait" /\ parent' = "disable"
    /\ UNCHANGED <<forks, child, enabled, count, printed, work>>
WaitForChild ==
    /\ parent = "wait" /\ child = "exited" /\ parent' = "disable"
    /\ UNCHANGED <<forks, child, enabled, count, printed, work>>

Disable ==
    /\ parent = "disable" /\ enabled' = FALSE /\ parent' = "read"
    /\ UNCHANGED <<forks, child, count, printed, work>>
ReadCount ==
    /\ parent = "read" /\ printed' = count /\ parent' = "done"
    /\ UNCHANGED <<forks, child, enabled, count, work>>

(* The measured process is the parent, whenever it runs in user mode. *)
Work ==
    /\ parent \notin {"open", "failed"} /\ work < MaxWork /\ work' = work + 1
    /\ count' = IF enabled THEN count + 1 ELSE count
    /\ UNCHANGED <<forks, parent, child, enabled, printed>>

PerfProcesses ==
    \/ \E ok \in BOOLEAN : Open(ok) \/ Fork(ok)
    \/ ParentStarts \/ ChildStarts \/ WaitForChild \/ Disable \/ ReadCount
PerfStep == PerfProcesses \/ ChildKilled \/ Work

-----------------------------------------------------------------------------
PerfTypeOK ==
    /\ {forks, enabled} \subseteq BOOLEAN
    /\ parent \in {"open", "fork", "reset", "enable", "wait", "disable", "read",
                   "done", "failed"}
    /\ child \in {"none", "reset", "enable", "exited"}
    /\ {count, printed, work} \subseteq 0..MaxWork

(* The count that is printed is final: it is read when nobody can reset or *)
(* enable the event any more, though another process enables it.           *)
PrintedIsFinal == parent = "done" => printed = count /\ ~enabled
=============================================================================
