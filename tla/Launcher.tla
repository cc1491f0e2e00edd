------------------------------- MODULE Launcher -------------------------------
(***************************************************************************)
(* test_bins/start_suspended.c: the launcher forks a child that            *)
(* executes the program, sends it SIGSTOP, waits until it has stopped or   *)
(* ended, and reports its pid.  The signal may reach the child before the  *)
(* program is executed, in the program, or after its end.                  *)
(***************************************************************************)
EXTENDS Naturals

VARIABLES
    launcher,       \* what the launcher does next
    image,          \* what the child executes
    running,        \* the child is neither stopped nor ended
    stopPending,    \* SIGSTOP is sent and not yet taken
    continued       \* somebody has sent SIGCONT

launcherVars == <<launcher, image, running, stopPending, continued>>

LauncherInit ==
    /\ launcher = "fork" /\ image = "none"
    /\ running = FALSE /\ stopPending = FALSE /\ continued = FALSE

ForkChild(ok) ==
    /\ launcher = "fork" /\ launcher' = IF ok THEN "kill" ELSE "failed"
    /\ image' = IF ok THEN "launcher" ELSE image
    /\ running' = ok
    /\ UNCHANGED <<stopPending, continued>>

Ended == image = "ended"
(* kill succeeds on a child that has ended and is not waited for. *)
SendStop ==
    /\ launcher = "kill" /\ launcher' = "wait"
    /\ stopPending' = ~Ended
    /\ UNCHANGED <<image, running, continued>>

(* Mutant of WaitUntraced: waitpid without WUNTRACED. *)
WaitForEnd ==
    /\ launcher = "wait" /\ Ended /\ launcher' = "report"
    /\ UNCHANGED <<image, running, stopPending, continued>>
(* Mutant of WaitUntraced: no waitpid. *)
WaitForNothing ==
    /\ launcher = "wait" /\ launcher' = "report"
    /\ UNCHANGED <<image, running, stopPending, continued>>
WaitUntraced ==
    /\ launcher = "wait" /\ image # "none" /\ ~running /\ launcher' = "report"
    /\ UNCHANGED <<image, running, stopPending, continued>>
Report ==
    /\ launcher = "report" /\ launcher' = "done"
    /\ UNCHANGED <<image, running, stopPending, continued>>

(* The child; execvp fails for want of a program, and the child exits. *)
Exec(ok) ==
    /\ running /\ image = "launcher"
    /\ image' = IF ok THEN "program" ELSE "ended"
    /\ running' = ok /\ stopPending' = (ok /\ stopPending)
    /\ UNCHANGED <<launcher, continued>>
ProgramEnds ==
    /\ running /\ image = "program"
    /\ image' = "ended" /\ running' = FALSE /\ stopPending' = FALSE
    /\ UNCHANGED <<launcher, continued>>
TakeStop ==
    /\ running /\ stopPending
    /\ running' = FALSE /\ stopPending' = FALSE
    /\ UNCHANGED <<launcher, image, continued>>

(* The user continues the child whose pid was reported. *)
Continue ==
    /\ launcher = "done" /\ ~running /\ image \in {"launcher", "program"}
    /\ running' = TRUE /\ continued' = TRUE
    /\ UNCHANGED <<launcher, image, stopPending>>

LauncherCode ==
    \/ \E ok \in BOOLEAN : ForkChild(ok)
    \/ SendStop \/ WaitUntraced \/ Report
LauncherStep ==
    \/ LauncherCode \/ TakeStop \/ ProgramEnds \/ Continue
    \/ \E ok \in BOOLEAN : Exec(ok)

-----------------------------------------------------------------------------
LauncherTypeOK ==
    /\ launcher \in {"fork", "kill", "wait", "report", "done", "failed"}
    /\ image \in {"none", "launcher", "program", "ended"}
    /\ {running, stopPending, continued} \subseteq BOOLEAN

(* What is reported holds still: from the report until somebody continues  *)
(* it, the child executes nothing, neither the program nor what comes      *)
(* before it, and no signal is on its way.                                 *)
ReportedIsStill ==
    launcher \in {"report", "done"} /\ ~continued => ~running /\ ~stopPending
=============================================================================
