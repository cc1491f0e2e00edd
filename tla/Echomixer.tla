------------------------------ MODULE Echomixer ------------------------------
(***************************************************************************)
(* The whole of allstar_bins/echomixer.c: gains, windows and clock in one  *)
(* program.  They share the session - all of them start and end with it -  *)
(* and the digital mode, which decides both the clock and the channels     *)
(* that work.  GTK runs one handler at a time.                             *)
(*                                                                         *)
(* Bound: in one behaviour the user works with one part of the panel, as   *)
(* the value of part says; the others take part in the joint steps only.   *)
(***************************************************************************)
EXTENDS EchoGains, EchoWindows, EchoClock

CONSTANT AdatCard       \* the card for the parts other than the gains
ASSUME AdatCardAssumption == AdatCard \in Cards

VARIABLE part

vars == <<gainVars, windowVars, clockVars, part>>

ChannelsWork(mode) == ~HasAdat \/ mode = "ADAT"

Init ==
    /\ part \in {"gains", "windows", "clock"}
    /\ GainsInit /\ WindowsInit /\ ClockInit
    /\ adat = ChannelsWork(cardMode)
    /\ part # "gains" => card = AdatCard
    /\ part # "clock" => cardClock = 0 /\ cardMode = "ADAT"
    /\ part # "windows" => saved = {}

UseGains ==
    /\ part = "gains" /\ phase = "running"
    /\ GainsStep
    /\ UNCHANGED <<windowVars, clockVars, part>>

UseWindows ==
    /\ part = "windows"
    /\ WindowsStep
    /\ UNCHANGED <<gainVars, clockVars, part>>

UseClock ==
    /\ part = "clock" /\ phase = "running"
    /\ ClockStep
    /\ UNCHANGED <<gainVars, windowVars, part>>

Timer ==
    /\ part = "clock" /\ phase = "running"
    /\ CheckInputs
    /\ UNCHANGED <<gainVars, windowVars, part>>

CardChanges ==
    /\ part = "clock"
    /\ CardStep
    /\ UNCHANGED <<gainVars, windowVars, part>>

(* Digital_mode_activate as a whole. *)
ChangeMode(mode, keeps) ==
    /\ part \in {"gains", "clock"} /\ phase = "running" /\ HasAdat
    /\ Digital_mode_activate(mode, keeps)
    /\ SetSensitivity(ChannelsWork(mode))
    /\ UNCHANGED <<windowVars, part>>

EndSession(fails) ==
    /\ ~pressed
    /\ Mainwindow_delete(fails) \/ (part # "gains" /\ Killed)
    /\ UNCHANGED <<gainVars, clockVars, part>>

(* When a busy card refuses the mode that main sets again, the ADAT        *)
(* channels stay as main found them, enabled.                              *)
StartSession(fails) ==
    /\ Start(fails)
    /\ RestartGains(busy \/ ChannelsWork(cardMode))
    /\ StartClock
    /\ UNCHANGED <<cardVars, part>>

Next ==
    \/ UseGains \/ UseWindows \/ UseClock \/ Timer \/ CardChanges
    \/ \E mode \in Modes, keeps \in BOOLEAN : ChangeMode(mode, keeps)
    \/ \E fails \in BOOLEAN : EndSession(fails) \/ StartSession(fails)

(* GTK runs the timer again and again while the panel runs. *)
Spec == Init /\ [][Next]_vars /\ WF_vars(Timer)

-----------------------------------------------------------------------------
TypeOK == GainsTypeOK /\ WindowsTypeOK /\ ClockTypeOK

(* The menus tell the truth about the card while the panel runs. *)
ClockIsCards == phase = "running" => MenusShowCard

(* Autoclock works: while the panel runs and the card takes changes, the   *)
(* panel does not stay on a lost clock, nor away from the clock the user   *)
(* chose once that is detected again - whatever the timer did in between,  *)
(* since its own changes leave the choice alone.                           *)
Astray ==
    /\ AutoClock # NoClock /\ phase = "running" /\ ~busy
    /\ clocksrcVal \notin detected \/ AutoClock \in detected \ {clocksrcVal}
AutoclockWorks == []<>~Astray
=============================================================================
