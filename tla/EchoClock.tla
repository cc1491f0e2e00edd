------------------------------ MODULE EchoClock ------------------------------
(***************************************************************************)
(* Digital mode and sample clock in allstar_bins/echomixer.c.  The user    *)
(* picks them from menus; a timer reads every two seconds which clocks the *)
(* card detects and, with Autoclock on, leaves a clock that is lost and    *)
(* returns to the user's choice when that is back.  The card refuses       *)
(* changes while a stream is busy, and may change its clock when the       *)
(* digital mode changes.                                                   *)
(***************************************************************************)
EXTENDS Integers

CONSTANTS
    Clocks,         \* the clock sources, 0 is internal
    NoClock         \* AutoClock = -1
ASSUME ClocksAssumption == Clocks \subseteq Nat /\ 0 \in Clocks /\ NoClock \notin Clocks
Modes == {"SPDIF", "ADAT"}

VARIABLES
    detected,       \* the clocks at the card's inputs
    cardClock, cardMode,
    busy,
    offered,        \* the sensitive items of the clock menu
    clocksrcVal, dmodeVal,
    clockMenu, modeMenu,        \* what the menus show
    AutoClock

cardVars  == <<detected, cardClock, cardMode, busy>>
panelVars == <<offered, clocksrcVal, dmodeVal, clockMenu, modeMenu, AutoClock>>
clockVars == <<cardVars, panelVars>>

(* main reads the card; Autoclock is off and the menu is usable only after *)
(* the first run of the timer.                                             *)
StartClock ==
    /\ clocksrcVal' = cardClock /\ clockMenu' = cardClock
    /\ dmodeVal' = cardMode /\ modeMenu' = cardMode
    /\ AutoClock' = NoClock /\ offered' = {}

ClockInit ==
    /\ detected = {0} /\ cardClock \in Clocks /\ cardMode \in Modes
    /\ busy = FALSE
    /\ clocksrcVal = cardClock /\ clockMenu = cardClock
    /\ dmodeVal = cardMode /\ modeMenu = cardMode
    /\ AutoClock = NoClock /\ offered = {}

-----------------------------------------------------------------------------
(* Clock_source_activate: a refused write puts the menu back.  Only the    *)
(* user's choices, not those marked DONT_CHANGE, move AutoClock.           *)
Clock_source_activate(source, dontChange) ==
    /\ IF busy THEN UNCHANGED <<cardClock, clocksrcVal>>
       ELSE cardClock' = source /\ clocksrcVal' = source
    /\ clockMenu' = clocksrcVal'
    /\ AutoClock' = IF busy \/ dontChange \/ AutoClock = NoClock
                    THEN AutoClock ELSE source

PickClock(source) ==
    /\ source \in offered
    /\ Clock_source_activate(source, FALSE)
    /\ UNCHANGED <<detected, cardMode, busy, offered, dmodeVal, modeMenu>>

AutoClock_toggled ==
    /\ AutoClock' = IF AutoClock = NoClock THEN clocksrcVal ELSE NoClock
    /\ UNCHANGED <<cardVars, offered, clocksrcVal, dmodeVal, clockMenu, modeMenu>>

(* Mutant of WantedSource: the choice matters only when a clock is lost. *)
WantedSourceOnLoss ==
    IF AutoClock = NoClock \/ clocksrcVal \in detected THEN NoClock
    ELSE IF AutoClock \in detected THEN AutoClock ELSE 0

(* The source that CheckInputs wants, NoClock when it leaves it alone. *)
WantedSource ==
    IF AutoClock \in detected THEN AutoClock
    ELSE IF AutoClock # NoClock /\ clocksrcVal \notin detected THEN 0
    ELSE NoClock
CheckInputs ==
    /\ offered' = detected
    /\ IF WantedSource \in Clocks \ {clocksrcVal}
       THEN Clock_source_activate(WantedSource, TRUE)
       ELSE UNCHANGED <<cardClock, clocksrcVal, clockMenu, AutoClock>>
    /\ UNCHANGED <<detected, cardMode, busy, dmodeVal, modeMenu>>

(* What Digital_mode_activate does besides enabling the ADAT channels.     *)
(* keeps says whether the card keeps its clock.                            *)
Digital_mode_refused ==
    /\ busy /\ modeMenu' = dmodeVal
    /\ UNCHANGED <<cardVars, offered, clocksrcVal, dmodeVal, clockMenu, AutoClock>>

(* Mutant of Digital_mode_activate: the clock is not read back. *)
Digital_mode_activateBlind(mode, keeps) ==
    /\ ~busy
    /\ cardMode' = mode /\ dmodeVal' = mode /\ modeMenu' = mode
    /\ cardClock' = IF keeps THEN cardClock ELSE 0
    /\ UNCHANGED <<detected, busy, offered, clocksrcVal, clockMenu, AutoClock>>

Digital_mode_activate(mode, keeps) ==
    /\ ~busy
    /\ cardMode' = mode /\ dmodeVal' = mode /\ modeMenu' = mode
    /\ cardClock' = IF keeps THEN cardClock ELSE 0
    /\ clocksrcVal' = cardClock' /\ clockMenu' = cardClock'
    /\ UNCHANGED <<detected, busy, offered, AutoClock>>

(* Cables are plugged and pulled, streams start and stop. *)
InputsChange(clocks) ==
    /\ detected' = {0} \union clocks
    /\ UNCHANGED <<cardClock, cardMode, busy, panelVars>>
StreamChange ==
    /\ busy' = ~busy
    /\ UNCHANGED <<detected, cardClock, cardMode, panelVars>>

ClockStep ==
    \/ \E source \in Clocks : PickClock(source)
    \/ AutoClock_toggled
    \/ Digital_mode_refused
CardStep ==
    \/ \E clocks \in SUBSET Clocks : InputsChange(clocks)
    \/ StreamChange

-----------------------------------------------------------------------------
ClockTypeOK ==
    /\ detected \in SUBSET Clocks /\ offered \in SUBSET Clocks
    /\ {cardClock, clocksrcVal, clockMenu} \subseteq Clocks
    /\ {cardMode, dmodeVal, modeMenu} \subseteq Modes
    /\ AutoClock \in Clocks \union {NoClock}
    /\ busy \in BOOLEAN

(* The menus show, and the program remembers, the clock and the mode that  *)
(* the card has, after refused changes, automatic ones and a change of the *)
(* digital mode, which may change the clock behind the program's back.     *)
MenusShowCard ==
    /\ clockMenu = clocksrcVal /\ clocksrcVal = cardClock
    /\ modeMenu = dmodeVal /\ dmodeVal = cardMode

=============================================================================
