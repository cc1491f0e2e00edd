----------------------------- MODULE EchoWindows -----------------------------
(***************************************************************************)
(* The windows of allstar_bins/echomixer.c.  Each has a toggle button in   *)
(* the main window.  The plain windows exist all the time and are shown or *)
(* hidden; the two that draw level meters are created when their button is *)
(* pressed in and destroyed when it is released, and count how many of     *)
(* them there are in order to switch the meters of the card on and off.    *)
(* What is open is written to a file when the main window is closed and    *)
(* comes back in the next session.                                         *)
(***************************************************************************)
EXTENDS Integers, FiniteSets

CONSTANT PlainWindows
MeterWindows == {"VU", "GM"}
Windows == MeterWindows \union PlainWindows
ASSUME PlainAssumption == PlainWindows \intersect MeterWindows = {}

VARIABLES
    phase,      \* "running", or how the last session ended
    active,     \* the buttons that are pressed in
    opened,     \* the meter windows that exist and the plain ones shown
    st,         \* the meter windows whose geometry has st = 1
    timers,     \* the meter windows whose redraw timer exists
    oncount,    \* SetVUmeters' count of users
    meters,     \* the VU-meters switch of the card
    stale,      \* the last write of the switch failed or its session was killed
    saved       \* the windows that the file says were open

windowVars == <<phase, active, opened, st, timers, oncount, meters, stale, saved>>

(* The file of an earlier session may name any windows; there may be none. *)
WindowsInit ==
    /\ phase = "closed"
    /\ active = {} /\ opened = {} /\ st = {} /\ timers = {}
    /\ oncount = 0 /\ meters = FALSE /\ stale = FALSE
    /\ saved \in {{}, Windows}

-----------------------------------------------------------------------------
Off(n) == IF n = 0 THEN 0 ELSE n - 1

(* Mutant of SetVUmeters: each window switches the meters for itself. *)
SetVUmetersUncounted(count, fails) ==
    /\ oncount' = count
    /\ meters' = IF fails THEN meters ELSE count > oncount
    /\ stale' = fails

(* SetVUmeters: what is written is whether anybody still needs the meters. *)
SetVUmeters(count, fails) ==
    /\ oncount' = count
    /\ meters' = IF fails THEN meters ELSE count > 0
    /\ stale' = fails

(* VUmeters_button_click and GMixer_button_click, on the button w being    *)
(* pressed in or released, whoever does it; destroying the window runs     *)
(* VUwindow_destroy or GMwindow_destroy.                                   *)
Meters_button_click(w, down, fails) ==
    /\ active' = IF down THEN active \union {w} ELSE active \ {w}
    /\ IF down = (w \in opened)
       THEN UNCHANGED <<opened, st, timers, oncount, meters, stale>>
       ELSE IF down
       THEN /\ opened' = opened \union {w} /\ timers' = timers \union {w}
            /\ st' = st \union {w}
            /\ SetVUmeters(oncount + 1, fails)
       ELSE /\ opened' = opened \ {w} /\ timers' = timers \ {w}
            /\ st' = st \ {w}
            /\ SetVUmeters(Off(oncount), fails)

Running == phase = "running" /\ UNCHANGED <<phase, saved>>

Button_click(w, fails) ==
    /\ Running
    /\ Meters_button_click(w, w \notin active, fails)

(* VUwindow_delete and GMwindow_delete: the window is closed by itself.    *)
(* Releasing the button destroys it; GTK's own destruction finds it gone.  *)
Window_delete(w, fails) ==
    /\ Running /\ w \in opened
    /\ Meters_button_click(w, FALSE, fails)

ToggleWindow(w) ==
    /\ Running
    /\ active' = IF w \in active THEN active \ {w} ELSE active \union {w}
    /\ opened' = IF w \in active THEN opened \ {w} ELSE opened \union {w}
    /\ UNCHANGED <<st, timers, oncount, meters, stale>>

CloseWindow(w) == w \in opened /\ ToggleWindow(w)

(* Mutant of Mainwindow_delete: st is cleared as by VUwindow_delete. *)
Mainwindow_deleteForgetful(fails) ==
    LET gone == opened \intersect MeterWindows
    IN  /\ phase = "running" /\ phase' = "closed"
        /\ IF gone = {} THEN UNCHANGED <<oncount, meters, stale>>
           ELSE SetVUmeters(IF Cardinality(gone) = 2 THEN Off(Off(oncount))
                            ELSE Off(oncount), fails)
        /\ opened' = opened \ gone /\ timers' = timers \ gone
        /\ saved' = opened \intersect PlainWindows
        /\ UNCHANGED <<active, st>>

(* The meter windows are destroyed, their buttons stay in and st stays 1;  *)
(* then main saves st of these windows and the visibility of the others.   *)
Mainwindow_delete(fails) ==
    LET gone == opened \intersect MeterWindows
    IN  /\ phase = "running" /\ phase' = "closed"
        /\ IF gone = {} THEN UNCHANGED <<oncount, meters, stale>>
           ELSE SetVUmeters(IF Cardinality(gone) = 2 THEN Off(Off(oncount))
                            ELSE Off(oncount), fails)
        /\ opened' = opened \ gone /\ timers' = timers \ gone
        /\ saved' = st \union (opened \intersect PlainWindows)
        /\ UNCHANGED <<active, st>>

(* No handler runs when the program is killed. *)
Killed ==
    /\ phase = "running" /\ phase' = "killed"
    /\ opened' = {} /\ timers' = {} /\ stale' = TRUE
    /\ UNCHANGED <<active, st, oncount, meters, saved>>

(* main: presses in the button of every window that the file calls open.   *)
(* The writes of one handler, and those of main, fail or succeed together. *)
Start(fails) ==
    LET shown == saved \intersect MeterWindows
    IN  /\ phase # "running" /\ phase' = "running"
        /\ active' = saved /\ opened' = saved
        /\ st' = shown /\ timers' = shown
        /\ IF shown = {} THEN oncount' = 0 /\ UNCHANGED <<meters, stale>>
           ELSE /\ oncount' = Cardinality(shown)
                /\ meters' = (~fails \/ meters)
                /\ stale' = fails
        /\ UNCHANGED saved

WindowsStep ==
    \/ \E w \in MeterWindows, fails \in BOOLEAN :
          Button_click(w, fails) \/ Window_delete(w, fails)
    \/ \E w \in PlainWindows : ToggleWindow(w) \/ CloseWindow(w)

-----------------------------------------------------------------------------
WindowsTypeOK ==
    /\ phase \in {"running", "closed", "killed"}
    /\ {active, opened, saved} \subseteq SUBSET Windows
    /\ {st, timers} \subseteq SUBSET MeterWindows
    /\ oncount \in 0..2
    /\ {meters, stale} \subseteq BOOLEAN

(* The card measures exactly while a meter window is open, however the two *)
(* windows are opened, closed and closed with the main window - unless the *)
(* last write failed or the session that made it was killed, which leaves  *)
(* the meters on until a window is opened and closed again.  And a timer   *)
(* draws into each window that exists and into no other.                   *)
MetersFollowWindows ==
    /\ timers = opened \intersect MeterWindows
    /\ stale \/ (meters <=> timers # {})

(* Closing the main window keeps the windows for the next session, though  *)
(* it destroys some of them first; a killed session leaves the file alone. *)
WindowsComeBack ==
    [][/\ phase = "running" /\ phase' = "closed" => saved' = opened
       /\ phase # "running" /\ phase' = "running" => opened' = saved]_windowVars
=============================================================================
