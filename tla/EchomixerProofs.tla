--------------------------- MODULE EchomixerProofs ---------------------------
(***************************************************************************)
(* Theorems about the whole of echomixer.c, for any cards, slider          *)
(* positions, windows and clocks.  The gains' part rests on the lemmas of  *)
(* EchoGainsProofs; the windows and the clock have their invariants here.  *)
(***************************************************************************)
EXTENDS Echomixer, EchoGainsProofs, FiniteSetTheorems

USE PlainAssumption, ClocksAssumption, AdatCardAssumption

(* What a step of the program is for each of its three parts. *)
LEMMA Parts ==
    ASSUME Next
    PROVE  /\ GainsNext \/ UNCHANGED gainVars
           /\ \/ WindowsStep \/ UNCHANGED windowVars \/ Killed
              \/ \E fails \in BOOLEAN : Mainwindow_delete(fails) \/ Start(fails)
           /\ \/ ClockStep \/ CardStep \/ CheckInputs \/ UNCHANGED clockVars
              \/ StartClock /\ UNCHANGED cardVars
              \/ \E mode \in Modes, keeps \in BOOLEAN :
                    Digital_mode_activate(mode, keeps)
<1>1. CASE UseGains \/ UseWindows \/ UseClock \/ Timer \/ CardChanges
  BY <1>1 DEF UseGains, UseWindows, UseClock, Timer, CardChanges, GainsNext
<1>2. ASSUME NEW mode \in Modes, NEW keeps \in BOOLEAN, ChangeMode(mode, keeps)
      PROVE  /\ GainsNext /\ UNCHANGED windowVars
             /\ Digital_mode_activate(mode, keeps)
  BY <1>2 DEF ChangeMode, GainsNext, ChannelsWork
<1>3. ASSUME NEW fails \in BOOLEAN, EndSession(fails)
      PROVE  /\ UNCHANGED gainVars /\ UNCHANGED clockVars
             /\ Mainwindow_delete(fails) \/ Killed
  BY <1>3 DEF EndSession
<1>4. ASSUME NEW fails \in BOOLEAN, StartSession(fails)
      PROVE  GainsNext /\ Start(fails) /\ StartClock /\ UNCHANGED cardVars
  BY <1>4 DEF StartSession, GainsNext, ChannelsWork
<1> QED BY <1>1, <1>2, <1>3, <1>4 DEF Next

-----------------------------------------------------------------------------
(* The gains, for any card.                                                *)

LEMMA GInvSteps ==
    ASSUME GInv, [Next]_vars
    PROVE  StepIsRight \/ UNCHANGED gainVars
<1>1. CASE Next
  BY <1>1, Parts, GainsAreRight
<1>2. CASE UNCHANGED vars
  BY <1>2 DEF vars
<1> QED BY <1>1, <1>2

LEMMA GInvStays ==
    ASSUME GInv, UNCHANGED gainVars
    PROVE  GInv'
<1> USE DEF gainVars
<1>1. card \in Cards /\ card' = card /\ InRange
  BY DEF GInv
<1>2. InRange'
  BY <1>1, GainsStay DEF Keeps
<1>3. Channels(GMOutputs)' = Channels(GMOutputs)
  BY DEF Channels, GMOutputs
<1>4. SelectionOK' /\ MouseOK' /\ PressSelects'
  BY <1>1, <1>3, CardStays DEF GInv, SelectionOK, MouseOK, PressSelects
<1> QED BY <1>1, <1>2, <1>4 DEF GInv

(* The inductive invariant of the gains: every gain within the range of    *)
(* its control, pressed in and selected where the rows stand.              *)
THEOREM GainsCorrect == Spec => []GInv
<1>1. Init => GInv
  BY GainsInitIsRight DEF Init
<1>2. GInv /\ [Next]_vars => GInv'
  BY GInvSteps, GInvStays DEF StepIsRight
<1> QED BY <1>1, <1>2, PTL DEF Spec

(* Gang keeps pairs together, on every card and at every slider position.  *)
THEOREM PairsCorrect == Spec => PairsStayEqual
<1>1. GInv /\ [Next]_vars => [Gang /\ PairsEqual => PairsEqual']_gainVars
  BY GInvSteps DEF StepIsRight, Keeps, KeepsPairs
<1> QED BY <1>1, GainsCorrect, PTL DEF Spec, PairsStayEqual

(* Panel and card drift apart by a refused write or by Gang on a card with *)
(* emulated and unequal line-outs, and by nothing else.                    *)
THEOREM DriftCorrect == Spec => DriftNeedsGang
<1> DEFINE A == \A x \in OnCard : Synced(x) /\ ~Synced(x)' =>
                  \/ refused /\ x[1] # "linein"
                  \/ /\ Gang /\ Emulated /\ x[1] \in Matrices
                     /\ gain[LineOut(x[2])] # gain[LineOut(Pair(x[2]))]
<1>1. GInv /\ [Next]_vars => [A]_gainVars
  BY GInvSteps DEF StepIsRight, Keeps, KeepsSync, MayDrift
<1> QED BY <1>1, GainsCorrect, PTL DEF Spec, DriftNeedsGang

(* With Gang off, nothing that selects changes a gain.                     *)
THEOREM SelectionCorrect == Spec => SelectionKeepsGains
<1>1. GInv /\ [Next]_vars => [~Gang /\ sel' # sel => gain' = gain]_gainVars
  BY GInvSteps DEF StepIsRight, SelectsOnly
<1> QED BY <1>1, GainsCorrect, PTL DEF Spec, SelectionKeepsGains

(* A drag reaches no channel that the digital mode has disabled.           *)
THEOREM DragsCorrect == Spec => DragsEnabledOnly
<1> DEFINE A == pressed /\ pressed' => \A x \in Controls :
                  gain'[x] # gain[x] => EnabledControl(x)
<1>1. GInv /\ [Next]_vars => [A]_gainVars
  BY GInvSteps DEF StepIsRight, DragsRight
<1> QED BY <1>1, GainsCorrect, PTL DEF Spec, DragsEnabledOnly

-----------------------------------------------------------------------------
(* The clock.                                                              *)

LEMMA ClockStays == MenusShowCard /\ [Next]_vars => MenusShowCard'
<1> SUFFICES ASSUME MenusShowCard, [Next]_vars PROVE MenusShowCard'
  OBVIOUS
<1> USE DEF MenusShowCard
<1>1. CASE UNCHANGED clockVars
  BY <1>1 DEF clockVars, cardVars, panelVars
<1>2. CASE ClockStep
  BY <1>2 DEF ClockStep, PickClock, Clock_source_activate,
              AutoClock_toggled, Digital_mode_refused, cardVars
<1>3. CASE CardStep
  BY <1>3 DEF CardStep, InputsChange, StreamChange, panelVars
<1>4. CASE CheckInputs
  BY <1>4 DEF CheckInputs, Clock_source_activate
<1>5. CASE StartClock /\ UNCHANGED cardVars
  BY <1>5 DEF StartClock, cardVars
<1>6. CASE \E mode \in Modes, keeps \in BOOLEAN : Digital_mode_activate(mode, keeps)
  BY <1>6 DEF Digital_mode_activate
<1>7. CASE UNCHANGED vars
  BY <1>1, <1>7 DEF vars
<1> QED BY <1>1, <1>2, <1>3, <1>4, <1>5, <1>6, <1>7, Parts

(* The menus show the card's clock and mode, whatever cables, streams, the *)
(* timer and the user do, for any set of clocks.                           *)
THEOREM ClockCorrect == Spec => []ClockIsCards
<1>1. Init => MenusShowCard
  BY DEF Init, ClockInit, MenusShowCard
<1>2. MenusShowCard => ClockIsCards
  BY DEF ClockIsCards
<1> QED BY <1>1, <1>2, ClockStays, PTL DEF Spec

-----------------------------------------------------------------------------
(* The windows.  The count of SetVUmeters is right while a session runs;   *)
(* afterwards the windows are gone and the next session counts anew.       *)

CountIsRight ==
    /\ phase = "running" => /\ st = timers /\ active = opened
                            /\ oncount = Cardinality(timers)
    /\ phase # "running" => timers = {}

WInv == /\ timers \in SUBSET MeterWindows /\ opened \in SUBSET Windows
        /\ saved \in SUBSET Windows
        /\ {meters, stale} \subseteq BOOLEAN
        /\ MetersFollowWindows /\ CountIsRight

LEMMA MeterCount ==
    ASSUME NEW S \in SUBSET MeterWindows
    PROVE  /\ Cardinality(S) \in Nat /\ (Cardinality(S) > 0 <=> S # {})
           /\ Cardinality(S) <= 2
           /\ \A w \in MeterWindows :
                 /\ w \notin S => Cardinality(S \union {w}) = Cardinality(S) + 1
                 /\ w \in S => Cardinality(S \ {w}) = Off(Cardinality(S))
<1>1. IsFiniteSet({"VU"}) /\ Cardinality({"VU"}) = 1
  BY FS_Singleton
<1>2. IsFiniteSet({"VU"} \union {"GM"}) /\ Cardinality({"VU"} \union {"GM"}) = 1 + 1
  <2>1. "GM" \notin {"VU"}
    OBVIOUS
  <2> QED BY <1>1, <2>1, FS_AddElement
<1>3. MeterWindows = {"VU"} \union {"GM"}
  BY DEF MeterWindows
<1>4. IsFiniteSet(S) /\ Cardinality(S) <= 1 + 1
  <2>1. S \in SUBSET ({"VU"} \union {"GM"})
    BY <1>3
  <2>2. IsFiniteSet(S) /\ Cardinality(S) <= Cardinality({"VU"} \union {"GM"})
    BY <1>2, <2>1, FS_Subset
  <2> QED BY <1>2, <2>2
<1>5. Cardinality(S) \in Nat /\ (Cardinality(S) = 0 <=> S = {})
  BY <1>4, FS_CardinalityType, FS_EmptySet
<1>6. ASSUME NEW w \in MeterWindows, w \notin S
      PROVE  Cardinality(S \union {w}) = Cardinality(S) + 1
  BY <1>4, <1>6, FS_AddElement
<1>7. ASSUME NEW w \in MeterWindows, w \in S
      PROVE  Cardinality(S \ {w}) = Off(Cardinality(S))
  <2>1. Cardinality(S \ {w}) = Cardinality(S) - 1
    BY <1>4, <1>7, FS_RemoveElement
  <2> QED BY <1>5, <1>7, <2>1 DEF Off
<1> QED BY <1>4, <1>5, <1>6, <1>7

LEMMA ButtonKeepsWInv ==
    ASSUME WInv, Running, NEW w \in MeterWindows, NEW fails \in BOOLEAN,
           Meters_button_click(w, w \notin opened, fails)
    PROVE  WInv'
<1> USE DEF Running
<1>1. /\ timers = opened \intersect MeterWindows /\ st = timers
      /\ active = opened /\ oncount = Cardinality(timers)
      /\ timers \in SUBSET MeterWindows /\ opened \in SUBSET Windows
      /\ stale \/ (meters <=> timers # {})
      /\ {meters, stale} \subseteq BOOLEAN /\ saved \in SUBSET Windows
  BY DEF WInv, MetersFollowWindows, CountIsRight
<1>2. CASE w \notin opened
  <2>1. /\ opened' = opened \union {w} /\ timers' = timers \union {w}
        /\ st' = st \union {w} /\ active' = active \union {w}
        /\ SetVUmeters(oncount + 1, fails)
    BY <1>2 DEF Meters_button_click
  <2>2. Cardinality(timers') = oncount + 1 /\ oncount + 1 > 0
    BY <1>1, <1>2, <2>1, MeterCount
  <2>3. /\ timers' \in SUBSET MeterWindows /\ opened' \in SUBSET Windows
        /\ timers' = opened' \intersect MeterWindows /\ timers' # {}
    BY <1>1, <2>1 DEF Windows
  <2> QED BY <1>1, <2>1, <2>2, <2>3
          DEF SetVUmeters, WInv, MetersFollowWindows, CountIsRight
<1>3. CASE w \in opened
  <2>1. /\ opened' = opened \ {w} /\ timers' = timers \ {w}
        /\ st' = st \ {w} /\ active' = active \ {w}
        /\ SetVUmeters(Off(oncount), fails)
    BY <1>3 DEF Meters_button_click
  <2>2. /\ timers' \in SUBSET MeterWindows /\ opened' \in SUBSET Windows
        /\ timers' = opened' \intersect MeterWindows
    BY <1>1, <2>1
  <2>3. Cardinality(timers') = Off(oncount) /\ (Off(oncount) > 0 <=> timers' # {})
    BY <1>1, <1>3, <2>1, <2>2, MeterCount
  <2> QED BY <1>1, <2>1, <2>2, <2>3
          DEF SetVUmeters, WInv, MetersFollowWindows, CountIsRight
<1> QED BY <1>2, <1>3

LEMMA PlainKeepsWInv ==
    ASSUME WInv, NEW w \in PlainWindows, ToggleWindow(w)
    PROVE  WInv'
<1> USE DEF ToggleWindow, Running
<1>1. opened' \in SUBSET Windows
  BY DEF WInv, Windows
<1>2. opened' \intersect MeterWindows = opened \intersect MeterWindows
  BY DEF MeterWindows
<1>3. active' = opened'
  BY DEF WInv, CountIsRight
<1> QED BY <1>1, <1>2, <1>3 DEF WInv, MetersFollowWindows, CountIsRight

LEMMA CloseKeepsWInv ==
    ASSUME WInv, NEW fails \in BOOLEAN, Mainwindow_delete(fails)
    PROVE  WInv' /\ saved' = opened
<1> DEFINE gone == opened \intersect MeterWindows
<1>1. /\ gone = timers /\ st = timers /\ oncount = Cardinality(timers)
      /\ timers \in SUBSET MeterWindows /\ opened \in SUBSET Windows
      /\ stale \/ (meters <=> timers # {})
      /\ {meters, stale} \subseteq BOOLEAN
  BY DEF WInv, MetersFollowWindows, CountIsRight, Mainwindow_delete
<1>2. /\ phase' = "closed" /\ opened' = opened \ gone /\ timers' = timers \ gone
      /\ saved' = st \union (opened \intersect PlainWindows)
      /\ IF gone = {} THEN UNCHANGED <<oncount, meters, stale>>
         ELSE SetVUmeters(IF Cardinality(gone) = 2 THEN Off(Off(oncount))
                          ELSE Off(oncount), fails)
  BY DEF Mainwindow_delete
<1>3. saved' = opened /\ timers' = {} /\ opened' \in SUBSET Windows
      /\ opened' \intersect MeterWindows = {}
  BY <1>1, <1>2 DEF Windows
<1>4. gone # {} => SetVUmeters(0, fails)
  <2>1. oncount = Cardinality(gone) /\ oncount \in Nat /\ oncount <= 2
        /\ (oncount > 0 <=> gone # {})
    BY <1>1, MeterCount
  <2> HIDE DEF gone
  <2> SUFFICES ASSUME gone # {} PROVE SetVUmeters(0, fails)
    OBVIOUS
  <2>2. CASE oncount = 1
    <3>1. SetVUmeters(Off(oncount), fails)
      BY <1>2, <2>1, <2>2
    <3>2. Off(oncount) = 0
      BY <2>2 DEF Off
    <3> QED BY <3>1, <3>2
  <2>3. CASE oncount = 2
    <3>1. SetVUmeters(Off(Off(oncount)), fails)
      BY <1>2, <2>1, <2>3
    <3>2. Off(Off(oncount)) = 0
      BY <2>3 DEF Off
    <3> QED BY <3>1, <3>2
  <2> QED BY <2>1, <2>2, <2>3
<1>5. /\ {meters', stale'} \subseteq BOOLEAN
      /\ stale' \/ ~meters'
  BY <1>1, <1>2, <1>4 DEF SetVUmeters
<1> QED BY <1>1, <1>2, <1>3, <1>5 DEF WInv, MetersFollowWindows, CountIsRight

LEMMA StartKeepsWInv ==
    ASSUME WInv, NEW fails \in BOOLEAN, Start(fails)
    PROVE  WInv' /\ opened' = saved
<1>1. /\ phase # "running" /\ timers = {} /\ saved \in SUBSET Windows
      /\ stale \/ ~meters
      /\ {meters, stale} \subseteq BOOLEAN
  BY DEF Start, WInv, MetersFollowWindows, CountIsRight
<1> DEFINE shown == saved \intersect MeterWindows
<1>2. /\ phase' = "running" /\ active' = saved /\ opened' = saved
      /\ st' = shown /\ timers' = shown /\ saved' = saved
      /\ IF shown = {} THEN oncount' = 0 /\ UNCHANGED <<meters, stale>>
         ELSE /\ oncount' = Cardinality(shown)
              /\ meters' = (~fails \/ meters)
              /\ stale' = fails
  BY DEF Start
<1>3. oncount' = Cardinality(shown)
  BY <1>2, FS_EmptySet
<1>4. shown \in SUBSET MeterWindows
  OBVIOUS
<1>5. /\ {meters', stale'} \subseteq BOOLEAN
      /\ stale' \/ (meters' <=> shown # {})
  BY <1>1, <1>2 DEF WInv
<1> HIDE DEF shown
<1>6. WInv'
  BY <1>1, <1>2, <1>3, <1>4, <1>5
     DEF WInv, MetersFollowWindows, CountIsRight, shown
<1> QED BY <1>2, <1>6

LEMMA WInvSteps ==
    ASSUME WInv, [Next]_vars
    PROVE  /\ WInv'
           /\ phase = "running" /\ phase' = "closed" => saved' = opened
           /\ phase # "running" /\ phase' = "running" => opened' = saved
<1>1. CASE UNCHANGED windowVars
  BY <1>1 DEF windowVars, WInv, MetersFollowWindows, CountIsRight
<1>2. CASE WindowsStep
  <2>1. phase = "running" /\ phase' = "running" /\ active = opened
    BY <1>2 DEF WindowsStep, Button_click, Window_delete, ToggleWindow,
                CloseWindow, Running, WInv, CountIsRight
  <2>2. ASSUME NEW w \in MeterWindows, NEW fails \in BOOLEAN,
               Button_click(w, fails) \/ Window_delete(w, fails)
        PROVE  WInv'
    <3>1. Running /\ Meters_button_click(w, w \notin opened, fails)
      BY <2>1, <2>2 DEF Button_click, Window_delete
    <3> QED BY <3>1, ButtonKeepsWInv
  <2>3. ASSUME NEW w \in PlainWindows, ToggleWindow(w) \/ CloseWindow(w)
        PROVE  WInv'
    BY <2>3, PlainKeepsWInv DEF CloseWindow
  <2> QED BY <1>2, <2>1, <2>2, <2>3 DEF WindowsStep
<1>3. CASE Killed
  <2>1. timers' = {} /\ opened' = {} /\ stale' = TRUE /\ phase' = "killed"
    BY <1>3 DEF Killed
  <2> QED BY <1>3, <2>1 DEF Killed, WInv, MetersFollowWindows, CountIsRight
<1>4. CASE \E fails \in BOOLEAN : Mainwindow_delete(fails)
  BY <1>4, CloseKeepsWInv DEF Mainwindow_delete
<1>5. CASE \E fails \in BOOLEAN : Start(fails)
  BY <1>5, StartKeepsWInv DEF Start
<1>6. CASE UNCHANGED vars
  BY <1>1, <1>6 DEF vars
<1> QED BY <1>1, <1>2, <1>3, <1>4, <1>5, <1>6, Parts

(* The inductive invariant of the windows: SetVUmeters counts the meter    *)
(* windows that exist, and none exists between sessions.                   *)
THEOREM WindowsInvariantCorrect == Spec => []WInv
<1>1. Init => WInv
  BY DEF Init, WindowsInit, WInv, MetersFollowWindows, CountIsRight, Windows
<1>2. WInv /\ [Next]_vars => WInv'
  BY WInvSteps
<1> QED BY <1>1, <1>2, PTL DEF Spec

(* The card measures exactly while a meter window is open, or its last     *)
(* switching is lost, for any other windows and any sequence of sessions.  *)
THEOREM MetersCorrect == Spec => []MetersFollowWindows
<1>1. WInv => MetersFollowWindows
  BY DEF WInv
<1> QED BY <1>1, WindowsInvariantCorrect, PTL

(* What is open when the main window is closed opens in the next session.  *)
THEOREM ComeBackCorrect == Spec => WindowsComeBack
<1> DEFINE A == /\ phase = "running" /\ phase' = "closed" => saved' = opened
                /\ phase # "running" /\ phase' = "running" => opened' = saved
<1>1. WInv /\ [Next]_vars => [A]_windowVars
  BY WInvSteps
<1> QED BY <1>1, WindowsInvariantCorrect, PTL DEF Spec, WindowsComeBack

-----------------------------------------------------------------------------
(* The types.                                                              *)

LEMMA ClockTypes == ClockTypeOK /\ [Next]_vars => ClockTypeOK'
<1> SUFFICES ASSUME ClockTypeOK, [Next]_vars PROVE ClockTypeOK'
  OBVIOUS
<1> USE DEF ClockTypeOK
<1>1. CASE UNCHANGED clockVars
  BY <1>1 DEF clockVars, cardVars, panelVars
<1>2. CASE ClockStep
  <2>1. ASSUME NEW source \in Clocks, PickClock(source) PROVE ClockTypeOK'
    BY <2>1 DEF PickClock, Clock_source_activate
  <2>2. CASE AutoClock_toggled
    BY <2>2 DEF AutoClock_toggled, cardVars
  <2>3. CASE Digital_mode_refused
    BY <2>3 DEF Digital_mode_refused, cardVars
  <2> QED BY <1>2, <2>1, <2>2, <2>3 DEF ClockStep
<1>3. CASE CardStep
  BY <1>3 DEF CardStep, InputsChange, StreamChange, panelVars
<1>4. CASE CheckInputs
  BY <1>4 DEF CheckInputs, Clock_source_activate
<1>5. CASE StartClock /\ UNCHANGED cardVars
  BY <1>5 DEF StartClock, cardVars
<1>6. CASE \E mode \in Modes, keeps \in BOOLEAN : Digital_mode_activate(mode, keeps)
  BY <1>6 DEF Digital_mode_activate
<1>7. CASE UNCHANGED vars
  BY <1>1, <1>7 DEF vars
<1> QED BY <1>1, <1>2, <1>3, <1>4, <1>5, <1>6, <1>7, Parts

LEMMA WindowTypes == WindowsTypeOK /\ WInv /\ [Next]_vars => WindowsTypeOK'
<1> SUFFICES ASSUME WindowsTypeOK, WInv, [Next]_vars PROVE WindowsTypeOK'
  OBVIOUS
<1> USE DEF WindowsTypeOK
<1>1. /\ timers' \in SUBSET MeterWindows /\ opened' \in SUBSET Windows
      /\ saved' \in SUBSET Windows /\ {meters', stale'} \subseteq BOOLEAN
      /\ CountIsRight'
  BY WInvSteps DEF WInv
<1>2. ASSUME phase' = "running" PROVE WindowsTypeOK'
  <2>1. Cardinality(timers') \in 0..2
    BY <1>1, MeterCount
  <2> QED BY <1>1, <1>2, <2>1 DEF CountIsRight
<1>3. ASSUME UNCHANGED windowVars PROVE WindowsTypeOK'
  BY <1>3 DEF windowVars
<1>4. CASE WindowsStep
  <2>1. phase' = "running"
    BY <1>4 DEF WindowsStep, Button_click, Window_delete, ToggleWindow,
                CloseWindow, Running
  <2> QED BY <1>2, <2>1
<1>5. CASE Killed
  BY <1>1, <1>5 DEF Killed
<1>6. ASSUME NEW fails \in BOOLEAN, Mainwindow_delete(fails) PROVE WindowsTypeOK'
  <2>1. phase' = "closed" /\ UNCHANGED <<active, st>>
    BY <1>6 DEF Mainwindow_delete
  <2>2. /\ Off(oncount) \in 0..2 /\ Off(Off(oncount)) \in 0..2
    BY DEF Off
  <2>3. oncount' \in {oncount, Off(oncount), Off(Off(oncount))}
    BY <1>6 DEF Mainwindow_delete, SetVUmeters
  <2> QED BY <1>1, <2>1, <2>2, <2>3
<1>7. ASSUME NEW fails \in BOOLEAN, Start(fails) PROVE WindowsTypeOK'
  BY <1>2, <1>7 DEF Start
<1>8. CASE UNCHANGED vars
  BY <1>3, <1>8 DEF vars
<1> QED BY <1>3, <1>4, <1>5, <1>6, <1>7, <1>8, Parts

(* Every variable keeps its type, for any cards, windows and clocks.       *)
THEOREM TypeCorrect == Spec => []TypeOK
<1>1. Init => WindowsTypeOK /\ ClockTypeOK
  <2>1. WindowsInit => WindowsTypeOK
    <3>1. {} \in SUBSET MeterWindows /\ {} \in SUBSET Windows
          /\ Windows \in SUBSET Windows
      OBVIOUS
    <3>2. ASSUME WindowsInit PROVE {active, opened, saved} \subseteq SUBSET Windows
      BY <3>1, <3>2, Zenon DEF WindowsInit
    <3>3. ASSUME WindowsInit PROVE {st, timers} \subseteq SUBSET MeterWindows
      BY <3>1, <3>3, Zenon DEF WindowsInit
    <3>4. ASSUME WindowsInit
          PROVE  /\ phase \in {"running", "closed", "killed"}
                 /\ oncount \in 0..2 /\ {meters, stale} \subseteq BOOLEAN
      <4>1. phase = "closed" /\ oncount = 0 /\ meters = FALSE /\ stale = FALSE
        BY <3>4, Zenon DEF WindowsInit
      <4>2. oncount \in 0..2
        BY <4>1
      <4> QED BY <4>1, <4>2, Zenon
    <3> QED BY <3>2, <3>3, <3>4, Zenon DEF WindowsTypeOK
  <2>2. ClockInit => ClockTypeOK
    BY DEF ClockInit, ClockTypeOK
  <2> QED BY <2>1, <2>2 DEF Init
<1>2. WindowsTypeOK /\ ClockTypeOK /\ WInv /\ [Next]_vars
      => (WindowsTypeOK /\ ClockTypeOK)'
  BY WindowTypes, ClockTypes
<1>3. GInv /\ WindowsTypeOK /\ ClockTypeOK => TypeOK
  BY GInvTypeOK DEF TypeOK
<1> QED BY <1>1, <1>2, <1>3, GainsCorrect, WindowsInvariantCorrect, PTL DEF Spec
=============================================================================
