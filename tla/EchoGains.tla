------------------------------ MODULE EchoGains ------------------------------
(***************************************************************************)
(* The gains of allstar_bins/echomixer.c, a mixer panel for sound cards:   *)
(* what the program stores, what it writes to the card, and the selection  *)
(* and mouse state its event handlers share.                               *)
(*                                                                         *)
(* A control is <<kind, channel, input>>; input is 0 except in the two     *)
(* matrices.  The sliders of a matrix show one input at a time, and a GTK  *)
(* slider calls its handler when its value changes, whoever changes it.    *)
(* On a card without line-out volume (lineoutId = 0) the program emulates  *)
(* it: the card gets every gain plus the line-out gain of its output.      *)
(* With Gang on, what is done to a channel is done to its neighbour too.   *)
(***************************************************************************)
EXTENDS Integers, FiniteSets

CONSTANTS
    Cards,      \* what OpenControls may find
    Gains       \* slider positions, in dB

Matrices == {"mixer", "vmixer"}
Kinds    == Matrices \union {"pcm", "linein", "nominal", "lineout"}

(* kinds: the controls of the card; "lineout" if it has that volume itself. *)
(* spdifIns, spdifOuts: channels that work outside ADAT mode, fdIn + 2 and  *)
(* fdOut + 2.  refuses: another program may lock its controls.              *)
CardType == [kinds : SUBSET Kinds, ins : Nat, outs : Nat, vouts : Nat,
             spdifIns : Nat, spdifOuts : Nat, refuses : BOOLEAN]

(* Channels come in pairs, and the S/PDIF pair works in any mode.  A card   *)
(* with a mixer has inputs to mix.                                         *)
ASSUME CardsAssumption ==
    \A c \in Cards :
        /\ c \in CardType
        /\ \A n \in {c.ins, c.outs, c.vouts, c.spdifIns, c.spdifOuts} : n % 2 = 0
        /\ c.spdifIns <= c.ins /\ c.spdifOuts <= c.outs /\ c.spdifOuts > 0
        /\ "mixer" \in c.kinds => c.spdifIns > 0
        /\ "vmixer" \in c.kinds => c.vouts > 0
        /\ "pcm" \in c.kinds => "vmixer" \notin c.kinds /\ c.vouts = c.outs
ASSUME GainsAssumption == Gains \subseteq -128..6

VARIABLES
    card,
    gain,       \* gain[x], what the program stores (Gain, Level)
    hw,         \* hw[x], what the card has
    slider,     \* slider[x], where the slider of a line input stands
    Gang,
    sel,        \* sel[m], the selected input and output of a matrix
    adat,       \* GMixerSection.Inputs and Outputs include the ADAT channels
    mouse,      \* GMixerRow, GMixerColumn and mouseButton
    pressed,    \* button 1 is held over the grid
    refused     \* writes to the card fail

gainVars == <<card, gain, hw, slider, Gang, sel, adat, mouse, pressed, refused>>

Channels(n) == 0..(n - 1)
Outs   == Channels(card.outs)
Inputs(m) == Channels(IF m = "mixer" THEN card.ins ELSE card.vouts)
Has(m) == m \in card.kinds

Pair(n) == IF n % 2 = 0 THEN n + 1 ELSE n - 1
Partner(x) == <<x[1], Pair(x[2]), IF x[1] \in Matrices THEN Pair(x[3]) ELSE 0>>

LineOut(o) == <<"lineout", o, 0>>
Cells(m)   == IF Has(m) THEN {m} \X Outs \X Inputs(m) ELSE {}
Single(k, n) == IF Has(k) THEN {k} \X Channels(n) \X {0} ELSE {}
Volumes  == Single("pcm", card.vouts) \union Single("linein", card.ins)
Nominals == Single("nominal", card.ins)
LineOuts == {LineOut(o) : o \in Outs}
LineIns  == Single("linein", card.ins)
Emulated == ~Has("lineout")

Mixed    == Cells("mixer") \union Cells("vmixer")
OnCard   == Mixed \union Volumes \union Nominals
                  \union (IF Emulated THEN {} ELSE LineOuts)
Controls == OnCard \union LineOuts

-----------------------------------------------------------------------------
(* Gain arithmetic.  -128 dB is silence and absorbs.                       *)
MinOut == -128
MaxOut == 6
Add_dB(a, b) ==
    IF a = MinOut \/ b = MinOut \/ a + b < MinOut THEN MinOut ELSE a + b
(* Mutant of ClampOutputVolume: loud gains are not clamped. *)
ClampOutputVolumeBelow(v) == IF v < MinOut THEN MinOut ELSE v
ClampOutputVolume(v) ==
    IF v > MaxOut THEN MaxOut ELSE IF v < MinOut THEN MinOut ELSE v

(* What the card must have for gain v of a control of output o. *)
Level(g, kind, o, v) ==
    IF Emulated /\ kind \in Matrices \union {"pcm"}
    THEN ClampOutputVolume(Add_dB(v, g[LineOut(o)]))
    ELSE v
Effective(g, x) == Level(g, x[1], x[2], g[x])

(* Mutant of MovedGain: the neighbour is written in the same output. *)
MovedGainSameOutput(g, m, i, moved, gang) ==
    [x \in DOMAIN g |->
        IF x[1] = m /\ x[3] = i /\ x[2] \in DOMAIN moved THEN moved[x[2]]
        ELSE IF gang /\ x[1] = m /\ x[3] = Pair(i) /\ x[2] \in DOMAIN moved
        THEN moved[x[2]] ELSE g[x]]

(* Monitor_volume_changed and Vmixer_volume_changed, for the outputs whose *)
(* sliders move while input i is shown: moved[o] is the new gain.  The     *)
(* neighbour gets the same gain and the same value for the card.           *)
MovedGain(g, m, i, moved, gang) ==
    [x \in DOMAIN g |->
        IF x[1] = m /\ x[3] = i /\ x[2] \in DOMAIN moved THEN moved[x[2]]
        ELSE IF gang /\ x[1] = m /\ x[3] = Pair(i) /\ Pair(x[2]) \in DOMAIN moved
        THEN moved[Pair(x[2])] ELSE g[x]]
MovedHw(h, g, m, i, moved, gang) ==
    [x \in DOMAIN h |->
        IF x[1] = m /\ x[3] = i /\ x[2] \in DOMAIN moved
        THEN Level(g, m, x[2], moved[x[2]])
        ELSE IF gang /\ x[1] = m /\ x[3] = Pair(i) /\ Pair(x[2]) \in DOMAIN moved
        THEN Level(g, m, Pair(x[2]), moved[Pair(x[2])]) ELSE h[x]]

(* UpdatePCMVolume, UpdateMixerVolume and UpdateVMixerVolume. *)
UpdatedHw(h, g, O) ==
    [x \in DOMAIN h |->
        IF x[1] \in Matrices \union {"pcm"} /\ x[2] \in O
        THEN Effective(g, x) ELSE h[x]]

(* Mutant of LineOutHw: UpdateMixerVolume is not called. *)
LineOutHwPcmOnly(h, g, O) ==
    IF Emulated
    THEN [x \in DOMAIN h |-> IF x[1] = "pcm" /\ x[2] \in O
                             THEN Effective(g, x) ELSE h[x]]
    ELSE [x \in DOMAIN h |->
            IF x[1] = "lineout" /\ x[2] \in O THEN g[x] ELSE h[x]]

(* The line-out handler of the outputs O. *)
LineOutHw(h, g, O) ==
    IF Emulated THEN UpdatedHw(h, g, O)
    ELSE [x \in DOMAIN h |->
            IF x[1] = "lineout" /\ x[2] \in O THEN g[x] ELSE h[x]]

(* The handlers of single volumes and switches X. *)
VolumeHw(h, g, X) ==
    [x \in DOMAIN h |-> IF x \in X THEN Effective(g, x) ELSE h[x]]

Written(h) == hw' = IF refused THEN hw ELSE h

-----------------------------------------------------------------------------
(* Start.  The file of the last session, or else what the card has, is     *)
(* shown slider by slider with Gang off; each slider that thereby moves    *)
(* writes.  Those of a matrix start at 0, which shows as -122 dB.          *)
Shown(g, m) == [o \in {o \in Outs : Has(m) /\ g[<<m, o, 0>>] # -122}
                |-> g[<<m, o, 0>>]]
StartedHw(g, h) ==
    LET h1 == VolumeHw(h, g, Volumes \union Nominals)
        h2 == LineOutHw(h1, g, Outs)
        h3 == MovedHw(h2, g, "mixer", 0, Shown(g, "mixer"), FALSE)
    IN  MovedHw(h3, g, "vmixer", 0, Shown(g, "vmixer"), FALSE)

(* Without digital modes, or channels of ADAT only, all channels work. *)
HasAdat == card.spdifIns < card.ins \/ card.spdifOuts < card.outs

FirstSelection == [m \in Matrices |-> [input |-> 0, output |-> 0]]
MouseUp == [row |-> 0, column |-> 0, down |-> FALSE]

(* Line inputs go from -25 to 25 dB in steps of 0.5 dB; a nominal level is *)
(* on or off.  Sliders keep their values in range.                         *)
MinInp == -50
MaxInp == 50
Position(x, v) ==
    IF x[1] = "nominal" THEN IF v < 0 THEN 0 ELSE 1
    ELSE IF x[1] # "linein" THEN v
    ELSE IF v > MaxInp THEN MaxInp ELSE IF v < MinInp THEN MinInp ELSE v

(* Without a file, gains are read back and the emulated line-outs are 0 dB. *)
ReadBack(h) ==
    [x \in Controls |-> IF x \in DOMAIN h THEN h[x] ELSE 0]

GainsInit ==
    /\ card \in Cards
    /\ \E old, v \in Gains, file \in BOOLEAN :
          LET h == [x \in OnCard |-> Position(x, old)]
              g == IF file THEN [x \in Controls |-> Position(x, v)] ELSE ReadBack(h)
          IN  /\ gain = g
              /\ hw = StartedHw(g, h)
              /\ slider = [x \in LineIns |-> g[x]]
    /\ Gang = TRUE /\ sel = FirstSelection
    /\ adat \in BOOLEAN /\ (~HasAdat => adat)
    /\ mouse = MouseUp /\ pressed = FALSE /\ refused = FALSE

(* Closing the main window saves every gain; the next session loads them   *)
(* and finds out whether the ADAT channels work.                           *)
RestartGains(enable) ==
    /\ ~pressed
    /\ Written(StartedHw(gain, hw))
    /\ slider' = [x \in LineIns |-> gain[x]]
    /\ Gang' = TRUE /\ sel' = FirstSelection
    /\ mouse' = MouseUp /\ adat' = enable
    /\ UNCHANGED <<card, gain, pressed, refused>>

-----------------------------------------------------------------------------
(* Sliders. *)
MoveCell(m, o, v) ==
    /\ v # gain[<<m, o, sel[m].input>>]
    /\ LET moved == [c \in {o} |-> v]
       IN  /\ gain' = MovedGain(gain, m, sel[m].input, moved, Gang)
           /\ Written(MovedHw(hw, gain, m, sel[m].input, moved, Gang))
    /\ UNCHANGED slider

MoveLineOut(o, v) ==
    /\ v # gain[LineOut(o)]
    /\ LET O == {o} \union {p \in {Pair(o)} : Gang /\ gain[LineOut(p)] # v}
       IN  /\ gain' = [x \in DOMAIN gain |->
                          IF x[1] = "lineout" /\ x[2] \in O THEN v ELSE gain[x]]
           /\ Written(LineOutHw(hw, gain', O))
    /\ UNCHANGED slider

Idle == ~pressed /\ UNCHANGED <<card, Gang, adat, mouse, pressed, refused>>
User == Idle /\ UNCHANGED sel

Monitor_volume_changed(o, v) == Has("mixer")  /\ User /\ MoveCell("mixer", o, v)
Vmixer_volume_changed(o, v)  == Has("vmixer") /\ User /\ MoveCell("vmixer", o, v)
LineOut_volume_changed(o, v) == User /\ MoveLineOut(o, v)

(* Only a line input keeps its stored gain when the write fails. *)
PCM_volume_changed(x, db) ==
    LET v == Position(x, db)
        Shows(y) == IF y \in LineIns THEN slider[y] ELSE gain[y]
        X == {x} \union {y \in {Partner(x)} : Gang /\ Shows(y) # v}
    IN  /\ User
        /\ v # Shows(x)
        /\ gain' = [y \in DOMAIN gain |->
                      IF y \in X /\ ~(refused /\ y \in LineIns) THEN v ELSE gain[y]]
        /\ slider' = [y \in LineIns |-> IF y \in X THEN v ELSE slider[y]]
        /\ Written(VolumeHw(hw, gain', X))

Nominal_level_toggled(x) ==
    LET v == 1 - gain[x]
        X == {x} \union {y \in {Partner(x)} : Gang /\ gain[y] # v}
    IN  /\ User
        /\ gain' = [y \in DOMAIN gain |-> IF y \in X THEN v ELSE gain[y]]
        /\ Written(VolumeHw(hw, gain', X))
        /\ UNCHANGED slider

Gang_button_toggled ==
    /\ ~pressed /\ Gang' = ~Gang
    /\ UNCHANGED <<card, gain, hw, slider, sel, adat, mouse, pressed, refused>>

(* Selection.  Showing another input moves the sliders of the outputs      *)
(* whose gains differ, and each of them writes like a slider of the user.  *)

(* Mutant of SelectInput: the selection is stored after the sliders move. *)
SelectInputLate(m, i) ==
    LET old   == sel[m].input
        moved == [o \in {o \in Outs : gain[<<m, o, i>>] # gain[<<m, o, old>>]}
                  |-> gain[<<m, o, i>>]]
    IN  /\ gain' = MovedGain(gain, m, old, moved, Gang)
        /\ Written(MovedHw(hw, gain, m, old, moved, Gang))
SelectInput(m, i) ==
    LET old   == sel[m].input
        moved == [o \in {o \in Outs : gain[<<m, o, i>>] # gain[<<m, o, old>>]}
                  |-> gain[<<m, o, i>>]]
    IN  /\ gain' = MovedGain(gain, m, i, moved, Gang)
        /\ Written(MovedHw(hw, gain, m, i, moved, Gang))

Enabled(i) == adat \/ i < card.spdifIns

Mixer_Input_selector_clicked(i) ==
    /\ Has("mixer") /\ Enabled(i) /\ i # sel["mixer"].input
    /\ Idle
    /\ SelectInput("mixer", i)
    /\ sel' = [sel EXCEPT !["mixer"].input = i]
    /\ UNCHANGED slider

Vmixer_vchannel_selector_clicked(i) ==
    /\ Has("vmixer") /\ i # sel["vmixer"].input
    /\ Idle
    /\ SelectInput("vmixer", i)
    /\ sel' = [sel EXCEPT !["vmixer"].input = i]
    /\ UNCHANGED slider

(* Monitor_volume_clicked and Vmixer_volume_clicked: a slider has the focus. *)
Volume_clicked(m, o) ==
    /\ Has(m) /\ Idle /\ o # sel[m].output
    /\ adat \/ o < card.spdifOuts
    /\ sel' = [sel EXCEPT ![m].output = o]
    /\ UNCHANGED <<gain, hw, slider>>

(* SetSensitivity, called when the digital mode has changed: leaving ADAT  *)
(* moves the selection off the channels that no longer work.               *)
SetSensitivity(enable) ==
    /\ ~pressed /\ adat' = enable
    /\ LET leaves == /\ Has("mixer") /\ ~enable
                     /\ sel["mixer"].input >= card.spdifIns
           In(m)  == IF m = "mixer" /\ leaves THEN 0 ELSE sel[m].input
           Out(m) == IF ~enable /\ sel[m].output >= card.spdifOuts
                     THEN 0 ELSE sel[m].output
       IN  /\ IF leaves THEN SelectInput("mixer", 0) ELSE UNCHANGED <<gain, hw>>
           /\ sel' = [m \in Matrices |-> [input |-> In(m), output |-> Out(m)]]
    /\ UNCHANGED <<card, slider, Gang, mouse, pressed, refused>>

-----------------------------------------------------------------------------
(* The graphic mixer: a grid with a row for each input, virtual channel    *)
(* and, last, the line-outs, and a column for each output.                 *)
VmixerFirst == card.ins
LineOutRow  == card.ins + (IF Has("vmixer") THEN card.vouts ELSE 0)
(* Mutant of GMInputs: a change of the digital mode leaves the grid alone. *)
GMInputsAll == card.ins
GMInputs    == IF adat THEN card.ins ELSE card.spdifIns
GMOutputs   == IF adat THEN card.outs ELSE card.spdifOuts
Rows        == 0..LineOutRow
RowMatrix(r) == IF r < VmixerFirst THEN "mixer" ELSE "vmixer"
RowInput(r)  == IF r < VmixerFirst THEN r ELSE r - VmixerFirst

(* A press selects its cell; first says whether it is button 1. *)
Gmixer_button_press(r, c, first) ==
    LET m == RowMatrix(r)
        selects == c \in Channels(GMOutputs) /\ r < LineOutRow
    IN  /\ Has("mixer") /\ ~pressed
        /\ IF selects /\ RowInput(r) # sel[m].input
           THEN SelectInput(m, RowInput(r)) ELSE UNCHANGED <<gain, hw>>
        /\ sel' = IF selects
                  THEN [sel EXCEPT ![m] = [input |-> RowInput(r), output |-> c]]
                  ELSE sel
        /\ LET down == mouse.down \/ (first /\ c \in Channels(GMOutputs))
           IN  mouse' = IF first THEN [row |-> r, column |-> c, down |-> down]
                        ELSE [MouseUp EXCEPT !.down = down]
        /\ pressed' = first
        /\ UNCHANGED <<card, slider, Gang, adat, refused>>

(* The release may fall in another window and be missed.  The next press   *)
(* overwrites the cell, and nothing reads it before.                       *)
Gmixer_button_release(missed) ==
    /\ pressed /\ pressed' = FALSE
    /\ mouse' = [MouseUp EXCEPT !.down = missed /\ mouse.down]
    /\ UNCHANGED <<card, gain, hw, slider, Gang, sel, adat, refused>>

(* A motion moves the selected cell, or the line-out of the column. *)
Gmixer_motion_notify(v) ==
    LET r == mouse.row
        m == RowMatrix(r)
        ignored == ~pressed \/ ~mouse.down
                   \/ mouse.column \notin Channels(GMOutputs)
    IN  /\ UNCHANGED <<card, Gang, sel, adat, pressed, refused>>
        /\ mouse' = IF ignored THEN [mouse EXCEPT !.down = FALSE] ELSE mouse
        /\ \/ ignored /\ UNCHANGED <<gain, hw, slider>>
           \/ /\ ~ignored
              /\ r < GMInputs \/ r \in VmixerFirst..(LineOutRow - 1)
              /\ MoveCell(m, sel[m].output, v)
           \/ ~ignored /\ r = LineOutRow /\ MoveLineOut(mouse.column, v)

(* Another program locks and unlocks the controls. *)
LockControls ==
    /\ card.refuses /\ refused' = ~refused
    /\ UNCHANGED <<card, gain, hw, slider, Gang, sel, adat, mouse, pressed>>

GainsStep ==
    \/ \E v \in Gains :
          \/ \E o \in Outs : \/ Monitor_volume_changed(o, v)
                             \/ Vmixer_volume_changed(o, v)
                             \/ LineOut_volume_changed(o, v)
          \/ \E x \in Volumes : PCM_volume_changed(x, v)
          \/ Gmixer_motion_notify(v)
    \/ \E x \in Nominals : Nominal_level_toggled(x)
    \/ Gang_button_toggled
    \/ \E i \in Inputs("mixer") : Mixer_Input_selector_clicked(i)
    \/ \E i \in Inputs("vmixer") : Vmixer_vchannel_selector_clicked(i)
    \/ \E m \in Matrices, o \in Outs : Volume_clicked(m, o)
    \/ \E r \in Rows, c \in Outs \union {-1}, first \in BOOLEAN :
          Gmixer_button_press(r, c, first)
    \/ \E missed \in BOOLEAN : Gmixer_button_release(missed)
    \/ LockControls

-----------------------------------------------------------------------------
Positions(x) == IF x[1] = "linein" THEN MinInp..MaxInp
                ELSE IF x[1] = "nominal" THEN {0, 1} ELSE MinOut..MaxOut
GainsTypeOK ==
    /\ card \in Cards
    /\ DOMAIN gain = Controls /\ DOMAIN hw = OnCard
    /\ \A x \in Controls : gain[x] \in Positions(x)
    /\ \A x \in OnCard : hw[x] \in Positions(x)
    /\ slider \in [LineIns -> MinInp..MaxInp]
    /\ \A m \in Matrices : Has(m) => /\ sel[m].input \in Inputs(m)
                                     /\ sel[m].output \in Outs
    /\ mouse \in [row : Rows, column : Outs \union {-1}, down : BOOLEAN]
    /\ {Gang, adat, pressed, refused} \subseteq BOOLEAN

(* The card does what the panel shows: once a control has the value that   *)
(* its stored gain asks for, only two things set them apart.  Another      *)
(* program's lock does, except for line inputs.  And on a card with        *)
(* emulated line-outs Gang does, since the neighbour's value is computed   *)
(* with the line-out gain of the channel moved.                            *)
Synced(x) == hw[x] = Effective(gain, x)
DriftNeedsGang ==
    [][\A x \in OnCard : Synced(x) /\ ~Synced(x)' =>
          \/ refused /\ x[1] # "linein"
          \/ /\ Gang /\ Emulated /\ x[1] \in Matrices
             /\ gain[LineOut(x[2])] # gain[LineOut(Pair(x[2]))]]_gainVars

(* Gang keeps pairs together: when the two channels of every pair agree,   *)
(* in what is stored and what is shown, no handler run with Gang on - nor  *)
(* a selection, a drag, a failed write or a restart - sets a pair apart.   *)
PairsEqual == /\ \A x \in Controls : gain[x] = gain[Partner(x)]
              /\ \A x \in LineIns : slider[x] = slider[Partner(x)]
PairsStayEqual == [][Gang /\ PairsEqual => PairsEqual']_gainVars

(* Selecting is not mixing: with Gang off, what selects another input or   *)
(* output - a selector, a press in the grid, a change of the digital mode  *)
(* or a restart - changes no gain, although it moves sliders whose handler *)
(* stores what they show.                                                  *)
SelectionKeepsGains == [][~Gang /\ sel' # sel => gain' = gain]_gainVars

(* A drag in the grid changes no gain of a channel that the digital mode   *)
(* disables, whatever was pressed, selected and switched before it.        *)
EnabledControl(x) ==
    /\ adat \/ x[2] < card.spdifOuts
    /\ x[1] = "mixer" => Enabled(x[3])
DragsEnabledOnly ==
    [][pressed /\ pressed' =>
          \A x \in Controls : gain'[x] # gain[x] => EnabledControl(x)]_gainVars
=============================================================================
