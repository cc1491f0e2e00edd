--------------------------- MODULE EchoGainsProofs ---------------------------
(***************************************************************************)
(* Lemmas about EchoGains for any card and any slider positions: what each *)
(* handler keeps.  EchomixerProofs turns them into theorems of the whole   *)
(* program.                                                                *)
(***************************************************************************)
EXTENDS EchoGains, TLAPS

USE CardsAssumption, GainsAssumption

GainsNext == GainsStep \/ \E enable \in BOOLEAN :
                             RestartGains(enable) \/ SetSensitivity(enable)

-----------------------------------------------------------------------------
(* Controls and pairs. *)

LEMMA CardFacts ==
    ASSUME card \in Cards
    PROVE  /\ card.ins \in Nat /\ card.outs \in Nat /\ card.vouts \in Nat
           /\ card.spdifIns \in Nat /\ card.spdifOuts \in Nat
           /\ card.ins % 2 = 0 /\ card.outs % 2 = 0 /\ card.vouts % 2 = 0
           /\ card.spdifIns % 2 = 0 /\ card.spdifOuts % 2 = 0
           /\ card.spdifIns <= card.ins /\ card.spdifOuts <= card.outs
           /\ card.outs > 0 /\ card.spdifOuts > 0
           /\ Has("mixer") => card.spdifIns > 0 /\ card.ins > 0
           /\ Has("vmixer") => card.vouts > 0
           /\ Has("pcm") => card.vouts = card.outs
  BY DEF CardType, Has

LEMMA PairFacts ==
    ASSUME NEW n \in Nat
    PROVE  /\ Pair(n) \in Nat /\ Pair(Pair(n)) = n /\ Pair(n) # n
           /\ \A k \in Nat : k % 2 = 0 /\ n < k => Pair(n) < k
  BY DEF Pair

LEMMA PairChannel ==
    ASSUME NEW k \in Nat, k % 2 = 0, NEW n \in Channels(k)
    PROVE  Pair(n) \in Channels(k)
  BY PairFacts DEF Channels

LEMMA ControlShape ==
    ASSUME card \in Cards, NEW x \in Controls
    PROVE  /\ x = <<x[1], x[2], x[3]>>
           /\ x[1] \in Kinds /\ x[2] \in Nat /\ x[3] \in Nat
           /\ x[1] \in Matrices => /\ Has(x[1]) /\ x[2] \in Outs
                                   /\ x[3] \in Inputs(x[1])
           /\ x[1] \notin Matrices => x[3] = 0
           /\ x[1] = "pcm" => Has("pcm") /\ x[2] \in Channels(card.vouts)
           /\ x[1] \in {"linein", "nominal"} =>
                 Has(x[1]) /\ x[2] \in Channels(card.ins)
           /\ x[1] = "lineout" => x[2] \in Outs
<1> USE CardFacts DEF Channels, Outs, Inputs, Kinds, Matrices
<1>1. CASE x \in Cells("mixer")
  BY <1>1 DEF Cells
<1>2. CASE x \in Cells("vmixer")
  BY <1>2 DEF Cells
<1>3. CASE x \in Single("pcm", card.vouts)
  BY <1>3 DEF Single
<1>4. CASE x \in Single("linein", card.ins)
  BY <1>4 DEF Single
<1>5. CASE x \in Single("nominal", card.ins)
  BY <1>5 DEF Single
<1>6. CASE x \in LineOuts
  BY <1>6 DEF LineOuts, LineOut
<1> QED BY <1>1, <1>2, <1>3, <1>4, <1>5, <1>6
        DEF Controls, OnCard, Mixed, Volumes, Nominals

LEMMA ControlMember ==
    ASSUME card \in Cards, NEW n \in Nat, NEW i \in Nat
    PROVE  /\ \A m \in Matrices : Has(m) /\ n \in Outs /\ i \in Inputs(m)
                                  => <<m, n, i>> \in Mixed
           /\ Has("pcm") /\ n \in Channels(card.vouts)
                 => <<"pcm", n, 0>> \in Volumes
           /\ Has("linein") /\ n \in Channels(card.ins)
                 => <<"linein", n, 0>> \in LineIns \intersect Volumes
           /\ Has("nominal") /\ n \in Channels(card.ins)
                 => <<"nominal", n, 0>> \in Nominals
           /\ n \in Outs => LineOut(n) \in LineOuts
           /\ LineIns \subseteq Volumes
           /\ Mixed \union Volumes \union Nominals \subseteq OnCard
           /\ OnCard \union LineOuts = Controls
           /\ ~Emulated => LineOuts \subseteq OnCard
           /\ Emulated => \A x \in OnCard : x[1] # "lineout"
<1>1. \A m \in Matrices : Has(m) /\ n \in Outs /\ i \in Inputs(m)
         => <<m, n, i>> \in Mixed
  BY DEF Matrices, Mixed, Cells
<1>2. /\ Has("pcm") /\ n \in Channels(card.vouts) => <<"pcm", n, 0>> \in Volumes
      /\ Has("linein") /\ n \in Channels(card.ins)
            => <<"linein", n, 0>> \in LineIns \intersect Volumes
      /\ Has("nominal") /\ n \in Channels(card.ins)
            => <<"nominal", n, 0>> \in Nominals
      /\ n \in Outs => LineOut(n) \in LineOuts
  BY DEF Volumes, LineIns, Nominals, Single, LineOuts
<1>3. /\ LineIns \subseteq Volumes
      /\ Mixed \union Volumes \union Nominals \subseteq OnCard
      /\ OnCard \union LineOuts = Controls
      /\ ~Emulated => LineOuts \subseteq OnCard
  BY DEF LineIns, Volumes, OnCard, Controls
<1>4. ASSUME Emulated, NEW x \in OnCard PROVE x[1] # "lineout"
  BY <1>4 DEF OnCard, Mixed, Cells, Volumes, Nominals, Single
<1> QED BY <1>1, <1>2, <1>3, <1>4

LEMMA LineInControl ==
    ASSUME card \in Cards, NEW x \in Controls
    PROVE  x \in LineIns <=> x[1] = "linein"
<1>1. ASSUME x \in LineIns PROVE x[1] = "linein"
  BY <1>1 DEF LineIns, Single
<1>2. ASSUME x[1] = "linein" PROVE x \in LineIns
  <2>1. x = <<"linein", x[2], 0>> /\ x[2] \in Nat
        /\ Has("linein") /\ x[2] \in Channels(card.ins)
    BY <1>2, ControlShape DEF Matrices
  <2> QED BY <2>1, ControlMember
<1> QED BY <1>1, <1>2

LEMMA LineOutControl ==
    ASSUME card \in Cards, NEW o \in Outs
    PROVE  LineOut(o) \in Controls /\ LineOut(o) \notin LineIns
<1>1. LineOut(o) \in Controls
  BY DEF Controls, LineOuts
<1> QED BY <1>1, LineInControl DEF LineOut

LEMMA OnCardControl ==
    ASSUME card \in Cards, NEW x \in Controls
    PROVE  x \in OnCard <=> x[1] # "lineout" \/ ~Emulated
<1>1. ASSUME x[1] # "lineout" PROVE x \in OnCard
  BY <1>1 DEF Controls, LineOuts, LineOut
<1> QED BY <1>1, ControlMember DEF Controls

LEMMA PartnerControl ==
    ASSUME card \in Cards, NEW x \in Controls
    PROVE  /\ Partner(x) \in Controls /\ Partner(Partner(x)) = x
           /\ Partner(x)[1] = x[1] /\ Partner(x)[2] = Pair(x[2])
           /\ x[1] \in Matrices => Partner(x)[3] = Pair(x[3])
           /\ Partner(x) \in LineIns <=> x \in LineIns
           /\ Partner(x) # x
<1>1. /\ x = <<x[1], x[2], x[3]>> /\ x[1] \in Kinds /\ x[2] \in Nat /\ x[3] \in Nat
      /\ Partner(x)[1] = x[1] /\ Partner(x)[2] = Pair(x[2])
      /\ x[1] \in Matrices => Partner(x)[3] = Pair(x[3])
      /\ x[1] \notin Matrices => x[3] = 0 /\ Partner(x)[3] = 0
  BY ControlShape DEF Partner
<1>2. Pair(x[2]) \in Nat /\ Pair(x[3]) \in Nat /\ Pair(x[2]) # x[2]
      /\ Pair(Pair(x[2])) = x[2] /\ Pair(Pair(x[3])) = x[3]
  BY <1>1, PairFacts
<1>3. Partner(Partner(x)) = x
  BY <1>1, <1>2 DEF Partner
<1>4. Partner(x) = <<x[1], Pair(x[2]), IF x[1] \in Matrices THEN Pair(x[3]) ELSE 0>>
  BY DEF Partner
<1>5. CASE x[1] \in Matrices
  <2>1. Has(x[1]) /\ Pair(x[2]) \in Outs /\ Pair(x[3]) \in Inputs(x[1])
    BY <1>5, ControlShape, CardFacts, PairChannel DEF Outs, Inputs
  <2>2. Partner(x) \in Controls
    BY <1>2, <1>4, <1>5, <2>1, ControlMember
  <2> QED BY <1>1, <1>2, <1>3, <2>2, LineInControl
<1>6. CASE x[1] \in {"pcm", "linein", "nominal"}
  <2>1. /\ Has(x[1]) /\ x[1] \notin Matrices
        /\ x[1] = "pcm" => Pair(x[2]) \in Channels(card.vouts)
        /\ x[1] # "pcm" => Pair(x[2]) \in Channels(card.ins)
    BY <1>6, ControlShape, CardFacts, PairChannel DEF Matrices
  <2>2. Partner(x) \in Controls
    BY <1>2, <1>4, <1>6, <2>1, ControlMember
  <2> QED BY <1>1, <1>2, <1>3, <2>2, LineInControl
<1>7. CASE x[1] = "lineout"
  <2>1. Pair(x[2]) \in Outs /\ x[1] \notin Matrices
    BY <1>7, ControlShape, CardFacts, PairChannel DEF Outs, Matrices
  <2>2. Partner(x) = LineOut(Pair(x[2]))
    BY <1>4, <1>7, <2>1 DEF LineOut
  <2>3. Partner(x) \in Controls
    BY <1>2, <2>1, <2>2, ControlMember
  <2> QED BY <1>1, <1>2, <1>3, <2>3, LineInControl
<1> QED BY <1>1, <1>5, <1>6, <1>7 DEF Kinds

-----------------------------------------------------------------------------
(* What is stored and what is written stays in range. *)

Stored(g) == /\ g = [x \in Controls |-> g[x]]
             /\ \A x \in Controls : g[x] \in Positions(x)
OnTheCard(h) == /\ h = [x \in OnCard |-> h[x]]
                /\ \A x \in OnCard : h[x] \in Positions(x)
Moves(moved) == \A o \in DOMAIN moved : o \in Outs /\ moved[o] \in MinOut..MaxOut

LEMMA LevelType ==
    ASSUME card \in Cards, NEW g, Stored(g), NEW o \in Outs, NEW kind,
           NEW v \in MinOut..MaxOut
    PROVE  Level(g, kind, o, v) \in MinOut..MaxOut
<1>1. LineOut(o) \in Controls /\ LineOut(o) \notin LineIns
  BY LineOutControl
<1>2. g[LineOut(o)] \in MinOut..MaxOut
  BY <1>1 DEF Stored, Positions, LineOut
<1> QED BY <1>2 DEF Level, ClampOutputVolume, Add_dB, MinOut, MaxOut

LEMMA EffectiveType ==
    ASSUME card \in Cards, NEW g, Stored(g), NEW x \in Controls
    PROVE  Effective(g, x) \in Positions(x)
<1>1. CASE x \in LineIns
  BY <1>1, LineInControl DEF Effective, Level, Stored, Matrices
<1>2. CASE x \notin LineIns /\ x[1] # "nominal" /\ x[2] \in Outs
  BY <1>2, LevelType, LineInControl DEF Effective, Stored, Positions
<1>3. CASE x \notin LineIns /\ x[1] # "nominal" /\ x[2] \notin Outs
  BY <1>3, ControlShape, CardFacts DEF Effective, Level, Stored, Outs
<1>4. CASE x[1] = "nominal"
  BY <1>4 DEF Effective, Level, Stored, Matrices
<1> QED BY <1>1, <1>2, <1>3, <1>4

LEMMA MatrixNotLineIn ==
    ASSUME card \in Cards, NEW x \in Controls,
           x[1] \in Matrices \union {"pcm", "lineout"}
    PROVE  Positions(x) = MinOut..MaxOut
  BY LineInControl DEF Positions, Matrices

LEMMA MovedGainType ==
    ASSUME card \in Cards, NEW g, Stored(g), NEW m \in Matrices, NEW i,
           NEW moved, Moves(moved), NEW gang
    PROVE  Stored(MovedGain(g, m, i, moved, gang))
<1> DEFINE n == MovedGain(g, m, i, moved, gang)
<1>1. DOMAIN g = Controls
  BY DEF Stored
<1>2. n = [x \in Controls |-> n[x]]
  BY <1>1 DEF MovedGain
<1>3. ASSUME NEW x \in Controls PROVE n[x] \in Positions(x)
  <2>1. CASE n[x] = g[x]
    BY <2>1 DEF Stored
  <2>2. CASE n[x] # g[x]
    <3>1. x[1] = m /\ n[x] \in MinOut..MaxOut
      BY <1>1, <2>2 DEF MovedGain, Moves
    <3> QED BY <3>1, MatrixNotLineIn
  <2> QED BY <2>1, <2>2
<1> QED BY <1>2, <1>3 DEF Stored

LEMMA MovedHwType ==
    ASSUME card \in Cards, NEW g, Stored(g), NEW h, OnTheCard(h),
           NEW m \in Matrices, NEW i, NEW moved, Moves(moved), NEW gang
    PROVE  OnTheCard(MovedHw(h, g, m, i, moved, gang))
<1> DEFINE n == MovedHw(h, g, m, i, moved, gang)
<1>1. DOMAIN h = OnCard
  BY DEF OnTheCard
<1>2. n = [x \in OnCard |-> n[x]]
  BY <1>1 DEF MovedHw
<1>3. ASSUME NEW x \in OnCard PROVE n[x] \in Positions(x)
  <2>0. x \in Controls
    BY DEF Controls
  <2>1. CASE n[x] = h[x]
    BY <2>1 DEF OnTheCard
  <2>2. CASE n[x] # h[x]
    <3>1. x[1] = m
      BY <1>1, <2>2 DEF MovedHw
    <3>2. PICK o \in DOMAIN moved : n[x] = Level(g, m, o, moved[o])
      BY <1>1, <2>2 DEF MovedHw
    <3> QED BY <2>0, <3>1, <3>2, MatrixNotLineIn, LevelType DEF Moves
  <2> QED BY <2>1, <2>2
<1> QED BY <1>2, <1>3 DEF OnTheCard

LEMMA EffectiveHwType ==
    ASSUME card \in Cards, NEW g, Stored(g), NEW h, OnTheCard(h), NEW n,
           n = [x \in OnCard |-> n[x]],
           \A x \in OnCard : n[x] \in {h[x], Effective(g, x), g[x]}
    PROVE  OnTheCard(n)
<1>1. ASSUME NEW x \in OnCard PROVE n[x] \in Positions(x)
  <2>1. x \in Controls
    BY DEF Controls
  <2>2. {h[x], Effective(g, x), g[x]} \subseteq Positions(x)
    BY <2>1, EffectiveType DEF Stored, OnTheCard
  <2> QED BY <2>2
<1> QED BY <1>1 DEF OnTheCard

LEMMA LineOutHwType ==
    ASSUME card \in Cards, NEW g, Stored(g), NEW h, OnTheCard(h), NEW O
    PROVE  OnTheCard(LineOutHw(h, g, O))
<1>1. DOMAIN h = OnCard
  BY DEF OnTheCard
<1> DEFINE n == LineOutHw(h, g, O)
<1>2. n = [x \in OnCard |-> n[x]]
  BY <1>1 DEF LineOutHw, UpdatedHw
<1>3. \A x \in OnCard : n[x] \in {h[x], Effective(g, x), g[x]}
  BY <1>1 DEF LineOutHw, UpdatedHw
<1> QED BY <1>2, <1>3, EffectiveHwType

LEMMA VolumeHwType ==
    ASSUME card \in Cards, NEW g, Stored(g), NEW h, OnTheCard(h), NEW X
    PROVE  OnTheCard(VolumeHw(h, g, X))
<1>1. DOMAIN h = OnCard
  BY DEF OnTheCard
<1> DEFINE n == VolumeHw(h, g, X)
<1>2. n = [x \in OnCard |-> n[x]]
  BY <1>1 DEF VolumeHw
<1>3. \A x \in OnCard : n[x] \in {h[x], Effective(g, x), g[x]}
  BY <1>1 DEF VolumeHw
<1> QED BY <1>2, <1>3, EffectiveHwType

LEMMA ShownMoves ==
    ASSUME card \in Cards, NEW g, Stored(g), NEW m \in Matrices
    PROVE  Moves(Shown(g, m))
<1>1. SUFFICES ASSUME NEW o \in DOMAIN Shown(g, m)
               PROVE  o \in Outs /\ Shown(g, m)[o] \in MinOut..MaxOut
  BY DEF Moves
<1>2. o \in Outs /\ Has(m) /\ Shown(g, m)[o] = g[<<m, o, 0>>]
  BY <1>1 DEF Shown
<1>3. 0 \in Inputs(m)
  BY <1>2, CardFacts DEF Inputs, Channels, Matrices
<1>4. <<m, o, 0>> \in Controls
  <2>1. <<m, o, 0>> \in Cells(m)
    BY <1>2, <1>3 DEF Cells
  <2> QED BY <2>1 DEF Controls, OnCard, Mixed, Matrices
<1> QED BY <1>2, <1>4, MatrixNotLineIn DEF Stored

LEMMA StartedHwType ==
    ASSUME card \in Cards, NEW g, Stored(g), NEW h, OnTheCard(h)
    PROVE  OnTheCard(StartedHw(g, h))
<1> DEFINE h1 == VolumeHw(h, g, Volumes \union Nominals)
           h2 == LineOutHw(h1, g, Outs)
           h3 == MovedHw(h2, g, "mixer", 0, Shown(g, "mixer"), FALSE)
           h4 == MovedHw(h3, g, "vmixer", 0, Shown(g, "vmixer"), FALSE)
<1>0. "mixer" \in Matrices /\ "vmixer" \in Matrices
  BY DEF Matrices
<1>1. OnTheCard(h1)
  BY VolumeHwType
<1>2. OnTheCard(h2)
  BY <1>1, LineOutHwType
<1>3. OnTheCard(h3)
  BY <1>0, <1>2, MovedHwType, ShownMoves
<1>4. OnTheCard(h4)
  BY <1>0, <1>3, MovedHwType, ShownMoves
<1>5. StartedHw(g, h) = h4
  BY DEF StartedHw
<1> QED BY <1>4, <1>5

-----------------------------------------------------------------------------
(* The three things that a handler must keep: the range of what is stored, *)
(* shown and written; the equality of pairs while Gang is on; and that the *)
(* card has what the panel shows.                                          *)

InRange == /\ Stored(gain) /\ OnTheCard(hw)
           /\ slider \in [LineIns -> MinInp..MaxInp]
KeepsPairs == Gang /\ PairsEqual => PairsEqual'
MayDrift(x) ==
    \/ refused /\ x[1] # "linein"
    \/ /\ Gang /\ Emulated /\ x[1] \in Matrices
       /\ gain[LineOut(x[2])] # gain[LineOut(Pair(x[2]))]
KeepsSync == \A x \in OnCard : Synced(x) => Synced(x)' \/ MayDrift(x)
Keeps == InRange' /\ KeepsPairs /\ KeepsSync

(* The controls and the arithmetic are those of the card, which stays. *)
LEMMA CardStays ==
    ASSUME card' = card
    PROVE  /\ Controls' = Controls /\ OnCard' = OnCard /\ LineIns' = LineIns
           /\ Outs' = Outs /\ Volumes' = Volumes /\ Nominals' = Nominals
           /\ Emulated' = Emulated
           /\ \A m : Inputs(m)' = Inputs(m)
           /\ \A m : Has(m)' = Has(m)
           /\ Rows' = Rows /\ LineOutRow' = LineOutRow
           /\ VmixerFirst' = VmixerFirst
           /\ \A r : RowMatrix(r)' = RowMatrix(r) /\ RowInput(r)' = RowInput(r)
<1> USE DEF Has
<1>1. /\ Outs' = Outs /\ \A m : Inputs(m)' = Inputs(m) /\ Has(m)' = Has(m)
      /\ Emulated' = Emulated
  BY DEF Outs, Inputs, Channels, Emulated
<1>2. /\ Volumes' = Volumes /\ Nominals' = Nominals /\ LineIns' = LineIns
      /\ LineOuts' = LineOuts
  BY <1>1 DEF Volumes, Nominals, LineIns, LineOuts, Single
<1>3. Mixed' = Mixed
  BY <1>1 DEF Mixed, Cells
<1>4. OnCard' = OnCard /\ Controls' = Controls
  BY <1>1, <1>2, <1>3 DEF OnCard, Controls
<1>5. /\ Rows' = Rows /\ LineOutRow' = LineOutRow /\ VmixerFirst' = VmixerFirst
      /\ \A r : RowMatrix(r)' = RowMatrix(r) /\ RowInput(r)' = RowInput(r)
  BY DEF Rows, LineOutRow, VmixerFirst, RowMatrix, RowInput
<1> QED BY <1>1, <1>2, <1>4, <1>5

LEMMA RangeStays ==
    ASSUME card' = card, Stored(gain'), OnTheCard(hw') \/ hw' = hw,
           InRange, slider' \in [LineIns -> MinInp..MaxInp]
    PROVE  InRange'
<1>1. /\ Controls' = Controls /\ OnCard' = OnCard /\ LineIns' = LineIns
      /\ \A x : Positions(x)' = Positions(x)
  BY CardStays DEF Positions
<1> QED BY <1>1 DEF InRange, Stored, OnTheCard

LEMMA EffectiveStays ==
    ASSUME card' = card, NEW x
    PROVE  /\ Effective(gain, x)' = Effective(gain', x)
           /\ Synced(x)' <=> hw'[x] = Effective(gain', x)
  BY CardStays DEF Effective, Level, Synced

(* Steps that touch neither gains nor the card. *)
LEMMA GainsStay ==
    ASSUME card \in Cards, InRange, card' = card, UNCHANGED <<gain, hw, slider>>
    PROVE  Keeps
<1>1. InRange'
  BY RangeStays DEF InRange
<1>2. KeepsPairs
  BY CardStays DEF KeepsPairs, PairsEqual
<1>3. KeepsSync
  BY EffectiveStays DEF KeepsSync, Synced
<1> QED BY <1>1, <1>2, <1>3 DEF Keeps

-----------------------------------------------------------------------------
(* Sliders of a matrix move: one, dragged by the user, or many, when       *)
(* another input is shown.                                                 *)

SlidersMove(m, i, moved) ==
    /\ card' = card /\ slider' = slider
    /\ gain' = MovedGain(gain, m, i, moved, Gang)
    /\ Written(MovedHw(hw, gain, m, i, moved, Gang))

LEMMA MovePairs ==
    ASSUME card \in Cards, InRange, NEW m \in Matrices, NEW i \in Nat,
           NEW moved, Moves(moved), SlidersMove(m, i, moved),
           Gang, PairsEqual
    PROVE  PairsEqual'
<1>1. DOMAIN gain = Controls
  BY DEF InRange, Stored
<1>2. ASSUME NEW x \in Controls PROVE gain'[x] = gain'[Partner(x)]
  <2>1. /\ Partner(x) \in Controls /\ Partner(x)[1] = x[1]
        /\ Partner(x)[2] = Pair(x[2]) /\ Pair(Pair(x[2])) = x[2]
        /\ x[1] = m => Partner(x)[3] = Pair(x[3]) /\ Pair(Pair(x[3])) = x[3]
    BY PartnerControl, ControlShape, PairFacts
  <2>2. Pair(i) # i /\ Pair(Pair(i)) = i
    BY PairFacts
  <2>3. gain[x] = gain[Partner(x)]
    BY DEF PairsEqual
  <2>4. CASE x[1] # m
    BY <1>1, <2>1, <2>3, <2>4 DEF SlidersMove, MovedGain
  <2>5. CASE x[1] = m
    <3>1. \A y \in Controls : y[1] = m =>
             gain'[y] = IF y[3] = i /\ y[2] \in DOMAIN moved THEN moved[y[2]]
                        ELSE IF y[3] = Pair(i) /\ Pair(y[2]) \in DOMAIN moved
                        THEN moved[Pair(y[2])] ELSE gain[y]
      BY <1>1 DEF SlidersMove, MovedGain
    <3> QED BY <2>1, <2>2, <2>3, <2>5, <3>1
  <2> QED BY <2>4, <2>5
<1>3. Controls' = Controls /\ LineIns' = LineIns /\ slider' = slider
  BY CardStays DEF SlidersMove
<1> QED BY <1>2, <1>3 DEF PairsEqual

LEMMA MovedGainLineOut ==
    ASSUME card \in Cards, NEW g, Stored(g), NEW m \in Matrices, NEW i,
           NEW moved, NEW gang
    PROVE  \A o \in Outs : MovedGain(g, m, i, moved, gang)[LineOut(o)]
                               = g[LineOut(o)]
<1>1. \A o \in Outs : LineOut(o) \in Controls /\ LineOut(o)[1] # m
  BY LineOutControl DEF LineOut, Matrices
<1> QED BY <1>1 DEF MovedGain, Stored

LEMMA MoveSyncs ==
    ASSUME card \in Cards, InRange, NEW m \in Matrices, NEW i \in Nat,
           NEW moved, Moves(moved), SlidersMove(m, i, moved),
           NEW x \in OnCard, Synced(x), ~MayDrift(x)
    PROVE  Synced(x)'
<1>1. x \in Controls /\ DOMAIN gain = Controls /\ DOMAIN hw = OnCard
  BY DEF Controls, InRange, Stored, OnTheCard
<1>2. \A o \in Outs : gain'[LineOut(o)] = gain[LineOut(o)]
  BY MovedGainLineOut DEF InRange, SlidersMove
<1>3. hw'[x] = Effective(gain', x)
  <2>1. CASE x[1] # m
    <3>1. gain'[x] = gain[x] /\ hw'[x] = hw[x]
      BY <1>1, <2>1 DEF SlidersMove, MovedGain, MovedHw, Written
    <3>2. x[1] \in Matrices \union {"pcm"} => x[2] \in Outs
      BY <1>1, ControlShape, CardFacts DEF Outs
    <3> QED BY <1>2, <3>1, <3>2 DEF Synced, Effective, Level
  <2>2. CASE x[1] = m
    <3>1. /\ ~refused /\ m # "linein" /\ m # "pcm"
          /\ x[2] \in Outs /\ Pair(x[2]) \in Outs
          /\ Gang /\ Emulated => gain[LineOut(x[2])] = gain[LineOut(Pair(x[2]))]
      BY <1>1, <2>2, ControlShape, CardFacts, PairChannel
         DEF MayDrift, Matrices, Outs
    <3>2. gain'[x] = IF x[3] = i /\ x[2] \in DOMAIN moved THEN moved[x[2]]
                     ELSE IF Gang /\ x[3] = Pair(i) /\ Pair(x[2]) \in DOMAIN moved
                     THEN moved[Pair(x[2])] ELSE gain[x]
      BY <1>1, <2>2 DEF SlidersMove, MovedGain
    <3>3. hw'[x] = IF x[3] = i /\ x[2] \in DOMAIN moved
                   THEN Level(gain, m, x[2], moved[x[2]])
                   ELSE IF Gang /\ x[3] = Pair(i) /\ Pair(x[2]) \in DOMAIN moved
                   THEN Level(gain, m, Pair(x[2]), moved[Pair(x[2])]) ELSE hw[x]
      BY <1>1, <2>2, <3>1 DEF SlidersMove, MovedHw, Written
    <3>4. \A v : Level(gain', m, x[2], v) = Level(gain, m, x[2], v)
      BY <1>2, <3>1 DEF Level
    <3>5. Gang => \A v : Level(gain, m, Pair(x[2]), v) = Level(gain, m, x[2], v)
      BY <3>1 DEF Level
    <3> QED BY <2>2, <3>2, <3>3, <3>4, <3>5 DEF Synced, Effective
  <2> QED BY <2>1, <2>2
<1> QED BY <1>3, EffectiveStays DEF SlidersMove

LEMMA MoveKeeps ==
    ASSUME card \in Cards, InRange, NEW m \in Matrices, NEW i \in Nat,
           NEW moved, Moves(moved), SlidersMove(m, i, moved)
    PROVE  Keeps
<1>1. InRange'
  <2>1. Stored(gain')
    BY MovedGainType DEF InRange, SlidersMove
  <2>2. OnTheCard(hw') \/ hw' = hw
    BY MovedHwType DEF InRange, SlidersMove, Written
  <2> QED BY <2>1, <2>2, RangeStays DEF SlidersMove, InRange
<1>2. KeepsPairs
  BY MovePairs DEF KeepsPairs
<1>3. KeepsSync
  BY MoveSyncs DEF KeepsSync
<1> QED BY <1>1, <1>2, <1>3 DEF Keeps

-----------------------------------------------------------------------------
(* Line-outs, single volumes and switches. *)

LEMMA LineOutKeeps ==
    ASSUME card \in Cards, InRange, card' = card,
           NEW o \in Outs, NEW v \in Gains, MoveLineOut(o, v)
    PROVE  Keeps
<1> DEFINE O == {o} \union {p \in {Pair(o)} : Gang /\ gain[LineOut(p)] # v}
<1>0. /\ DOMAIN gain = Controls /\ DOMAIN hw = OnCard /\ v \in MinOut..MaxOut
      /\ o \in Nat /\ Pair(o) \in Nat /\ Pair(Pair(o)) = o
  BY PairFacts DEF InRange, Stored, OnTheCard, MinOut, MaxOut, Outs, Channels
<1>1. /\ gain' = [x \in Controls |->
                     IF x[1] = "lineout" /\ x[2] \in O THEN v ELSE gain[x]]
      /\ Written(LineOutHw(hw, gain', O))
      /\ slider' = slider
  BY <1>0 DEF MoveLineOut
<1>2. Stored(gain')
  <2>1. ASSUME NEW x \in Controls PROVE gain'[x] \in Positions(x)
    BY <1>0, <1>1, MatrixNotLineIn DEF InRange, Stored
  <2> QED BY <1>1, <2>1 DEF Stored
<1>3. InRange'
  <2>1. OnTheCard(hw') \/ hw' = hw
    BY <1>1, <1>2, LineOutHwType DEF Written, InRange
  <2> QED BY <1>1, <1>2, <2>1, RangeStays DEF InRange
<1>4. ASSUME Gang, PairsEqual PROVE PairsEqual'
  <2>1. ASSUME NEW x \in Controls PROVE gain'[x] = gain'[Partner(x)]
    <3>1. /\ Partner(x) \in Controls /\ Partner(x)[1] = x[1]
          /\ Partner(x)[2] = Pair(x[2]) /\ Pair(Pair(x[2])) = x[2]
          /\ gain[x] = gain[Partner(x)]
      BY <1>4, PartnerControl, ControlShape, PairFacts DEF PairsEqual
    <3>2. CASE x[1] # "lineout"
      BY <1>1, <3>1, <3>2
    <3>3. CASE x[1] = "lineout"
      <4>1. x = LineOut(x[2]) /\ Partner(x) = LineOut(Pair(x[2]))
        BY <3>3, ControlShape DEF Partner, LineOut, Matrices
      <4> QED BY <1>0, <1>1, <1>4, <3>1, <3>3, <4>1
    <3> QED BY <3>2, <3>3
  <2>2. Controls' = Controls /\ LineIns' = LineIns
    BY CardStays
  <2> QED BY <1>1, <1>4, <2>1, <2>2 DEF PairsEqual
<1>5. ASSUME NEW x \in OnCard, Synced(x), ~MayDrift(x)
      PROVE  Synced(x)'
  <2>1. x \in Controls /\ (x[1] = "lineout" => ~Emulated)
    BY ControlMember, OnCardControl DEF Controls
  <2>2. x[1] \in Matrices \union {"pcm"} => x[2] \in Outs
    BY <2>1, ControlShape, CardFacts DEF Outs
  <2>3. \A p \in Outs \ O : gain'[LineOut(p)] = gain[LineOut(p)]
    BY <1>1, LineOutControl DEF LineOut
  <2>4. CASE refused
    BY <1>0, <1>1, <2>1, <2>4, <1>5, EffectiveStays
       DEF MayDrift, Written, Synced, Effective, Level, Matrices
  <2>5. CASE ~refused /\ Emulated
    <3>1. hw'[x] = IF x[1] \in Matrices \union {"pcm"} /\ x[2] \in O
                   THEN Effective(gain', x) ELSE hw[x]
      BY <1>0, <1>1, <2>5 DEF Written, LineOutHw, UpdatedHw
    <3>2. CASE x[1] \in Matrices \union {"pcm"} /\ x[2] \in O
      BY <3>1, <3>2, EffectiveStays
    <3>3. CASE ~(x[1] \in Matrices \union {"pcm"} /\ x[2] \in O)
      <4>1. gain'[x] = gain[x]
        BY <1>1, <2>1, <2>5
      <4>2. Effective(gain', x) = Effective(gain, x)
        BY <2>2, <2>3, <3>3, <4>1 DEF Effective, Level
      <4> QED BY <1>5, <3>1, <3>3, <4>2, EffectiveStays DEF Synced
    <3> QED BY <3>2, <3>3
  <2>6. CASE ~refused /\ ~Emulated
    <3>1. hw'[x] = IF x[1] = "lineout" /\ x[2] \in O THEN gain'[x] ELSE hw[x]
      BY <1>0, <1>1, <2>6 DEF Written, LineOutHw
    <3>2. Effective(gain', x) = gain'[x] /\ Effective(gain, x) = gain[x]
      BY <2>6 DEF Effective, Level
    <3> QED BY <1>1, <1>5, <2>1, <3>1, <3>2, EffectiveStays DEF Synced
  <2> QED BY <2>4, <2>5, <2>6
<1> QED BY <1>3, <1>4, <1>5 DEF Keeps, KeepsPairs, KeepsSync

(* PCM_volume_changed and Nominal_level_toggled: the controls X get their  *)
(* new gain, except for line inputs of a card that refuses it.             *)
LEMMA VolumesSync ==
    ASSUME card \in Cards, InRange, card' = card, NEW X \in SUBSET Controls,
           \A x \in Controls : x \notin X => gain'[x] = gain[x],
           \A x \in X : x[1] \in {"pcm", "linein", "nominal"},
           refused => \A x \in LineIns : gain'[x] = gain[x],
           Written(VolumeHw(hw, gain', X))
    PROVE  KeepsSync
<1> SUFFICES ASSUME NEW x \in OnCard, Synced(x), ~MayDrift(x)
             PROVE  Synced(x)'
  BY DEF KeepsSync
<1>1. x \in Controls /\ DOMAIN hw = OnCard
  BY DEF Controls, InRange, OnTheCard
<1>2. \A p \in Outs : gain'[LineOut(p)] = gain[LineOut(p)]
  BY LineOutControl DEF LineOut
<1>3. x[1] \in Matrices \union {"pcm"} => x[2] \in Outs
  BY <1>1, ControlShape, CardFacts DEF Outs
<1>4. CASE refused
  <2>1. gain'[x] = gain[x] /\ hw'[x] = hw[x] /\ x[1] = "linein"
    BY <1>1, <1>4, LineInControl DEF MayDrift, Written
  <2> QED BY <2>1, EffectiveStays DEF Synced, Effective, Level, Matrices
<1>5. CASE ~refused
  <2>1. hw'[x] = IF x \in X THEN Effective(gain', x) ELSE hw[x]
    BY <1>1, <1>5 DEF Written, VolumeHw
  <2>2. x \notin X => Effective(gain', x) = Effective(gain, x)
    BY <1>1, <1>2, <1>3 DEF Effective, Level
  <2> QED BY <2>1, <2>2, EffectiveStays DEF Synced
<1> QED BY <1>4, <1>5

LEMMA PcmKeeps ==
    ASSUME card \in Cards, InRange, card' = card,
           NEW x \in Volumes, NEW db \in Gains, PCM_volume_changed(x, db)
    PROVE  Keeps
<1> DEFINE v == Position(x, db)
           Shows(y) == IF y \in LineIns THEN slider[y] ELSE gain[y]
           X == {x} \union {y \in {Partner(x)} : Gang /\ Shows(y) # v}
<1>1. /\ x \in Controls /\ DOMAIN gain = Controls /\ DOMAIN hw = OnCard
      /\ x[1] \in {"pcm", "linein"}
  BY ControlMember DEF InRange, Stored, OnTheCard, Controls, OnCard, Volumes, Single
<1>2. /\ gain' = [y \in Controls |->
                     IF y \in X /\ ~(refused /\ y \in LineIns) THEN v ELSE gain[y]]
      /\ slider' = [y \in LineIns |-> IF y \in X THEN v ELSE slider[y]]
      /\ Written(VolumeHw(hw, gain', X))
  BY <1>1 DEF PCM_volume_changed
<1>3. /\ X \subseteq Controls
      /\ \A y \in X : y[1] = x[1] /\ (y \in LineIns <=> x \in LineIns)
  BY <1>1, PartnerControl
<1>4. v \in Positions(x) /\ (x \in LineIns => v \in MinInp..MaxInp)
  <2>1. db \in MinOut..MaxOut
    BY DEF MinOut, MaxOut
  <2>2. CASE x[1] = "pcm"
    BY <1>1, <2>1, <2>2, LineInControl DEF Position, Positions
  <2>3. CASE x[1] = "linein"
    BY <2>1, <2>3 DEF Position, Positions, MinInp, MaxInp, MinOut, MaxOut
  <2> QED BY <1>1, <2>2, <2>3
<1>5. \A y \in X : v \in Positions(y)
  BY <1>1, <1>3, <1>4 DEF Positions
<1>6. Stored(gain')
  BY <1>2, <1>5 DEF InRange, Stored
<1>7. InRange'
  <2>1. OnTheCard(hw') \/ hw' = hw
    BY <1>2, <1>6, VolumeHwType DEF Written, InRange
  <2>2. slider' \in [LineIns -> MinInp..MaxInp]
    BY <1>2, <1>3, <1>4 DEF InRange
  <2> QED BY <1>6, <2>1, <2>2, RangeStays
<1>8. KeepsSync
  <2>1. LineIns \subseteq Controls
    BY ControlMember DEF Controls, OnCard
  <2>2. refused => \A y \in LineIns : gain'[y] = gain[y]
    BY <1>2, <2>1
  <2>3. \A y \in Controls : y \notin X => gain'[y] = gain[y]
    BY <1>2
  <2>4. \A y \in X : y[1] \in {"pcm", "linein", "nominal"}
    BY <1>1, <1>3
  <2> HIDE DEF X
  <2> QED BY <1>2, <1>3, <2>2, <2>3, <2>4, VolumesSync
<1>9. ASSUME Gang, PairsEqual PROVE PairsEqual'
  <2>0. LineIns \subseteq Controls
    BY ControlMember DEF Controls, OnCard
  <2>1. ASSUME NEW y \in Controls
        PROVE  /\ Partner(y) \in Controls /\ gain[y] = gain[Partner(y)]
               /\ y \in LineIns <=> Partner(y) \in LineIns
               /\ y \in LineIns => slider[y] = slider[Partner(y)]
               /\ Partner(Partner(y)) = y
    BY <1>9, PartnerControl DEF PairsEqual
  <2>2. Shows(x) # v
    BY DEF PCM_volume_changed
  <2>3. Partner(x) \in X
    BY <1>1, <1>9, <2>1, <2>2
  <2>4. \A y \in Controls : y \in X <=> Partner(y) \in X
    BY <1>1, <2>1, <2>3
  <2>5. \A y \in Controls : gain'[y] = gain'[Partner(y)]
    BY <1>2, <2>1, <2>4
  <2>6. \A y \in LineIns : slider'[y] = slider'[Partner(y)]
    BY <1>2, <2>0, <2>1, <2>4
  <2> QED BY <2>5, <2>6, CardStays DEF PairsEqual
<1> QED BY <1>7, <1>8, <1>9 DEF Keeps, KeepsPairs

LEMMA NominalKeeps ==
    ASSUME card \in Cards, InRange, card' = card,
           NEW x \in Nominals, Nominal_level_toggled(x)
    PROVE  Keeps
<1> DEFINE v == 1 - gain[x]
           X == {x} \union {y \in {Partner(x)} : Gang /\ gain[y] # v}
<1>1. /\ x \in Controls /\ DOMAIN gain = Controls /\ DOMAIN hw = OnCard
      /\ x[1] = "nominal"
  BY ControlMember DEF InRange, Stored, OnTheCard, Controls, OnCard, Nominals, Single
<1>2. /\ gain' = [y \in Controls |-> IF y \in X THEN v ELSE gain[y]]
      /\ slider' = slider
      /\ Written(VolumeHw(hw, gain', X))
  BY <1>1 DEF Nominal_level_toggled
<1>3. X \subseteq Controls /\ \A y \in X : y[1] = "nominal" /\ y \notin LineIns
  BY <1>1, PartnerControl, LineInControl
<1>4. v \in {0, 1} /\ v # gain[x] /\ \A y \in X : v \in Positions(y)
  <2>1. gain[x] \in {0, 1}
    BY <1>1 DEF InRange, Stored, Positions
  <2> QED BY <1>3, <2>1 DEF Positions
<1>5. Stored(gain')
  BY <1>2, <1>4 DEF InRange, Stored
<1>6. InRange'
  <2>1. OnTheCard(hw') \/ hw' = hw
    BY <1>2, <1>5, VolumeHwType DEF Written, InRange
  <2> QED BY <1>2, <1>5, <2>1, RangeStays DEF InRange
<1>7. KeepsSync
  <2>1. LineIns \subseteq Controls
    BY ControlMember DEF Controls, OnCard
  <2> QED BY <1>2, <1>3, <2>1, VolumesSync
<1>8. ASSUME Gang, PairsEqual PROVE PairsEqual'
  <2>1. ASSUME NEW y \in Controls
        PROVE  /\ Partner(y) \in Controls /\ gain[y] = gain[Partner(y)]
               /\ Partner(Partner(y)) = y
    BY <1>8, PartnerControl DEF PairsEqual
  <2>2. \A y \in Controls : y \in X <=> Partner(y) \in X
    BY <1>1, <1>4, <1>8, <2>1
  <2>3. \A y \in Controls : gain'[y] = gain'[Partner(y)]
    BY <1>2, <2>1, <2>2
  <2> QED BY <1>2, <1>8, <2>3, CardStays DEF PairsEqual
<1> QED BY <1>6, <1>7, <1>8 DEF Keeps, KeepsPairs

-----------------------------------------------------------------------------
(* A new session: every slider that moves writes what is stored.           *)

LEMMA StartSyncs ==
    ASSUME card \in Cards, InRange, NEW x \in OnCard,
           hw[x] = Effective(gain, x)
    PROVE  StartedHw(gain, hw)[x] = Effective(gain, x)
<1> DEFINE g == gain
           h1 == VolumeHw(hw, g, Volumes \union Nominals)
           h2 == LineOutHw(h1, g, Outs)
           h3 == MovedHw(h2, g, "mixer", 0, Shown(g, "mixer"), FALSE)
           h4 == MovedHw(h3, g, "vmixer", 0, Shown(g, "vmixer"), FALSE)
<1>0. /\ x \in Controls /\ DOMAIN hw = OnCard /\ DOMAIN gain = Controls
      /\ x = <<x[1], x[2], x[3]>>
  BY ControlShape DEF Controls, InRange, Stored, OnTheCard
<1>1. DOMAIN h1 = OnCard /\ h1[x] = Effective(g, x)
  BY <1>0 DEF VolumeHw
<1>2. DOMAIN h2 = OnCard /\ h2[x] = Effective(g, x)
  <2> HIDE DEF h1
  <2> QED BY <1>1 DEF LineOutHw, UpdatedHw, Effective, Level, Matrices
<1>3. ASSUME NEW h, DOMAIN h = OnCard, h[x] = Effective(g, x),
             NEW m \in Matrices
      PROVE  LET n == MovedHw(h, g, m, 0, Shown(g, m), FALSE)
             IN  DOMAIN n = OnCard /\ n[x] = Effective(g, x)
  <2>1. CASE x[1] = m /\ x[3] = 0 /\ x[2] \in DOMAIN Shown(g, m)
    <3>1. Shown(g, m)[x[2]] = g[x]
      BY <1>0, <2>1 DEF Shown
    <3> QED BY <1>3, <2>1, <3>1 DEF MovedHw, Effective
  <2>2. CASE ~(x[1] = m /\ x[3] = 0 /\ x[2] \in DOMAIN Shown(g, m))
    BY <1>3, <2>2 DEF MovedHw
  <2> QED BY <2>1, <2>2
<1>4. DOMAIN h3 = OnCard /\ h3[x] = Effective(g, x)
  <2> HIDE DEF h2
  <2> QED BY <1>2, <1>3 DEF Matrices
<1>5. h4[x] = Effective(g, x)
  <2> HIDE DEF h3
  <2> QED BY <1>3, <1>4 DEF Matrices
<1> QED BY <1>5 DEF StartedHw

LEMMA RestartKeeps ==
    ASSUME card \in Cards, InRange, NEW enable, RestartGains(enable)
    PROVE  Keeps
<1> USE DEF RestartGains
<1>0. LineIns \subseteq Controls
  BY ControlMember DEF Controls, OnCard
<1>1. InRange'
  <2>1. \A x \in LineIns : gain[x] \in MinInp..MaxInp
    BY <1>0, LineInControl DEF InRange, Stored, Positions
  <2>2. OnTheCard(hw') \/ hw' = hw
    BY StartedHwType DEF InRange, Written
  <2>3. slider' \in [LineIns -> MinInp..MaxInp]
    BY <2>1
  <2> QED BY <2>2, <2>3, RangeStays DEF InRange
<1>2. KeepsPairs
  <2>1. \A x \in LineIns : Partner(x) \in LineIns
    BY <1>0, PartnerControl
  <2> QED BY <1>0, <2>1, CardStays DEF KeepsPairs, PairsEqual
<1>3. ASSUME NEW x \in OnCard, Synced(x) PROVE Synced(x)'
  <2>1. hw'[x] = Effective(gain, x)
    BY <1>3, StartSyncs DEF Synced, Written
  <2> QED BY <2>1, EffectiveStays
<1> QED BY <1>1, <1>2, <1>3 DEF Keeps, KeepsSync

-----------------------------------------------------------------------------
(* Selecting an input, by whatever means.                                  *)
LEMMA SelectKeeps ==
    ASSUME card \in Cards, InRange, card' = card, slider' = slider,
           NEW m \in Matrices, Has(m), NEW i \in Inputs(m), SelectInput(m, i)
    PROVE  Keeps /\ (~Gang => gain' = gain)
<1> DEFINE moved == [o \in {o \in Outs :
                         gain[<<m, o, i>>] # gain[<<m, o, sel[m].input>>]}
                      |-> gain[<<m, o, i>>]]
<1>0. i \in Nat /\ gain = [x \in Controls |-> gain[x]]
  BY DEF Inputs, Channels, InRange, Stored
<1>1. SlidersMove(m, i, moved)
  BY DEF SelectInput, SlidersMove
<1>2. Moves(moved)
  <2>1. ASSUME NEW o \in Outs PROVE gain[<<m, o, i>>] \in MinOut..MaxOut
    <3>1. <<m, o, i>> \in Controls
      BY DEF Controls, OnCard, Mixed, Cells, Matrices
    <3> QED BY <3>1, MatrixNotLineIn DEF InRange, Stored
  <2> QED BY <2>1 DEF Moves
<1>3. ASSUME ~Gang PROVE gain' = gain
  <2>1. gain' = [x \in Controls |->
                   IF x[1] = m /\ x[3] = i /\ x[2] \in DOMAIN moved
                   THEN moved[x[2]] ELSE gain[x]]
    BY <1>0, <1>1, <1>3 DEF SlidersMove, MovedGain
  <2>2. ASSUME NEW x \in Controls, x[1] = m, x[3] = i, x[2] \in DOMAIN moved
        PROVE  moved[x[2]] = gain[x]
    BY <2>2, ControlShape
  <2> HIDE DEF moved
  <2> QED BY <1>0, <2>1, <2>2
<1> HIDE DEF moved
<1> QED BY <1>0, <1>1, <1>2, <1>3, MoveKeeps

-----------------------------------------------------------------------------
(* The whole invariant: what is selected is there to select, and while the *)
(* button is held the selection is the cell that was pressed.              *)

SelectionOK ==
    /\ sel \in [Matrices -> [input : Nat, output : Nat]]
    /\ \A m \in Matrices : Has(m) => /\ sel[m].input \in Inputs(m)
                                     /\ sel[m].output \in Outs
MouseOK ==
    /\ mouse \in [row : Rows, column : Outs \union {-1}, down : BOOLEAN]
    /\ {Gang, adat, pressed, refused} \subseteq BOOLEAN
PressSelects ==
    pressed /\ mouse.column \in Channels(GMOutputs) /\ mouse.row < LineOutRow =>
        sel[RowMatrix(mouse.row)] =
            [input |-> RowInput(mouse.row), output |-> mouse.column]

GInv == /\ card \in Cards /\ InRange
        /\ SelectionOK /\ MouseOK /\ PressSelects

SelectsOnly == ~Gang /\ sel' # sel => gain' = gain
DragsRight  == pressed /\ pressed' => \A x \in Controls :
                  gain'[x] # gain[x] => EnabledControl(x)
StepIsRight == GInv' /\ Keeps /\ SelectsOnly /\ DragsRight

LEMMA GInvTypeOK == GInv => GainsTypeOK
  BY DEF GInv, GainsTypeOK, InRange, Stored, OnTheCard, SelectionOK, MouseOK

(* A step that leaves selection and mouse alone.                           *)
LEMMA UserIsRight ==
    ASSUME GInv, User, Keeps
    PROVE  StepIsRight
<1>1. card' = card /\ UNCHANGED <<sel, mouse, adat, pressed, Gang, refused>>
  BY DEF User, Idle
<1>2. SelectionOK' /\ MouseOK'
  BY <1>1, CardStays DEF GInv, SelectionOK, MouseOK
<1>3. PressSelects'
  BY <1>1 DEF PressSelects, User, Idle
<1>4. DragsRight /\ SelectsOnly
  BY <1>1 DEF DragsRight, SelectsOnly, User, Idle
<1> QED BY <1>1, <1>2, <1>3, <1>4 DEF StepIsRight, GInv, Keeps

LEMMA CellMoves ==
    ASSUME GInv, card' = card, NEW m \in Matrices, NEW o \in Outs,
           NEW v \in Gains, MoveCell(m, o, v)
    PROVE  /\ Keeps
           /\ \A x \in Controls : gain'[x] # gain[x] =>
                 /\ x[1] = m
                 /\ \/ x[3] = sel[m].input /\ x[2] = o
                    \/ x[3] = Pair(sel[m].input) /\ Pair(x[2]) = o
<1> DEFINE moved == [c \in {o} |-> v]
<1>1. sel[m].input \in Nat
  BY DEF GInv, SelectionOK
<1>2. SlidersMove(m, sel[m].input, moved)
  BY DEF MoveCell, SlidersMove
<1>3. Moves(moved)
  BY DEF Moves, MinOut, MaxOut
<1>4. card \in Cards /\ InRange /\ DOMAIN gain = Controls
  BY DEF GInv, InRange, Stored
<1>5. ASSUME NEW x \in Controls, gain'[x] # gain[x]
      PROVE  /\ x[1] = m
             /\ \/ x[3] = sel[m].input /\ x[2] = o
                \/ x[3] = Pair(sel[m].input) /\ Pair(x[2]) = o
  BY <1>2, <1>4, <1>5 DEF SlidersMove, MovedGain
<1> HIDE DEF moved
<1>6. Keeps
  BY <1>1, <1>2, <1>3, <1>4, MoveKeeps
<1> QED BY <1>5, <1>6

LEMMA SlidersAreRight ==
    ASSUME GInv, NEW v \in Gains, NEW o \in Outs,
           \/ Monitor_volume_changed(o, v) \/ Vmixer_volume_changed(o, v)
           \/ LineOut_volume_changed(o, v)
    PROVE  StepIsRight
<1>1. User /\ card' = card /\ card \in Cards /\ InRange
  BY DEF Monitor_volume_changed, Vmixer_volume_changed,
         LineOut_volume_changed, User, Idle, GInv
<1>2. Keeps
  BY <1>1, CellMoves, LineOutKeeps
     DEF Monitor_volume_changed, Vmixer_volume_changed,
         LineOut_volume_changed, Matrices
<1> QED BY <1>1, <1>2, UserIsRight

LEMMA VolumesAreRight ==
    ASSUME GInv,
           \/ \E x \in Volumes, v \in Gains : PCM_volume_changed(x, v)
           \/ \E x \in Nominals : Nominal_level_toggled(x)
    PROVE  StepIsRight
<1>1. User /\ card' = card /\ card \in Cards /\ InRange
  BY DEF PCM_volume_changed, Nominal_level_toggled, User, Idle, GInv
<1>2. Keeps
  BY <1>1, PcmKeeps, NominalKeeps
<1> QED BY <1>1, <1>2, UserIsRight

LEMMA SelectorsAreRight ==
    ASSUME GInv, NEW i,
           \/ i \in Inputs("mixer") /\ Mixer_Input_selector_clicked(i)
           \/ i \in Inputs("vmixer") /\ Vmixer_vchannel_selector_clicked(i)
    PROVE  StepIsRight
<1>1. /\ ~pressed /\ card' = card /\ slider' = slider
      /\ UNCHANGED <<Gang, adat, mouse, pressed, refused>>
      /\ card \in Cards /\ InRange
  BY DEF Mixer_Input_selector_clicked, Vmixer_vchannel_selector_clicked,
         Idle, GInv
<1>2. PICK m \in Matrices : /\ Has(m) /\ i \in Inputs(m) /\ SelectInput(m, i)
                            /\ sel' = [sel EXCEPT ![m].input = i]
  BY DEF Mixer_Input_selector_clicked, Vmixer_vchannel_selector_clicked,
         Matrices
<1>3. Keeps /\ (~Gang => gain' = gain)
  BY <1>1, <1>2, SelectKeeps
<1>4. SelectionOK'
  <2>1. i \in Nat
    BY <1>2 DEF Inputs, Channels
  <2>2. sel' \in [Matrices -> [input : Nat, output : Nat]]
    BY <1>2, <2>1 DEF GInv, SelectionOK
  <2>3. \A k \in Matrices : Has(k) => /\ sel'[k].input \in Inputs(k)
                                      /\ sel'[k].output \in Outs
    BY <1>2 DEF GInv, SelectionOK
  <2> QED BY <1>1, <2>2, <2>3, CardStays DEF SelectionOK
<1>5. MouseOK' /\ PressSelects'
  BY <1>1, CardStays DEF GInv, MouseOK, PressSelects
<1> QED BY <1>1, <1>3, <1>4, <1>5
        DEF StepIsRight, GInv, Keeps, SelectsOnly, DragsRight

LEMMA PanelIsRight ==
    ASSUME GInv,
           \/ Gang_button_toggled \/ LockControls
           \/ \E m \in Matrices, o \in Outs : Volume_clicked(m, o)
           \/ \E missed \in BOOLEAN : Gmixer_button_release(missed)
    PROVE  StepIsRight
<1> USE DEF Gang_button_toggled, LockControls, Volume_clicked,
            Gmixer_button_release, Idle
<1>1. card \in Cards /\ InRange /\ card' = card
      /\ UNCHANGED <<gain, hw, slider>>
  BY DEF GInv
<1>2. Keeps
  BY <1>1, GainsStay
<1>3. SelectionOK'
  <2>1. CASE sel' = sel
    BY <1>1, <2>1, CardStays DEF GInv, SelectionOK
  <2>2. CASE sel' # sel
    <3>1. PICK m \in Matrices, o \in Outs : sel' = [sel EXCEPT ![m].output = o]
      BY <2>2
    <3>2. o \in Nat
      BY DEF Outs, Channels
    <3>3. sel' \in [Matrices -> [input : Nat, output : Nat]]
      BY <3>1, <3>2 DEF GInv, SelectionOK
    <3>4. \A k \in Matrices : Has(k) => /\ sel'[k].input \in Inputs(k)
                                        /\ sel'[k].output \in Outs
      BY <3>1 DEF GInv, SelectionOK
    <3> QED BY <1>1, <3>3, <3>4, CardStays DEF SelectionOK
  <2> QED BY <2>1, <2>2
<1>4. MouseOK'
  <2>1. Rows' = Rows /\ Outs' = Outs /\ 0 \in Rows /\ 0 \in Outs
    BY <1>1, CardStays, CardFacts
       DEF Rows, LineOutRow, Outs, Channels, GInv
  <2> QED BY <2>1 DEF GInv, MouseOK, MouseUp
<1>5. PressSelects'
  <2>1. pressed' => pressed /\ UNCHANGED <<sel, mouse, adat>>
    OBVIOUS
  <2>2. Channels(GMOutputs)' = Channels(GMOutputs) \/ adat' # adat
    BY <1>1 DEF GMOutputs, Channels
  <2> QED BY <1>1, <2>1, <2>2, CardStays DEF GInv, PressSelects
<1> QED BY <1>1, <1>2, <1>3, <1>4, <1>5
        DEF StepIsRight, GInv, Keeps, SelectsOnly, DragsRight

LEMMA RowFacts ==
    ASSUME card \in Cards, NEW r \in Rows, r < LineOutRow, Has("mixer")
    PROVE  /\ RowMatrix(r) \in Matrices /\ Has(RowMatrix(r))
           /\ RowInput(r) \in Inputs(RowMatrix(r)) /\ RowInput(r) \in Nat
           /\ RowMatrix(r) = "mixer" <=> r < card.ins
           /\ RowMatrix(r) = "mixer" => RowInput(r) = r
<1>1. r \in Nat /\ card.ins \in Nat /\ card.vouts \in Nat
  BY CardFacts DEF Rows, LineOutRow
<1>2. CASE r < card.ins
  BY <1>1, <1>2
     DEF RowMatrix, RowInput, VmixerFirst, Matrices, Inputs, Channels
<1>3. CASE ~(r < card.ins)
  <2>1. Has("vmixer") /\ r < card.ins + card.vouts
    BY <1>1, <1>3 DEF LineOutRow
  <2> QED BY <1>1, <1>3, <2>1
          DEF RowMatrix, RowInput, VmixerFirst, Matrices, Inputs, Channels
<1> QED BY <1>2, <1>3

LEMMA PressIsRight ==
    ASSUME GInv, NEW r \in Rows, NEW c \in Outs \union {-1},
           NEW first \in BOOLEAN, Gmixer_button_press(r, c, first)
    PROVE  StepIsRight
<1> DEFINE m == RowMatrix(r)
           selects == c \in Channels(GMOutputs) /\ r < LineOutRow
<1>1. /\ card \in Cards /\ InRange /\ card' = card /\ slider' = slider
      /\ UNCHANGED <<Gang, adat, refused>> /\ ~pressed /\ Has("mixer")
      /\ pressed' = first
  BY DEF GInv, Gmixer_button_press
<1>2. IF selects /\ RowInput(r) # sel[m].input
      THEN SelectInput(m, RowInput(r)) ELSE UNCHANGED <<gain, hw>>
  BY DEF Gmixer_button_press
<1>3. sel' = IF selects
             THEN [sel EXCEPT ![m] = [input |-> RowInput(r), output |-> c]]
             ELSE sel
  BY DEF Gmixer_button_press
<1>4. first => mouse'.row = r /\ mouse'.column = c
  BY DEF Gmixer_button_press
<1>5. selects => /\ m \in Matrices /\ Has(m) /\ RowInput(r) \in Inputs(m)
                 /\ RowInput(r) \in Nat /\ c \in Outs /\ c \in Nat
  <2>1. selects => c \in Outs /\ c \in Nat
    BY DEF Outs, Channels
  <2> QED BY <1>1, <2>1, RowFacts
<1> HIDE DEF selects, m
<1>6. Keeps /\ (~Gang => gain' = gain)
  BY <1>1, <1>2, <1>5, SelectKeeps, GainsStay
<1>7. SelectionOK'
  <2>1. CASE ~selects
    BY <1>1, <1>3, <2>1, CardStays DEF GInv, SelectionOK
  <2>2. CASE selects
    <3>1. sel' \in [Matrices -> [input : Nat, output : Nat]]
      BY <1>3, <1>5, <2>2 DEF GInv, SelectionOK
    <3>2. \A k \in Matrices : Has(k) => /\ sel'[k].input \in Inputs(k)
                                        /\ sel'[k].output \in Outs
      BY <1>3, <1>5, <2>2 DEF GInv, SelectionOK
    <3> QED BY <1>1, <3>1, <3>2, CardStays DEF SelectionOK
  <2> QED BY <2>1, <2>2
<1>8. MouseOK'
  <2>1. Rows' = Rows /\ Outs' = Outs /\ 0 \in Rows /\ 0 \in Outs
    BY <1>1, CardStays, CardFacts DEF Rows, LineOutRow, Outs, Channels
  <2>2. mouse' \in [row : Rows, column : Outs \union {-1}, down : BOOLEAN]
    BY <2>1 DEF GInv, MouseOK, MouseUp, Gmixer_button_press
  <2> QED BY <1>1, <2>1, <2>2 DEF GInv, MouseOK
<1>9. PressSelects'
  <2>1. LineOutRow' = LineOutRow /\ Channels(GMOutputs)' = Channels(GMOutputs)
        /\ \A k : RowMatrix(k)' = RowMatrix(k) /\ RowInput(k)' = RowInput(k)
    BY <1>1, CardStays DEF GMOutputs, Channels
  <2>2. SUFFICES ASSUME first, c \in Channels(GMOutputs), r < LineOutRow
                 PROVE  sel'[RowMatrix(r)] = [input |-> RowInput(r), output |-> c]
    BY <1>1, <1>4, <2>1 DEF PressSelects
  <2> QED BY <1>3, <1>5, <2>2 DEF selects, m, GInv, SelectionOK
<1> QED BY <1>1, <1>6, <1>7, <1>8, <1>9
        DEF StepIsRight, GInv, Keeps, SelectsOnly, DragsRight

LEMMA MotionIsRight ==
    ASSUME GInv, NEW v \in Gains, Gmixer_motion_notify(v)
    PROVE  StepIsRight
<1> DEFINE r == mouse.row
           m == RowMatrix(r)
           c == mouse.column
           ignored == ~pressed \/ ~mouse.down \/ c \notin Channels(GMOutputs)
<1>0. /\ r \in Rows /\ c \in Outs \union {-1} /\ r \in Nat
  BY CardFacts DEF GInv, MouseOK, Rows, LineOutRow
<1>1. /\ card \in Cards /\ InRange /\ card' = card
      /\ UNCHANGED <<Gang, sel, adat, pressed, refused>>
  BY DEF GInv, Gmixer_motion_notify
<1>2. /\ mouse' = IF ignored THEN [mouse EXCEPT !.down = FALSE] ELSE mouse
      /\ \/ ignored /\ UNCHANGED <<gain, hw, slider>>
         \/ /\ ~ignored
            /\ r < GMInputs \/ r \in VmixerFirst..(LineOutRow - 1)
            /\ MoveCell(m, sel[m].output, v)
         \/ ~ignored /\ r = LineOutRow /\ MoveLineOut(c, v)
  BY DEF Gmixer_motion_notify
<1>3. SelectionOK' /\ MouseOK' /\ PressSelects'
  <2>1. SelectionOK'
    BY <1>1, CardStays DEF GInv, SelectionOK
  <2>2. mouse'.row = r /\ mouse'.column = c
        /\ mouse' \in [row : Rows, column : Outs \union {-1}, down : BOOLEAN]
    BY <1>2 DEF GInv, MouseOK
  <2>3. MouseOK'
    BY <1>1, <2>2, CardStays DEF GInv, MouseOK
  <2>4. Channels(GMOutputs)' = Channels(GMOutputs)
    BY <1>1 DEF GMOutputs, Channels
  <2>5. PressSelects'
    BY <1>1, <2>2, <2>4, CardStays DEF GInv, PressSelects
  <2> QED BY <2>1, <2>3, <2>5
<1>4. CASE ignored /\ UNCHANGED <<gain, hw, slider>>
  BY <1>1, <1>3, <1>4, GainsStay
     DEF StepIsRight, GInv, Keeps, SelectsOnly, DragsRight
<1>5. CASE /\ ~ignored
           /\ r < GMInputs \/ r \in VmixerFirst..(LineOutRow - 1)
           /\ MoveCell(m, sel[m].output, v)
  <2>1. card.spdifIns \in Nat /\ card.spdifOuts \in Nat /\ card.ins \in Nat
        /\ card.vouts \in Nat /\ card.outs \in Nat
        /\ card.spdifIns <= card.ins /\ card.spdifOuts <= card.outs
        /\ card.spdifIns % 2 = 0 /\ card.spdifOuts % 2 = 0
    BY <1>1, CardFacts
  <2>2. r < LineOutRow
    BY <1>0, <1>5, <2>1, CardFacts DEF GMInputs, LineOutRow, VmixerFirst
  <2>3. m \in Matrices /\ (m = "mixer" => r < card.ins)
        /\ (m = "mixer" => RowInput(r) = r)
    BY <1>0, <2>1 DEF RowMatrix, RowInput, VmixerFirst, Matrices
  <2>4. sel[m].input = RowInput(r) /\ sel[m].output = c
    BY <1>5, <2>2 DEF GInv, PressSelects
  <2>5. c \in Outs /\ (adat \/ c \in Channels(card.spdifOuts))
    BY <1>0, <1>5, <2>1 DEF GMOutputs, Channels
  <2>6. m = "mixer" => adat \/ r \in Channels(card.spdifIns)
    BY <1>0, <1>5, <2>1, <2>3 DEF GMInputs, Channels, VmixerFirst
  <2>7. /\ Keeps
        /\ \A x \in Controls : gain'[x] # gain[x] =>
              /\ x[1] = m
              /\ \/ x[3] = sel[m].input /\ x[2] = c
                 \/ x[3] = Pair(sel[m].input) /\ Pair(x[2]) = c
    BY <1>1, <1>5, <2>3, <2>4, <2>5, CellMoves
  <2>8. DragsRight
    <3>1. SUFFICES ASSUME NEW x \in Controls, gain'[x] # gain[x]
                   PROVE  EnabledControl(x)
      BY DEF DragsRight
    <3>2. x[2] \in Nat /\ Pair(Pair(x[2])) = x[2]
      BY <1>1, ControlShape, PairFacts
    <3>3. x[2] = c \/ x[2] = Pair(c)
      BY <2>7, <3>1, <3>2
    <3>4. adat \/ x[2] < card.spdifOuts
      BY <2>1, <2>5, <3>3, PairChannel DEF Channels
    <3>5. x[1] = "mixer" => x[3] = r \/ x[3] = Pair(r)
      BY <2>3, <2>4, <2>7, <3>1
    <3>6. x[1] = "mixer" => adat \/ x[3] < card.spdifIns
      BY <2>1, <2>6, <2>7, <3>1, <3>5, PairChannel DEF Channels
    <3> QED BY <3>4, <3>6 DEF EnabledControl, Enabled
  <2> QED BY <1>1, <1>3, <2>7, <2>8 DEF StepIsRight, GInv, Keeps, SelectsOnly
<1>6. CASE ~ignored /\ r = LineOutRow /\ MoveLineOut(c, v)
  <2>1. card.spdifOuts \in Nat /\ card.outs \in Nat
        /\ card.spdifOuts <= card.outs /\ card.spdifOuts % 2 = 0
    BY <1>1, CardFacts
  <2>2. c \in Outs /\ (adat \/ c \in Channels(card.spdifOuts))
    BY <1>0, <1>6, <2>1 DEF GMOutputs, Channels
  <2>3. Keeps
    BY <1>1, <1>6, <2>2, LineOutKeeps
  <2>4. DragsRight
    <3>1. SUFFICES ASSUME NEW x \in Controls, gain'[x] # gain[x]
                   PROVE  EnabledControl(x)
      BY DEF DragsRight
    <3>2. x[1] = "lineout" /\ (x[2] = c \/ x[2] = Pair(c))
      BY <1>1, <1>6, <3>1 DEF MoveLineOut, InRange, Stored
    <3>3. adat \/ x[2] < card.spdifOuts
      BY <2>1, <2>2, <3>2, PairChannel DEF Channels
    <3> QED BY <3>2, <3>3 DEF EnabledControl
  <2> QED BY <1>1, <1>3, <2>3, <2>4 DEF StepIsRight, GInv, Keeps, SelectsOnly
<1> QED BY <1>2, <1>4, <1>5, <1>6

-----------------------------------------------------------------------------
(* The digital mode, the session, and the whole next-state relation.       *)

LEMMA FirstIsOK ==
    ASSUME card \in Cards
    PROVE  /\ 0 \in Outs /\ 0 \in Rows
           /\ \A m \in Matrices : Has(m) => 0 \in Inputs(m)
  BY CardFacts DEF Outs, Rows, LineOutRow, Inputs, Channels, Matrices

LEMMA SensitivityIsRight ==
    ASSUME GInv, NEW enable \in BOOLEAN, SetSensitivity(enable)
    PROVE  StepIsRight
<1> DEFINE leaves == /\ Has("mixer") /\ ~enable
                     /\ sel["mixer"].input >= card.spdifIns
           In(m)  == IF m = "mixer" /\ leaves THEN 0 ELSE sel[m].input
           Out(m) == IF ~enable /\ sel[m].output >= card.spdifOuts
                     THEN 0 ELSE sel[m].output
<1>1. /\ card \in Cards /\ InRange /\ card' = card /\ slider' = slider
      /\ ~pressed /\ adat' = enable
      /\ UNCHANGED <<Gang, mouse, pressed, refused>>
      /\ IF leaves THEN SelectInput("mixer", 0) ELSE UNCHANGED <<gain, hw>>
      /\ sel' = [m \in Matrices |-> [input |-> In(m), output |-> Out(m)]]
  BY DEF GInv, SetSensitivity
<1> HIDE DEF leaves
<1>2. Keeps /\ (~Gang => gain' = gain)
  <2>1. CASE leaves
    <3>1. "mixer" \in Matrices /\ Has("mixer") /\ 0 \in Inputs("mixer")
      BY <1>1, <2>1, FirstIsOK DEF leaves, Matrices
    <3> QED BY <1>1, <2>1, <3>1, SelectKeeps
  <2>2. CASE ~leaves
    BY <1>1, <2>2, GainsStay
  <2> QED BY <2>1, <2>2
<1>3. SelectionOK'
  <2>1. \A m \in Matrices :
           /\ In(m) \in {0, sel[m].input} /\ Out(m) \in {0, sel[m].output}
           /\ sel[m].input \in Nat /\ sel[m].output \in Nat
    BY DEF GInv, SelectionOK
  <2>2. sel' \in [Matrices -> [input : Nat, output : Nat]]
    BY <1>1, <2>1
  <2>3. \A m \in Matrices : Has(m) => /\ sel'[m].input \in Inputs(m)
                                      /\ sel'[m].output \in Outs
    BY <1>1, <2>1, FirstIsOK DEF GInv, SelectionOK
  <2> QED BY <1>1, <2>2, <2>3, CardStays DEF SelectionOK
<1>4. MouseOK' /\ PressSelects'
  BY <1>1, CardStays DEF GInv, MouseOK, PressSelects
<1> QED BY <1>1, <1>2, <1>3, <1>4
        DEF StepIsRight, GInv, Keeps, SelectsOnly, DragsRight

LEMMA RestartIsRight ==
    ASSUME GInv, NEW enable \in BOOLEAN, RestartGains(enable)
    PROVE  StepIsRight
<1>1. /\ card \in Cards /\ InRange /\ card' = card /\ gain' = gain
      /\ ~pressed /\ pressed' = pressed /\ refused' = refused
      /\ adat' = enable /\ Gang' = TRUE
      /\ sel' = FirstSelection /\ mouse' = MouseUp
  BY DEF GInv, RestartGains
<1>2. Keeps
  BY <1>1, RestartKeeps
<1>3. SelectionOK'
  BY <1>1, FirstIsOK, CardStays DEF SelectionOK, FirstSelection
<1>4. MouseOK' /\ PressSelects'
  BY <1>1, FirstIsOK, CardStays DEF GInv, MouseOK, MouseUp, PressSelects
<1> QED BY <1>1, <1>2, <1>3, <1>4
        DEF StepIsRight, GInv, Keeps, SelectsOnly, DragsRight

(* Every handler, a new session and a change of the digital mode keep the  *)
(* invariant, the pairs, the agreement with the card, the gains when       *)
(* something is selected, and the disabled channels when dragging.         *)
LEMMA GainsAreRight ==
    ASSUME GInv, GainsNext
    PROVE  StepIsRight
<1>1. CASE \E v \in Gains, o \in Outs :
              \/ Monitor_volume_changed(o, v) \/ Vmixer_volume_changed(o, v)
              \/ LineOut_volume_changed(o, v)
  BY <1>1, SlidersAreRight
<1>2. CASE \/ \E x \in Volumes, v \in Gains : PCM_volume_changed(x, v)
           \/ \E x \in Nominals : Nominal_level_toggled(x)
  BY <1>2, VolumesAreRight
<1>3. CASE \/ \E i \in Inputs("mixer") : Mixer_Input_selector_clicked(i)
           \/ \E i \in Inputs("vmixer") : Vmixer_vchannel_selector_clicked(i)
  BY <1>3, SelectorsAreRight
<1>4. CASE \/ Gang_button_toggled \/ LockControls
           \/ \E m \in Matrices, o \in Outs : Volume_clicked(m, o)
           \/ \E missed \in BOOLEAN : Gmixer_button_release(missed)
  BY <1>4, PanelIsRight
<1>5. CASE \E r \in Rows, c \in Outs \union {-1}, first \in BOOLEAN :
              Gmixer_button_press(r, c, first)
  BY <1>5, PressIsRight
<1>6. CASE \E v \in Gains : Gmixer_motion_notify(v)
  BY <1>6, MotionIsRight
<1>7. CASE \E enable \in BOOLEAN : RestartGains(enable) \/ SetSensitivity(enable)
  BY <1>7, RestartIsRight, SensitivityIsRight
<1> QED BY <1>1, <1>2, <1>3, <1>4, <1>5, <1>6, <1>7 DEF GainsNext, GainsStep

LEMMA PositionType ==
    ASSUME NEW x, NEW v \in Gains, x[1] \in Kinds
    PROVE  Position(x, v) \in Positions(x)
<1>1. v \in MinOut..MaxOut
  BY DEF MinOut, MaxOut
<1> QED BY <1>1 DEF Position, Positions, MinInp, MaxInp, MinOut, MaxOut

LEMMA GainsInitIsRight == GainsInit => GInv
<1> SUFFICES ASSUME GainsInit PROVE GInv
  OBVIOUS
<1>1. card \in Cards /\ OnCard \subseteq Controls
  BY DEF GainsInit, Controls
<1>2. PICK old \in Gains, v \in Gains, file \in BOOLEAN :
         LET h == [x \in OnCard |-> Position(x, old)]
             g == IF file THEN [x \in Controls |-> Position(x, v)] ELSE ReadBack(h)
         IN  /\ gain = g /\ hw = StartedHw(g, h)
             /\ slider = [x \in LineIns |-> g[x]]
  BY DEF GainsInit
<1> DEFINE h == [x \in OnCard |-> Position(x, old)]
<1>3. /\ gain = IF file THEN [x \in Controls |-> Position(x, v)] ELSE ReadBack(h)
      /\ hw = StartedHw(gain, h)
      /\ slider = [x \in LineIns |-> gain[x]]
  BY <1>2
<1>4. OnTheCard(h)
  BY <1>1, PositionType, ControlShape DEF OnTheCard
<1>5. Stored(gain)
  <2>1. CASE file
    BY <1>1, <1>3, <2>1, PositionType, ControlShape DEF Stored
  <2>2. CASE ~file
    <3>1. gain = [x \in Controls |-> IF x \in OnCard THEN h[x] ELSE 0]
      BY <1>3, <2>2 DEF ReadBack
    <3>2. ASSUME NEW x \in Controls PROVE gain[x] \in Positions(x)
      <4>1. CASE x \in OnCard
        BY <1>4, <3>1, <4>1 DEF OnTheCard
      <4>2. CASE x \notin OnCard
        <5>1. x[1] = "lineout"
          BY <1>1, <4>2, OnCardControl
        <5> QED BY <3>1, <4>2, <5>1 DEF Positions, MinOut, MaxOut
      <4> QED BY <4>1, <4>2
    <3> QED BY <3>1, <3>2 DEF Stored
  <2> QED BY <2>1, <2>2
<1> HIDE DEF h
<1>6. OnTheCard(hw)
  BY <1>1, <1>3, <1>4, <1>5, StartedHwType
<1>7. slider \in [LineIns -> MinInp..MaxInp]
  <2>1. LineIns \subseteq Controls
    BY DEF Controls, OnCard, Volumes, LineIns
  <2>2. \A x \in LineIns : gain[x] \in MinInp..MaxInp
    BY <1>1, <1>5, <2>1, LineInControl DEF Stored, Positions
  <2> QED BY <1>3, <2>2
<1>8. SelectionOK /\ MouseOK /\ PressSelects
  <2>1. SelectionOK
    BY <1>1, FirstIsOK DEF GainsInit, SelectionOK, FirstSelection
  <2>2. MouseOK
    BY <1>1, FirstIsOK DEF GainsInit, MouseOK, MouseUp
  <2>3. PressSelects
    BY DEF GainsInit, PressSelects
  <2> QED BY <2>1, <2>2, <2>3
<1> QED BY <1>1, <1>5, <1>6, <1>7, <1>8 DEF GInv, InRange
=============================================================================
