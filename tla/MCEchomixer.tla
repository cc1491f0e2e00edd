---------------------------- MODULE MCEchomixer ----------------------------
EXTENDS Echomixer

Card(kinds, ins, spdif, locks) ==
    [kinds |-> kinds, ins |-> ins, outs |-> 2, vouts |-> 2,
     spdifIns |-> spdif, spdifOuts |-> 2, refuses |-> locks]

(* Emulated line-outs; a vmixer and line-outs of its own; ADAT inputs;     *)
(* single volumes and nominal levels, and another program at its controls. *)
ADAT    == Card({"mixer", "lineout"}, 4, 2, FALSE)
MCCards == {Card({"mixer"}, 2, 2, FALSE),
            Card({"mixer", "vmixer", "lineout"}, 2, 2, FALSE),
            ADAT,
            Card({"pcm", "linein", "nominal"}, 2, 2, TRUE)}
MCGains == {-70, 6}

(* Bound: on a card with more than six gains, steps start where at most    *)
(* one of them is high, on the largest card one of the first output.       *)
High      == {x \in Controls : gain[x] = 6}
FewAreHigh == \/ part # "gains"
              \/ Cardinality(Controls) <= 6
              \/ /\ Cardinality(High) <= 1
                 /\ card = ADAT => \A x \in High : x[2] = 0
============================================================================
