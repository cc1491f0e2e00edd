---------------------------- MODULE AtomicProfile ----------------------------
(***************************************************************************)
(* What the first monitor promises its user: one map from addresses to     *)
(* sums that grows by whole samples of the current target, and reports     *)
(* that each list the addresses of one moment, however long writing them   *)
(* takes and whatever is sampled meanwhile.  Two reports of one target     *)
(* that are written at the same time spoil each other.                     *)
(***************************************************************************)
CONSTANTS
    Pids, Keys,     \* tasks, addresses
    NoPid           \* no target

VARIABLES
    loaded,         \* neither unloaded nor refused
    target,
    sums,           \* sums[k], the pids whose samples are in the sum of k
    report,         \* report[t], the keys reported for t
    open,           \* targets whose reports are being written
    spoiled         \* targets of whose reports nothing is promised

vars == <<loaded, target, sums, report, open, spoiled>>

Targets == Pids \union {NoPid}
Listed  == {k \in Keys : sums[k] # {}}

Init ==
    /\ loaded = TRUE /\ target = NoPid
    /\ sums = [k \in Keys |-> {}]
    /\ report = [t \in Targets |-> {}]
    /\ open = {} /\ spoiled = {}

Retarget(t) ==
    /\ target' = t
    /\ UNCHANGED <<loaded, sums, report, open, spoiled>>

(* A switch of the target at k. *)
Sample(k) ==
    /\ target \in Pids
    /\ sums' = [sums EXCEPT ![k] = @ \union {target}]
    /\ UNCHANGED <<loaded, target, report, open, spoiled>>

(* What will have been written when the report is closed is fixed here. *)
OpenReport ==
    /\ open' = open \union {target}
    /\ \/ /\ target \in open
          /\ spoiled' = spoiled \union {target}
          /\ report' = [report EXCEPT ![target] = {}]
       \/ /\ target \notin open
          /\ spoiled' = spoiled \ {target}
          /\ report' = [report EXCEPT ![target] = Listed]
    /\ UNCHANGED <<loaded, target, sums>>

CloseReport(t) ==
    /\ t \in open
    /\ open' = open \ {t}
    /\ UNCHANGED <<loaded, target, sums, report, spoiled>>

(* The sums go with the module, after the last report is closed. *)
Unload ==
    /\ open = {}
    /\ loaded' = FALSE
    /\ sums' = [k \in Keys |-> {}]
    /\ UNCHANGED <<target, report, open, spoiled>>

Next ==
    /\ loaded
    /\ \/ \E t \in Targets : Retarget(t) \/ CloseReport(t)
       \/ \E k \in Keys : Sample(k)
       \/ OpenReport \/ Unload

Spec == Init /\ [][Next]_vars
=============================================================================
