---------------------------- MODULE AtomicMessage ----------------------------
(***************************************************************************)
(* What the proc message file of the switch probe promises its readers: it *)
(* behaves as one register that holds the announcement of some pid that    *)
(* has been written, and every read(2) call copies pieces of one value of  *)
(* that register, however many context switches happen meanwhile.          *)
(***************************************************************************)
EXTENDS Integers, Sequences

CONSTANTS
    Procs,      \* processes; each is its own pid
    Pieces,     \* an announcement is copied in this many pieces
    NoPid       \* target_pid before the first write; the empty message

VARIABLES
    written,    \* pids written so far
    message,    \* the pid the register announces, NoPid while empty
    got         \* got[p], what the latest read call of p returned

vars == <<written, message, got>>

Init == written = {} /\ message = NoPid /\ got = [p \in Procs |-> <<>>]

Retarget(p) == written' = written \union {p} /\ UNCHANGED <<message, got>>

Announce(p) == p \in written /\ message' = p /\ UNCHANGED <<written, got>>

(* A read may be short, and is empty while there is no message. *)
Fetch(p) ==
    /\ \E n \in 0..Pieces :
         /\ message = NoPid => n = 0
         /\ got' = [got EXCEPT ![p] = [i \in 1..n |-> message]]
    /\ UNCHANGED <<written, message>>

Next == \E p \in Procs : Retarget(p) \/ Announce(p) \/ Fetch(p)

Spec == Init /\ [][Next]_vars
=============================================================================
