--------------------------- MODULE SamplingSession ---------------------------
(***************************************************************************)
(* What the second monitor promises a user who monitors one task after the *)
(* other: a request becomes a session of the task it names, with counters  *)
(* of its own, or is refused; the session makes complete passes over them, *)
(* one after the other, each begun when the task lived; it ends at the     *)
(* first look after its task has exited or at unloading, and never in the  *)
(* middle of a pass.  Nothing is promised after other use.                 *)
(***************************************************************************)
EXTENDS Integers

CONSTANTS
    Pids, NoTask,
    NumEvents       \* counters that a pass reads

VARIABLES
    orderly,        \* one task after the other so far
    request,        \* the task whose session is being started
    requests,       \* requests so far
    session,        \* the task that is sampled
    counters,       \* the request that made the counters it is sampled with
    pass,           \* how many of them the pass in progress has read
    exited,
    over            \* unloaded, or not loaded at all

vars == <<orderly, request, requests, session, counters, pass, exited, over>>

NoPass == -2
Look   == -1        \* a pass that has not yet looked whether the task lives

Init ==
    /\ orderly = TRUE
    /\ request = NoTask /\ requests = 0
    /\ session = NoTask /\ counters = 0 /\ pass = NoPass
    /\ exited = {} /\ over = FALSE

Request(p) ==
    /\ ~over /\ request = NoTask /\ session = NoTask
    /\ request' = p /\ requests' = requests + 1
    /\ UNCHANGED <<session, counters, pass, exited, over>>

Refuse ==
    /\ request # NoTask
    /\ request' = NoTask
    /\ UNCHANGED <<requests, session, counters, pass, exited, over>>

Begin ==
    /\ request # NoTask
    /\ session' = request /\ counters' = requests
    /\ request' = NoTask
    /\ UNCHANGED <<requests, pass, exited, over>>

BeginPass ==
    /\ session # NoTask /\ pass = NoPass
    /\ pass' = Look
    /\ UNCHANGED <<request, requests, session, counters, exited, over>>

FindAlive ==
    /\ pass = Look /\ session \notin exited
    /\ pass' = 0
    /\ UNCHANGED <<request, requests, session, counters, exited, over>>

ReadCounter ==
    /\ pass \in 0..(NumEvents - 1)
    /\ pass' = pass + 1
    /\ UNCHANGED <<request, requests, session, counters, exited, over>>

EndPass ==
    /\ pass = NumEvents
    /\ pass' = NoPass
    /\ UNCHANGED <<request, requests, session, counters, exited, over>>

FallSilent ==
    /\ pass = Look /\ session \in exited
    /\ session' = NoTask /\ counters' = 0 /\ pass' = NoPass
    /\ UNCHANGED <<request, requests, exited, over>>

Exit(p) ==
    /\ exited' = exited \union {p}
    /\ UNCHANGED <<request, requests, session, counters, pass, over>>

Unload ==
    /\ ~over /\ request = NoTask /\ pass = NoPass
    /\ session' = NoTask /\ counters' = 0 /\ over' = TRUE
    /\ UNCHANGED <<request, requests, pass, exited>>

Orderly ==
    \/ \E p \in Pids : Request(p) \/ Exit(p)
    \/ Refuse \/ Begin
    \/ BeginPass \/ FindAlive \/ ReadCounter \/ EndPass \/ FallSilent
    \/ Unload

(* A departure, and what follows it, may change everything. *)
Next == orderly' = FALSE \/ (orderly /\ orderly' = orderly /\ Orderly)

Spec == Init /\ [][Next]_vars
=============================================================================
