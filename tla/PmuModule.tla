------------------------------ MODULE PmuModule ------------------------------
(***************************************************************************)
(* pmu_kernel_module/pmu_module.c: loading the module programs the event   *)
(* counters of the CPU that insmod runs on, unloading it reads them on the *)
(* CPU that rmmod runs on.  Every CPU has its own registers, an access to  *)
(* a counter goes through the select register, and nothing keeps either    *)
(* thread on its CPU between two instructions.                             *)
(***************************************************************************)
EXTENDS Integers

CONSTANTS
    Cpus,
    Counters,       \* 0..3 in the code; counter c is to count event c
    Wrap,           \* a counter holds values below Wrap, 2^32 on the A53
    NoEvent,        \* what a counter not yet programmed counts
    MaxLoads,       \* bound: times the module is loaded
    MaxMoves,       \* bound: migrations in one load
    MaxEvents       \* bound: events in one load
ASSUME CountersAssumption == Counters = 0..3 \/ Counters = 0..1
ASSUME WrapAssumption == Wrap \in Nat \ {0} /\ NoEvent \notin Counters
ASSUME PmuBoundsAssumption == MaxLoads \in Nat /\ MaxMoves \in Nat /\ MaxEvents \in Nat

VARIABLES
    at,         \* the next instruction: a label and, in a loop, its counter
    cpu,        \* where the thread of insmod or rmmod runs
    on,         \* the CPUs with PMCR.E set
    select,     \* PMSELR of each CPU
    type, cnt,  \* PMXEVTYPER and PMXEVCNTR, by CPU and counter
    set,        \* PMCNTENSET: by CPU, the counters enabled
    pmcr,       \* whether val or pmcr_val, read from PMCR, has E set
    value,      \* counter_value_daccess and so on
    loads, moves, events,
    (* What really happened on the CPU of insmod, for the properties. *)
    home, sure, maybe,      \* its events while loaded, and since the load began
    excused                 \* a load has failed or changed its CPU

pmuVars == <<at, cpu, on, select, type, cnt, set, pmcr, value, loads, moves,
             events, home, sure, maybe, excused>>
registers == <<on, select, type, cnt, set>>
ghosts    == <<loads, moves, events, home, sure, maybe, excused>>

Zeros == [c \in Counters |-> 0]
Last  == CHOOSE c \in Counters : \A d \in Counters : d <= c
At(label, c) == [label |-> label, c |-> c]
Goto(label) == at' = At(label, 0)
Is(label) == at.label = label

(* The counters may have been enabled by somebody before. *)
PmuInit ==
    /\ at = At("idle", 0) /\ cpu \in Cpus /\ home = cpu
    /\ on = {} /\ select = [k \in Cpus |-> 0]
    /\ type = [k \in Cpus |-> [c \in Counters |-> NoEvent]]
    /\ cnt = [k \in Cpus |-> Zeros]
    /\ set \in {[k \in Cpus |-> {}], [k \in Cpus |-> Counters]}
    /\ pmcr = FALSE /\ value = Zeros
    /\ loads = 0 /\ moves = 0 /\ events = 0
    /\ sure = Zeros /\ maybe = Zeros /\ excused = FALSE

-----------------------------------------------------------------------------
Insmod ==
    /\ Is("idle") /\ loads < MaxLoads /\ loads' = loads + 1
    /\ cpu' \in Cpus /\ home' = cpu'
    /\ moves' = 0 /\ events' = 0 /\ sure' = Zeros /\ maybe' = Zeros
    /\ Goto("userenr")
    /\ UNCHANGED <<registers, pmcr, value, excused>>

(* pmu_module_init writes the encodings of two registers as their values:  *)
(* bit 0 of PMUSERENR stays clear, and PMCNTENSET gets no counter of ours. *)
WriteUserenr ==
    /\ Is("userenr") /\ Goto("read")
    /\ UNCHANGED <<cpu, registers, pmcr, value, ghosts>>
ReadPmcr ==
    /\ Is("read") /\ Goto("enable")
    /\ pmcr' = (cpu \in on)
    /\ UNCHANGED <<cpu, registers, value, ghosts>>
EnablePmu ==
    /\ Is("enable") /\ Goto("select")
    /\ on' = on \union {cpu}
    /\ UNCHANGED <<cpu, select, type, cnt, set, pmcr, value, ghosts>>

(* configure_event_counter, for each counter in turn. *)
SelectToSet ==
    /\ Is("select") /\ at' = At("type", at.c)
    /\ select' = [select EXCEPT ![cpu] = at.c]
    /\ UNCHANGED <<cpu, on, type, cnt, set, pmcr, value, ghosts>>
SetType ==
    /\ Is("type") /\ at' = At("reset", at.c)
    /\ type' = [type EXCEPT ![cpu][select[cpu]] = at.c]
    /\ UNCHANGED <<cpu, on, select, cnt, set, pmcr, value, ghosts>>
ResetCounter ==
    /\ Is("reset") /\ at' = At("count", at.c)
    /\ cnt' = [cnt EXCEPT ![cpu][select[cpu]] = 0]
    /\ UNCHANGED <<cpu, on, select, type, set, pmcr, value, ghosts>>

(* Mutant of EnableCounter: one counter too many is configured. *)
EnableCounterTooMany ==
    /\ Is("count")
    /\ at' = IF at.c > Last THEN At("create", 0) ELSE At("select", at.c + 1)
    /\ set' = [set EXCEPT ![cpu] = @ \union {at.c}]
    /\ UNCHANGED <<cpu, on, select, type, cnt, pmcr, value, ghosts>>
EnableCounter ==
    /\ Is("count")
    /\ at' = IF at.c = Last THEN At("create", 0) ELSE At("select", at.c + 1)
    /\ set' = [set EXCEPT ![cpu] = @ \union {at.c}]
    /\ UNCHANGED <<cpu, on, select, type, cnt, pmcr, value, ghosts>>

(* When the file cannot be created, insmod fails and the PMU stays on. *)
CreateEntry(ok) ==
    /\ Is("create") /\ Goto(IF ok THEN "loaded" ELSE "idle")
    /\ excused' = (excused \/ ~ok)
    /\ UNCHANGED <<cpu, registers, pmcr, value, loads, moves, events, home, sure, maybe>>

Rmmod ==
    /\ Is("loaded") /\ Goto("selectToRead")
    /\ cpu' \in Cpus
    /\ excused' = (excused \/ cpu' # home)
    /\ UNCHANGED <<registers, pmcr, value, loads, moves, events, home, sure, maybe>>

(* Mutant of SelectToRead: the select of the counters after 0 is missing. *)
SelectToReadOnce ==
    /\ Is("selectToRead") /\ at' = At("value", at.c)
    /\ select' = IF at.c = 0 THEN [select EXCEPT ![cpu] = 0] ELSE select
    /\ UNCHANGED <<cpu, on, type, cnt, set, pmcr, value, ghosts>>

(* pmu_module_exit. *)
SelectToRead ==
    /\ Is("selectToRead") /\ at' = At("value", at.c)
    /\ select' = [select EXCEPT ![cpu] = at.c]
    /\ UNCHANGED <<cpu, on, type, cnt, set, pmcr, value, ghosts>>
ReadValue ==
    /\ Is("value")
    /\ at' = IF at.c = Last THEN At("reread", 0) ELSE At("selectToRead", at.c + 1)
    /\ value' = [value EXCEPT ![at.c] = cnt[cpu][select[cpu]]]
    /\ UNCHANGED <<cpu, registers, pmcr, ghosts>>
RereadPmcr ==
    /\ Is("reread") /\ Goto("disable")
    /\ pmcr' = (cpu \in on)
    /\ UNCHANGED <<cpu, registers, value, ghosts>>

(* Mutant of DisablePmu: what was read is written back. *)
DisablePmuNot ==
    /\ Is("disable") /\ Goto("publish")
    /\ on' = IF pmcr THEN on \union {cpu} ELSE on \ {cpu}
    /\ UNCHANGED <<cpu, select, type, cnt, set, pmcr, value, ghosts>>
DisablePmu ==
    /\ Is("disable") /\ Goto("publish")
    /\ on' = on \ {cpu}
    /\ UNCHANGED <<cpu, select, type, cnt, set, pmcr, value, ghosts>>

(* The values are stored for /proc/pmu_counters, and the file is removed. *)
RemoveEntry ==
    /\ Is("publish") /\ Goto("idle")
    /\ UNCHANGED <<cpu, registers, pmcr, value, ghosts>>

Executing == ~Is("idle") /\ ~Is("loaded")
Migrate ==
    /\ Executing /\ moves < MaxMoves /\ moves' = moves + 1
    /\ cpu' \in Cpus \ {cpu}
    /\ excused' = TRUE
    /\ UNCHANGED <<at, registers, pmcr, value, loads, events, home, sure, maybe>>

(* Event e happens on CPU k. *)
Happens(k, e) ==
    /\ ~Is("idle") /\ events < MaxEvents /\ events' = events + 1
    /\ cnt' = [cnt EXCEPT ![k] = [c \in Counters |->
                  IF k \in on /\ c \in set[k] /\ type[k][c] = e
                  THEN (cnt[k][c] + 1) % Wrap ELSE cnt[k][c]]]
    /\ maybe' = IF k = home THEN [maybe EXCEPT ![e] = @ + 1] ELSE maybe
    /\ sure' = IF k = home /\ Is("loaded") THEN [sure EXCEPT ![e] = @ + 1] ELSE sure
    /\ UNCHANGED <<at, cpu, on, select, type, set, pmcr, value, loads, moves, home, excused>>

PmuStep ==
    \/ Insmod \/ WriteUserenr \/ ReadPmcr \/ EnablePmu
    \/ SelectToSet \/ SetType \/ ResetCounter \/ EnableCounter
    \/ \E ok \in BOOLEAN : CreateEntry(ok)
    \/ Rmmod \/ SelectToRead \/ ReadValue \/ RereadPmcr \/ DisablePmu \/ RemoveEntry
    \/ Migrate
    \/ \E k \in Cpus, e \in Counters : Happens(k, e)

-----------------------------------------------------------------------------
PmuTypeOK ==
    /\ at.c \in Counters /\ {cpu, home} \subseteq Cpus /\ on \in SUBSET Cpus
    /\ select \in [Cpus -> Counters] /\ set \in [Cpus -> SUBSET Counters]
    /\ type \in [Cpus -> [Counters -> Counters \union {NoEvent}]]
    /\ cnt \in [Cpus -> [Counters -> 0..(Wrap - 1)]]
    /\ value \in [Counters -> 0..(Wrap - 1)]
    /\ loads \in 0..MaxLoads /\ moves \in 0..MaxMoves /\ events \in 0..MaxEvents
    /\ {pmcr, excused} \subseteq BOOLEAN

(* When insmod and rmmod stayed on one CPU in this load and those before,  *)
(* each value is that of its event on this CPU, modulo the width of a      *)
(* counter: all that happened while the module was loaded, and at most     *)
(* what happened while it was being loaded or unloaded.                    *)
ValuesCoverLoad ==
    Is("publish") /\ ~excused =>
        \A c \in Counters :
            \E n \in sure[c]..maybe[c] : value[c] = n % Wrap

(* Unloading leaves no PMU on, unless a load failed or changed its CPU.    *)
OffAfterUnload == Is("idle") /\ ~excused => on = {}
=============================================================================
