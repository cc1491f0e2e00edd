--------------------------- MODULE CounterSampling ---------------------------
(***************************************************************************)
(* What the numbers printed by sample_perf_counters in                     *)
(* cache_kprobe_monitor_v2.c count.  init_perf_counters makes one kernel   *)
(* event after the other, each for the CPU the writer runs on and for no   *)
(* task in particular; each counts from its creation on.  Every second the *)
(* callback reads the events in order and prints the difference to the     *)
(* value of the previous second, a u64 subtraction.                        *)
(*                                                                         *)
(* Tasks move between CPUs and make the hardware tick.  perf owns fewer    *)
(* hardware counters than the module asks for, so it rotates the events;   *)
(* one that is not loaded misses the ticks of that time.  Life cycle and   *)
(* faults are in MonitorV2: here one session runs after the other and its  *)
(* objects stay alive.                                                     *)
(***************************************************************************)
EXTENDS Integers, FiniteSets

CONSTANTS
    Cpus, Tasks,
    Idle,       \* what a CPU runs when no task does
    NumEvents,  \* NUM_EVENTS
    Slots,      \* hardware counters perf can load at once
    Width,      \* counters hold values modulo Width (2^64)
    MaxTicks    \* bound on the ticks of one session

ASSUME CpusAssumption == Cpus # {} /\ IsFiniteSet(Cpus)
ASSUME TasksAssumption == Idle \notin Tasks
ASSUME SizesAssumption ==
    /\ NumEvents \in Nat \ {0} /\ Slots \in Nat \ {0}
    /\ Width \in Nat \ {0, 1} /\ MaxTicks \in Nat

VARIABLES
    on,         \* on[c], the task CPU c runs
    session,    \* "off", "create" while events are made, "on"
    target,     \* the task of the session
    cpu,        \* the CPU the events count on
    created,    \* how many events exist
    loaded,     \* which of them have a hardware counter now
    count,      \* their values
    prev,       \* prev_values
    reading,    \* loop index of a running callback, 0 outside it
    reported,   \* sum of the deltas printed for each event
    \* History, to compare the report with:
    ticked,     \* ticks on cpu since the event's creation
    missed,     \* those that came while it was not loaded
    unread,     \* those counted since its last read
    ofTarget,   \* ticks the target made anywhere since then
    strayed     \* the target ran on another CPU since the session began

schedVars   == <<on>>
sessionVars == <<session, target, cpu, created>>
readerVars  == <<prev, reading, reported>>
historyVars == <<ticked, missed, ofTarget>>
vars == <<schedVars, sessionVars, loaded, count, readerVars, historyVars,
          unread, strayed>>

Indices == 1..NumEvents
Zero    == [i \in Indices |-> 0]

(* What perf may load of n events: other users of perf, the leaked events   *)
(* of earlier sessions among them, compete for the hardware counters.      *)
Loadable(n) == {S \in SUBSET (1..n) : Cardinality(S) <= Slots}

Init ==
    /\ on = [c \in Cpus |-> Idle]
    /\ session = "off" /\ target \in Tasks /\ cpu \in Cpus
    /\ created = 0 /\ loaded = {} /\ count = Zero
    /\ prev = Zero /\ reading = 0 /\ reported = Zero
    /\ ticked = Zero /\ missed = Zero /\ ofTarget = Zero
    /\ unread = Zero /\ strayed = FALSE

-----------------------------------------------------------------------------
(* The machine.                                                            *)

(* A CPU switches to another task or goes idle.  The writer holds get_cpu  *)
(* while it makes events, so its own CPU does not switch then.             *)
Switch(c, t) ==
    /\ t # on[c] /\ t \in Tasks => \A d \in Cpus : on[d] # t
    /\ ~(session = "create" /\ c = cpu)
    /\ on' = [on EXCEPT ![c] = t]
    /\ strayed' = (strayed \/ (t = target /\ c # cpu))
    /\ UNCHANGED <<sessionVars, loaded, count, readerVars, historyVars, unread>>

(* The task on c causes event i in user mode; the writer, while it makes   *)
(* events, is in the kernel, which exclude_kernel leaves out.              *)
Tick(c, i) ==
    /\ on[c] # Idle /\ i <= created
    /\ ~(session = "create" /\ c = cpu)
    /\ ticked[i] < MaxTicks /\ ofTarget[i] < MaxTicks
    /\ unread[i] < Width - 1        \* 2^64 ticks do not fit in a second
    /\ ofTarget' = [ofTarget EXCEPT ![i] = @ + IF on[c] = target THEN 1 ELSE 0]
    /\ IF c # cpu THEN UNCHANGED <<count, unread, ticked, missed>>
       ELSE /\ ticked' = [ticked EXCEPT ![i] = @ + 1]
            /\ IF i \in loaded
               THEN /\ count' = [count EXCEPT ![i] = (@ + 1) % Width]
                    /\ unread' = [unread EXCEPT ![i] = @ + 1]
                    /\ UNCHANGED missed
               ELSE /\ missed' = [missed EXCEPT ![i] = @ + 1]
                    /\ UNCHANGED <<count, unread>>
    /\ UNCHANGED <<schedVars, sessionVars, loaded, readerVars, strayed>>

Rotate ==
    /\ created > 0
    /\ loaded' \in Loadable(created) \ {loaded}
    /\ UNCHANGED <<schedVars, sessionVars, count, readerVars, historyVars,
                   unread, strayed>>

-----------------------------------------------------------------------------
(* The module.                                                             *)

(* Seeded fault: the CPU is read before preemption is disabled. *)
StartSessionMigrated(t, c, writer) ==
    /\ session = "off" /\ on[c] = writer
    /\ session' = "create" /\ target' = t /\ cpu' \in Cpus
    /\ created' = 0 /\ loaded' = {} /\ count' = Zero
    /\ prev' = Zero /\ reported' = Zero
    /\ ticked' = Zero /\ missed' = Zero /\ ofTarget' = Zero
    /\ unread' = Zero
    /\ strayed' = (\E d \in Cpus \ {c} : on[d] = t)
    /\ UNCHANGED <<schedVars, reading>>

(* init_perf_counters begins: kzalloc clears the block, get_cpu names the  *)
(* CPU the writer t is on.                                                 *)
StartSession(t, c, writer) ==
    /\ session = "off" /\ on[c] = writer
    /\ session' = "create" /\ target' = t /\ cpu' = c
    /\ created' = 0 /\ loaded' = {} /\ count' = Zero
    /\ prev' = Zero /\ reported' = Zero
    /\ ticked' = Zero /\ missed' = Zero /\ ofTarget' = Zero
    /\ unread' = Zero
    /\ strayed' = (\E d \in Cpus \ {c} : on[d] = t)
    /\ UNCHANGED <<schedVars, reading>>

(* Seeded fault: the loop index is read before it is bounded. *)
CreateEventTooMany ==
    /\ session = "create"
    /\ created' = created + 1
    /\ loaded' \in Loadable(created')
    /\ session' = IF created' > NumEvents THEN "on" ELSE "create"
    /\ UNCHANGED <<schedVars, target, cpu, count, readerVars, historyVars,
                   unread, strayed>>

(* perf_event_create_kernel_counter(&attr, cpu, NULL, ...), prev_values 0. *)
CreateEvent ==
    /\ session = "create"
    /\ created' = created + 1
    /\ loaded' \in Loadable(created')
    /\ prev' = [prev EXCEPT ![created'] = 0]
    /\ session' = IF created' = NumEvents THEN "on" ELSE "create"
    /\ UNCHANGED <<schedVars, target, cpu, count, reading, reported,
                   historyVars, unread, strayed>>

BeginSample ==
    /\ session = "on" /\ reading = 0
    /\ reading' = 1
    /\ UNCHANGED <<schedVars, sessionVars, loaded, count, prev, reported,
                   historyVars, unread, strayed>>

(* Seeded fault: the difference is taken as if counters never wrapped. *)
DeltaClamped(new, old) == IF new >= old THEN new - old ELSE 0

(* Seeded fault: a signed difference. *)
DeltaSigned(new, old) == new - old

(* The u64 subtraction new_value - prev_values[i]. *)
Delta(new, old) == (new - old) % Width

(* One turn of the loop.  The enabled and running times that would tell    *)
(* how long the event was loaded are read and dropped.                     *)
ReadCounter ==
    /\ reading # 0
    /\ LET d == Delta(count[reading], prev[reading]) IN
       reported' = [reported EXCEPT ![reading] = @ + d]
    /\ prev' = [prev EXCEPT ![reading] = count[reading]]
    /\ unread' = [unread EXCEPT ![reading] = 0]
    /\ reading' = IF reading < NumEvents THEN reading + 1 ELSE 0
    /\ UNCHANGED <<schedVars, sessionVars, loaded, count, historyVars, strayed>>

(* The task is gone: HRTIMER_NORESTART, and another pid may be written. *)
EndSession ==
    /\ session = "on" /\ reading = 0
    /\ \A c \in Cpus : on[c] # target
    /\ session' = "off"
    /\ UNCHANGED <<schedVars, target, cpu, created, loaded, count, readerVars,
                   historyVars, unread, strayed>>

Next ==
    \/ \E c \in Cpus, t \in Tasks \union {Idle} : Switch(c, t)
    \/ \E c \in Cpus, i \in Indices : Tick(c, i)
    \/ Rotate
    \/ \E t, w \in Tasks, c \in Cpus : StartSession(t, c, w)
    \/ CreateEvent \/ BeginSample \/ ReadCounter \/ EndSession

Spec == Init /\ [][Next]_vars

-----------------------------------------------------------------------------
(* The variables keep their types; count and prev stay below Width. *)
TypeOK ==
    /\ on \in [Cpus -> Tasks \union {Idle}]
    /\ session \in {"off", "create", "on"}
    /\ target \in Tasks /\ cpu \in Cpus
    /\ created \in 0..NumEvents /\ loaded \subseteq 1..created
    /\ count \in [Indices -> 0..(Width - 1)]
    /\ prev \in [Indices -> 0..(Width - 1)]
    /\ reading \in 0..NumEvents
    /\ reported \in [Indices -> Nat]
    /\ ticked \in [Indices -> Nat] /\ missed \in [Indices -> Nat]
    /\ ofTarget \in [Indices -> Nat] /\ unread \in [Indices -> Nat]
    /\ strayed \in BOOLEAN

(* Over any run of samples, each one racing with the ticks, with counter   *)
(* wrap-around and with rotation, what was printed for an event and what   *)
(* is still unread are the ticks of its CPU, less those that came while it *)
(* was not loaded: the deltas lose nothing and count nothing twice.        *)
NothingLostOrDoubled ==
    \A i \in Indices : reported[i] + unread[i] + missed[i] = ticked[i]

(* A target that stays on the CPU its pid was written on is never missed   *)
(* for another reason than rotation: the numbers bound its own ticks from  *)
(* above, whatever else ran there.                                         *)
CoversPinnedTarget ==
    ~strayed => \A i \in Indices :
        reported[i] + unread[i] >= ofTarget[i] - missed[i]

(* The description "perf monitor on context switch by PID": what is        *)
(* printed was caused by the task whose pid was written.                   *)
CountsByPid == \A i \in Indices : reported[i] <= ofTarget[i]
=============================================================================
