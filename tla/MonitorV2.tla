------------------------------ MODULE MonitorV2 ------------------------------
(***************************************************************************)
(* The life cycle of the second kernel module,                             *)
(* cache_kprobe_monitor_v2.c: loading, a write to /proc/cache_kmv2_pid     *)
(* (pid_write -> start_monitoring -> init_perf_counters), the hrtimer that *)
(* samples the counters, the exit of the monitored task, and unloading     *)
(* (stop_monitoring, removal of the proc entries and of the kprobe).       *)
(*                                                                         *)
(* None of these takes a lock, so each statement that reads or writes a    *)
(* global is a step of its own; writers, the timer callback, the unloading *)
(* thread and the monitored tasks interleave freely.                       *)
(*                                                                         *)
(* What a step would touch is modelled by liveness, not by content: a      *)
(* counter block is its ordinal, live while in heap; an event is           *)
(* <<block, index>>, live while in events; a task is freed once it has     *)
(* exited and this module holds no reference to it.  A step that would     *)
(* touch something dead is the action Crash, which names the fault and     *)
(* ends the behaviour.                                                     *)
(***************************************************************************)
EXTENDS Integers, FiniteSets

CONSTANTS
    Pids,       \* tasks whose pid may be written
    Writers,    \* processes that may be inside pid_write at once
    NumEvents,  \* NUM_EVENTS, the hardware events of one block
    MaxStarts,  \* bound on the number of pid writes
    NoTask      \* NULL, and the pid -1

ASSUME NumEventsAssumption == NumEvents \in Nat \ {0}
ASSUME MaxStartsAssumption == MaxStarts \in Nat
ASSUME PidsAssumption == NoTask \notin Pids

VARIABLES
    stage,          \* how far loading or unloading has come
    entries,        \* which of the kprobe and the two proc entries exist
    stopBlock,      \* the argument of cleanup_perf_counters
    target_pid, monitored_task, perf_data,    \* the module's globals
    timer,          \* sample_timer: never initialised, idle or queued
    callback,       \* where sample_perf_counters is
    cbEvent,        \* its loop index
    wpc, wblock, wevent,    \* where each writer is, its local block and index
    starts,         \* pid writes so far (names the next block)
    outcome,        \* how the latest start_monitoring ended
    heap, events,   \* live blocks and live kernel events
    exited, refs,   \* tasks the kernel released; references held here
    risks,          \* history: departures from the one-session-at-a-time use
    fault           \* "none", or what the program broke

moduleVars  == <<stage, entries, stopBlock>>
globalVars  == <<target_pid, monitored_task, perf_data>>
timerVars   == <<timer, callback, cbEvent>>
writerVars  == <<wpc, wblock, wevent, starts, outcome>>
counterVars == <<heap, events>>
taskVars    == <<exited, refs>>
vars == <<moduleVars, globalVars, timerVars, writerVars, counterVars,
          taskVars, risks, fault>>

Tasks     == Pids \union {NoTask}
BlockIds  == 1..MaxStarts
Indices   == 1..NumEvents
NoBlock   == 0

LoadStages == {"out", "load_pid", "load_message"}
ExitStages == {"cancel", "cleanup", "put", "clear", "rm_message", "rm_pid",
               "drain", "rm_kprobe"}
Stages     == LoadStages \union ExitStages \union {"live", "failed", "gone"}
Outcomes   == {"none", "pending", "no_task", "no_counters", "armed"}
Risks  == {"overlap", "retarget", "late", "idle_unload", "raced_exit",
           "load_failed"}
Faults == {"null_timer", "timer_reinit", "null_task", "freed_task",
           "ref_underflow", "null_counters", "freed_counters", "freed_text"}

TextPresent  == stage \notin {"out", "failed", "gone"}
TimerActive  == timer = "queued" \/ callback # "idle"
WriterActive == \E w \in Writers : wpc[w] # "idle"
EventsOf(b)  == {b} \X Indices
Freed(p)     == p \in exited /\ refs[p] = 0

Init ==
    /\ stage = "out" /\ entries = {} /\ stopBlock = NoBlock
    /\ target_pid = NoTask /\ monitored_task = NoTask /\ perf_data = NoBlock
    /\ timer = "unset" /\ callback = "idle" /\ cbEvent = 1
    /\ wpc = [w \in Writers |-> "idle"]
    /\ wblock = [w \in Writers |-> NoBlock]
    /\ wevent = [w \in Writers |-> 1]
    /\ starts = 0 /\ outcome = "none"
    /\ heap = {} /\ events = {}
    /\ exited = {} /\ refs = [p \in Pids |-> 0]
    /\ risks = {} /\ fault = "none"

-----------------------------------------------------------------------------
(* Loading: cache_kprobe_monitor_v2_init.  The pid entry accepts writes    *)
(* from the moment it is created.  When the message entry cannot be made,  *)
(* the handler removes proc_entry_message, the NULL it just got, and the   *)
(* pid entry stays behind.                                                 *)

RegisterKprobe ==
    /\ stage = "out"
    /\ \/ stage' = "load_pid" /\ entries' = {"kprobe"}
       \/ stage' = "failed" /\ UNCHANGED entries
    /\ UNCHANGED <<stopBlock, globalVars, timerVars, writerVars, counterVars,
                   taskVars, risks, fault>>

CreatePidEntry ==
    /\ stage = "load_pid"
    /\ \/ stage' = "load_message" /\ entries' = entries \union {"pid"}
       \/ stage' = "failed" /\ entries' = entries \ {"kprobe"}
    /\ UNCHANGED <<stopBlock, globalVars, timerVars, writerVars, counterVars,
                   taskVars, risks, fault>>

CreateMessageEntry ==
    /\ stage = "load_message"
    /\ \/ /\ stage' = "live" /\ entries' = entries \union {"message"}
          /\ UNCHANGED risks
       \/ /\ stage' = "failed" /\ entries' = entries \ {"kprobe"}
          /\ risks' = risks \union {"load_failed"}
    /\ UNCHANGED <<stopBlock, globalVars, timerVars, writerVars, counterVars,
                   taskVars, fault>>

-----------------------------------------------------------------------------
(* A pid write: pid_write, start_monitoring, init_perf_counters.           *)

Goto(w, pc) == wpc' = [wpc EXCEPT ![w] = pc]

(* The call ends and its locals with it. *)
Return(w, result) ==
    /\ Goto(w, "idle")
    /\ wblock' = [wblock EXCEPT ![w] = NoBlock]
    /\ wevent' = [wevent EXCEPT ![w] = 1]
    /\ outcome' = result

(* How this write departs from one session at a time. *)
WriteRisks ==
    {r \in Risks : \/ r = "overlap" /\ WriterActive
                   \/ r = "retarget" /\ TimerActive
                   \/ r = "late" /\ stage \in ExitStages}

(* kstrtoint stores the pid in target_pid; a rejected write changes nothing. *)
SetTarget(w, p) ==
    /\ TextPresent /\ "pid" \in entries /\ wpc[w] = "idle"
    /\ starts < MaxStarts
    /\ target_pid' = p
    /\ starts' = starts + 1
    /\ wblock' = [wblock EXCEPT ![w] = starts + 1]
    /\ Goto(w, "lookup")
    /\ outcome' = "pending"
    /\ risks' = risks \union WriteRisks
    /\ UNCHANGED <<moduleVars, monitored_task, perf_data, timerVars, wevent,
                   counterVars, taskVars, fault>>

(* Seeded fault: the lookup waits for a task that is not there. *)
LookupTaskWaiting(w) ==
    /\ TextPresent /\ wpc[w] = "lookup" /\ target_pid \notin exited
    /\ monitored_task' = target_pid
    /\ Goto(w, "get")
    /\ UNCHANGED <<moduleVars, target_pid, perf_data, timerVars, wblock, wevent,
                   starts, outcome, counterVars, taskVars, risks, fault>>

(* pid_task(find_vpid(target_pid)), outside any RCU read section. *)
LookupTask(w) ==
    /\ TextPresent /\ wpc[w] = "lookup"
    /\ IF target_pid \in exited
       THEN /\ monitored_task' = NoTask
            /\ Return(w, "no_task")
       ELSE /\ monitored_task' = target_pid
            /\ Goto(w, "get") /\ UNCHANGED <<wblock, wevent, outcome>>
    /\ UNCHANGED <<moduleVars, target_pid, perf_data, timerVars, starts,
                   counterVars, taskVars, risks, fault>>

(* Seeded fault: the task is used without taking a reference. *)
GetTaskUncounted(w) ==
    /\ TextPresent /\ wpc[w] = "get"
    /\ monitored_task # NoTask /\ ~Freed(monitored_task)
    /\ Goto(w, "alloc")
    /\ UNCHANGED <<moduleVars, globalVars, timerVars, wblock, wevent, starts,
                   outcome, counterVars, taskVars, risks, fault>>

(* get_task_struct(monitored_task), which reads the global again. *)
GetTask(w) ==
    /\ TextPresent /\ wpc[w] = "get"
    /\ monitored_task # NoTask /\ ~Freed(monitored_task)
    /\ refs' = [refs EXCEPT ![monitored_task] = @ + 1]
    /\ Goto(w, "alloc")
    /\ UNCHANGED <<moduleVars, globalVars, timerVars, wblock, wevent, starts,
                   outcome, counterVars, exited, risks, fault>>

(* init_perf_counters returned NULL: the reference just taken stays. *)
NoCounters(w) ==
    /\ perf_data' = NoBlock
    /\ Return(w, "no_counters")

AllocCounters(w) ==
    /\ TextPresent /\ wpc[w] = "alloc"
    /\ \/ /\ heap' = heap \union {wblock[w]}
          /\ Goto(w, "create")
          /\ UNCHANGED <<perf_data, wblock, wevent, outcome>>
       \/ NoCounters(w) /\ UNCHANGED heap
    /\ UNCHANGED <<moduleVars, target_pid, monitored_task, timerVars, starts,
                   events, taskVars, risks, fault>>

(* Seeded fault: the release loop stops one event early. *)
ReleasePartialShort(w) ==
    /\ events' = events \ {<<wblock[w], i>> : i \in 2..(wevent[w] - 1)}
    /\ heap' = heap \ {wblock[w]}

(* perf_event_create_kernel_counter failed: release the events made so far *)
(* and the block.                                                          *)
ReleasePartial(w) ==
    /\ events' = events \ {<<wblock[w], i>> : i \in 1..(wevent[w] - 1)}
    /\ heap' = heap \ {wblock[w]}

(* Seeded fault: the loop runs once too often. *)
CreateEventOnceMore(w) ==
    /\ TextPresent /\ wpc[w] = "create"
    /\ \/ /\ events' = events \union {<<wblock[w], wevent[w]>>}
          /\ IF wevent[w] <= NumEvents
             THEN /\ wevent' = [wevent EXCEPT ![w] = @ + 1]
                  /\ UNCHANGED <<wpc, perf_data>>
             ELSE /\ perf_data' = wblock[w]
                  /\ Goto(w, "init") /\ UNCHANGED wevent
          /\ UNCHANGED <<heap, wblock, outcome>>
       \/ ReleasePartial(w) /\ NoCounters(w)
    /\ UNCHANGED <<moduleVars, target_pid, monitored_task, timerVars, starts,
                   taskVars, risks, fault>>

(* One turn of the loop; the last one returns the block to perf_data. *)
CreateEvent(w) ==
    /\ TextPresent /\ wpc[w] = "create"
    /\ \/ /\ events' = events \union {<<wblock[w], wevent[w]>>}
          /\ IF wevent[w] < NumEvents
             THEN /\ wevent' = [wevent EXCEPT ![w] = @ + 1]
                  /\ UNCHANGED <<wpc, perf_data>>
             ELSE /\ perf_data' = wblock[w]
                  /\ Goto(w, "init") /\ UNCHANGED wevent
          /\ UNCHANGED <<heap, wblock, outcome>>
       \/ ReleasePartial(w) /\ NoCounters(w)
    /\ UNCHANGED <<moduleVars, target_pid, monitored_task, timerVars, starts,
                   taskVars, risks, fault>>

(* hrtimer_init must not be given an active timer. *)
InitTimer(w) ==
    /\ TextPresent /\ wpc[w] = "init" /\ ~TimerActive
    /\ timer' = "idle"
    /\ Goto(w, "arm")
    /\ UNCHANGED <<moduleVars, globalVars, callback, cbEvent, wblock, wevent,
                   starts, outcome, counterVars, taskVars, risks, fault>>

StartTimer(w) ==
    /\ TextPresent /\ wpc[w] = "arm"
    /\ timer' = "queued"
    /\ Return(w, "armed")
    /\ UNCHANGED <<moduleVars, globalVars, callback, cbEvent, starts,
                   counterVars, taskVars, risks, fault>>

-----------------------------------------------------------------------------
(* The timer.  The kernel takes the timer off its queue before it calls    *)
(* sample_perf_counters and never runs the callback twice at once.         *)

Fire ==
    /\ TextPresent /\ timer = "queued" /\ callback = "idle"
    /\ timer' = "idle" /\ callback' = "check"
    /\ UNCHANGED <<moduleVars, globalVars, cbEvent, writerVars, counterVars,
                   taskVars, risks, fault>>

(* Seeded fault: only the NULL check is left. *)
CheckTaskNotAlive ==
    /\ TextPresent /\ callback = "check"
    /\ callback' = IF monitored_task # NoTask THEN "regs" ELSE "idle"
    /\ UNCHANGED <<moduleVars, globalVars, timer, cbEvent, writerVars,
                   counterVars, taskVars, risks, fault>>

(* monitored_task && pid_alive(monitored_task); else HRTIMER_NORESTART. *)
CheckTask ==
    /\ TextPresent /\ callback = "check"
    /\ IF monitored_task # NoTask /\ monitored_task \notin exited
       THEN callback' = "regs"
       ELSE /\ monitored_task # NoTask => ~Freed(monitored_task)
            /\ callback' = "idle"
    /\ UNCHANGED <<moduleVars, globalVars, timer, cbEvent, writerVars,
                   counterVars, taskVars, risks, fault>>

(* task_pt_regs(monitored_task)->pc reads the global once more. *)
ReadRegs ==
    /\ TextPresent /\ callback = "regs"
    /\ monitored_task # NoTask /\ ~Freed(monitored_task)
    /\ callback' = "read"
    /\ UNCHANGED <<moduleVars, globalVars, timer, cbEvent, writerVars, counterVars,
                   taskVars, risks, fault>>

(* perf_event_read_value(perf_data->events[i]) and prev_values[i]. *)
ReadEvent ==
    /\ TextPresent /\ callback = "read"
    /\ perf_data \in heap /\ <<perf_data, cbEvent>> \in events
    /\ IF cbEvent < NumEvents
       THEN cbEvent' = cbEvent + 1 /\ UNCHANGED callback
       ELSE cbEvent' = 1 /\ callback' = "rearm"
    /\ UNCHANGED <<moduleVars, globalVars, timer, writerVars, counterVars,
                   taskVars, risks, fault>>

(* hrtimer_forward_now, HRTIMER_RESTART: the kernel queues the timer again. *)
Rearm ==
    /\ TextPresent /\ callback = "rearm"
    /\ callback' = "idle" /\ timer' = "queued"
    /\ UNCHANGED <<moduleVars, globalVars, cbEvent, writerVars, counterVars,
                   taskVars, risks, fault>>

-----------------------------------------------------------------------------
(* Unloading: cache_kprobe_monitor_v2_exit, which calls stop_monitoring    *)
(* first and only then takes the proc entries away.                        *)

UnloadRisks ==
    {r \in Risks : \/ r = "idle_unload" /\ outcome # "armed"
                   \/ r = "late" /\ WriterActive}

ExitBegin ==
    /\ stage = "live"
    /\ stage' = "cancel"
    /\ risks' = risks \union UnloadRisks
    /\ UNCHANGED <<entries, stopBlock, globalVars, timerVars, writerVars,
                   counterVars, taskVars, fault>>

(* Seeded fault: hrtimer_try_to_cancel, which does not wait. *)
CancelTimerNoWait ==
    /\ stage = "cancel" /\ timer # "unset"
    /\ timer' = "idle"
    /\ stopBlock' = perf_data
    /\ stage' = "cleanup"
    /\ UNCHANGED <<entries, globalVars, callback, cbEvent, writerVars,
                   counterVars, taskVars, risks, fault>>

(* Seeded fault: wait for the session to end instead of dequeuing. *)
CancelTimerPassive ==
    /\ stage = "cancel" /\ timer = "idle" /\ callback = "idle"
    /\ stopBlock' = perf_data
    /\ stage' = "cleanup"
    /\ UNCHANGED <<entries, globalVars, timerVars, writerVars, counterVars,
                   taskVars, risks, fault>>

(* hrtimer_cancel retries until no callback runs, then dequeues;           *)
(* cleanup_perf_counters receives the value perf_data has then.            *)
CancelTimer ==
    /\ stage = "cancel" /\ timer # "unset" /\ callback = "idle"
    /\ timer' = "idle"
    /\ stopBlock' = perf_data
    /\ stage' = "cleanup"
    /\ UNCHANGED <<entries, globalVars, callback, cbEvent, writerVars,
                   counterVars, taskVars, risks, fault>>

(* Seeded fault: the events go, the block stays. *)
CleanupEventsOnly ==
    /\ stage = "cleanup"
    /\ events' = events \ EventsOf(stopBlock)
    /\ stage' = "put"
    /\ UNCHANGED <<entries, stopBlock, globalVars, timerVars, writerVars, heap,
                   taskVars, risks, fault>>

(* Release the events in order, then the block; NULL has neither. *)
CleanupCounters ==
    /\ stage = "cleanup"
    /\ LET left == events \intersect EventsOf(stopBlock) IN
       \/ /\ \E i \in Indices :
                /\ <<stopBlock, i>> \in left
                /\ \A j \in 1..(i - 1) : <<stopBlock, j>> \notin left
                /\ events' = events \ {<<stopBlock, i>>}
          /\ UNCHANGED <<heap, stage>>
       \/ /\ left = {}
          /\ heap' = heap \ {stopBlock}
          /\ stage' = "put" /\ UNCHANGED events
    /\ UNCHANGED <<entries, stopBlock, globalVars, timerVars, writerVars,
                   taskVars, risks, fault>>

PutTask ==
    /\ stage = "put"
    /\ monitored_task # NoTask /\ refs[monitored_task] > 0
    /\ refs' = [refs EXCEPT ![monitored_task] = @ - 1]
    /\ stage' = "clear"
    /\ UNCHANGED <<entries, stopBlock, globalVars, timerVars, writerVars,
                   counterVars, exited, risks, fault>>

ClearTask ==
    /\ stage = "clear"
    /\ monitored_task' = NoTask
    /\ stage' = "rm_message"
    /\ UNCHANGED <<entries, stopBlock, target_pid, perf_data, timerVars,
                   writerVars, counterVars, taskVars, risks, fault>>

(* proc_remove unlinks the entry, then waits for the calls inside it; the  *)
(* kprobe goes last.  Readers of the message are in SwitchMessage.         *)
RemoveEntries ==
    /\ \/ /\ stage = "rm_message" /\ stage' = "rm_pid"
          /\ entries' = entries \ {"message"}
       \/ /\ stage = "rm_pid" /\ stage' = "drain"
          /\ entries' = entries \ {"pid"}
       \/ /\ stage = "drain" /\ ~WriterActive /\ stage' = "rm_kprobe"
          /\ UNCHANGED entries
       \/ /\ stage = "rm_kprobe" /\ stage' = "gone"
          /\ entries' = entries \ {"kprobe"}
    /\ UNCHANGED <<stopBlock, globalVars, timerVars, writerVars, counterVars,
                   taskVars, risks, fault>>

-----------------------------------------------------------------------------
(* The kernel around the module.                                           *)

(* A task exits and is reaped.  Between pid_task and get_task_struct       *)
(* nothing keeps it.                                                       *)
TaskExit(p) ==
    /\ p \in Pids \ exited
    /\ exited' = exited \union {p}
    /\ risks' = IF /\ monitored_task = p /\ refs[p] = 0
                   /\ \E w \in Writers : wpc[w] = "get"
                THEN risks \union {"raced_exit"} ELSE risks
    /\ UNCHANGED <<moduleVars, globalVars, timerVars, writerVars,
                   counterVars, refs, fault>>

(* The fault the next step of some thread would be. *)
Broken(f) ==
    \/ /\ f = "null_timer" /\ stage = "cancel" /\ timer = "unset"
    \/ /\ f = "timer_reinit" /\ TimerActive
       /\ \E w \in Writers : wpc[w] = "init"
    \/ /\ f = "null_task" /\ monitored_task = NoTask
       /\ callback = "regs" \/ stage = "put" \/ \E w \in Writers : wpc[w] = "get"
    \/ /\ f = "freed_task" /\ monitored_task # NoTask /\ Freed(monitored_task)
       /\ \/ callback \in {"check", "regs"}
          \/ \E w \in Writers : wpc[w] = "get"
    \/ /\ f = "ref_underflow" /\ stage = "put" /\ monitored_task # NoTask
       /\ refs[monitored_task] = 0
    \/ /\ f = "null_counters" /\ callback = "read" /\ perf_data = NoBlock
    \/ /\ f = "freed_counters" /\ callback = "read" /\ perf_data # NoBlock
       /\ ~(perf_data \in heap /\ <<perf_data, cbEvent>> \in events)
    \/ /\ f = "freed_text" /\ ~TextPresent
       /\ TimerActive \/ WriterActive

Crash ==
    /\ \E f \in Faults : Broken(f) /\ fault' = f
    /\ UNCHANGED <<moduleVars, globalVars, timerVars, writerVars, counterVars,
                   taskVars, risks>>

(* Somebody writes to a pid entry the unloaded module left behind. *)
WriteStaleEntry ==
    /\ "pid" \in entries /\ ~TextPresent
    /\ fault' = "freed_text"
    /\ UNCHANGED <<moduleVars, globalVars, timerVars, writerVars, counterVars,
                   taskVars, risks>>

-----------------------------------------------------------------------------
Load == RegisterKprobe \/ CreatePidEntry \/ CreateMessageEntry

WriterStep(w) ==
    \/ LookupTask(w) \/ GetTask(w) \/ AllocCounters(w) \/ CreateEvent(w)
    \/ InitTimer(w) \/ StartTimer(w)

TimerStep == Fire \/ CheckTask \/ ReadRegs \/ ReadEvent \/ Rearm

UnloadStep ==
    CancelTimer \/ CleanupCounters \/ PutTask \/ ClearTask \/ RemoveEntries

Next ==
    /\ fault = "none"
    /\ \/ Load
       \/ \E w \in Writers, p \in Pids : SetTarget(w, p)
       \/ \E w \in Writers : WriterStep(w)
       \/ TimerStep
       \/ ExitBegin \/ UnloadStep
       \/ \E p \in Pids : TaskExit(p)
       \/ Crash \/ WriteStaleEntry

Safely(A) == fault = "none" /\ A

(* Threads that are running keep running; nobody is obliged to write a     *)
(* pid, to exit or to unload.  hrtimer_cancel polls and the callback is    *)
(* idle for most of each one-second period, so a poll that could succeed   *)
(* again and again does.                                                   *)
Fairness ==
    /\ \A w \in Writers : WF_vars(Safely(WriterStep(w)))
    /\ WF_vars(Safely(TimerStep))
    /\ WF_vars(Safely(UnloadStep)) /\ SF_vars(Safely(CancelTimer))
    /\ WF_vars(Safely(Crash))

Spec == Init /\ [][Next]_vars /\ Fairness

-----------------------------------------------------------------------------
(* The module's variables keep their types. *)
TypeOK ==
    /\ stage \in Stages /\ entries \subseteq {"kprobe", "pid", "message"}
    /\ stopBlock \in 0..MaxStarts /\ perf_data \in 0..MaxStarts
    /\ target_pid \in Tasks /\ monitored_task \in Tasks
    /\ timer \in {"unset", "idle", "queued"}
    /\ callback \in {"idle", "check", "regs", "read", "rearm"}
    /\ cbEvent \in Indices
    /\ wpc \in [Writers -> {"idle", "lookup", "get", "alloc", "create",
                            "init", "arm"}]
    /\ wblock \in [Writers -> 0..MaxStarts]
    /\ wevent \in [Writers -> Indices]
    /\ starts \in 0..MaxStarts /\ outcome \in Outcomes
    /\ heap \subseteq BlockIds /\ events \subseteq BlockIds \X Indices
    /\ exited \subseteq Pids /\ refs \in [Pids -> Nat]
    /\ risks \subseteq Risks /\ fault \in Faults \union {"none"}

(* The departures from one session at a time that can lead to each fault. *)
Causes == [f \in Faults |->
    CASE f = "null_timer"     -> {"idle_unload"}
      [] f = "timer_reinit"   -> {"overlap", "retarget"}
      [] f = "null_task"      -> {"overlap", "retarget", "late", "idle_unload"}
      [] f = "freed_task"     -> {"late", "raced_exit"}
      [] f = "ref_underflow"  -> {"late"}
      [] f = "null_counters"  -> {"overlap", "retarget"}
      [] f = "freed_counters" -> {"late"}
      [] f = "freed_text"     -> {"late", "load_failed"}]

(* Used one session at a time (a pid is written when no call and no timer   *)
(* of an earlier one is active, the module is unloaded after a successful  *)
(* start and outside any call, the task outlives pid_task) the unlocked    *)
(* globals are never misused: no NULL, freed or reinitialised object.  And *)
(* each way of breaking them needs one of the departures that explain it.  *)
FaultsAreProvoked == fault # "none" => Causes[fault] \intersect risks # {}

(* While the timer can fire, what sample_perf_counters dereferences is     *)
(* there: the task is referenced, so it cannot be freed under the          *)
(* callback, and perf_data is a block with every event alive.              *)
SamplingIsBacked ==
    risks = {} /\ TimerActive =>
        /\ monitored_task # NoTask /\ refs[monitored_task] > 0
        /\ perf_data \in heap /\ EventsOf(perf_data) \subseteq events

(* No error path strands an event: whatever the interleaving, a live event *)
(* belongs to a live block, so the partial failure of init_perf_counters   *)
(* and the cleanup release all they must before they free the block.       *)
NoOrphanEvent == \A e \in events : e[1] \in heap

(* A pass of the callback samples one session: from the liveness check to  *)
(* the last counter, neither the task nor the block changes under it,      *)
(* although it reads both globals again at every use.                      *)
CallbackSeesOneSession ==
    [][callback # "idle" /\ risks' = {} =>
           UNCHANGED <<monitored_task, perf_data>>]_vars

(* In ordinary use every unloading leaves exactly one block fewer than the *)
(* successful starts made: the last session is given back, whole, and all  *)
(* others stay whole, which is what perf_data can still reach.             *)
UnloadReturnsLastSession ==
    risks = {} /\ stage = "gone" =>
        /\ perf_data \notin heap /\ monitored_task = NoTask
        /\ \A b \in heap : b < perf_data /\ EventsOf(b) \subseteq events

(* How far the callback has come: not running, not yet past the liveness    *)
(* check, or the counters it has read.                                     *)
Progress == CASE callback = "idle"  -> -2
              [] callback = "check" -> -1
              [] callback = "rearm" -> NumEvents
              [] OTHER -> cbEvent - 1

(* Used one session at a time, four unlocked globals, a timer and two      *)
(* kinds of threads act as one session after the other: the task that is   *)
(* sampled is the one whose pid was written last, with the counters made   *)
(* for that write; a pass never changes either and is never cut short, and *)
(* unloading waits for it.                                                 *)
Session == INSTANCE SamplingSession WITH
    orderly  <- risks = {},
    request  <- IF WriterActive THEN target_pid ELSE NoTask,
    requests <- starts,
    session  <- IF TimerActive THEN monitored_task ELSE NoTask,
    counters <- IF TimerActive THEN perf_data ELSE NoBlock,
    pass     <- Progress,
    over     <- stage \in {"failed", "gone"} \union (ExitStages \ {"cancel"})
ActsAsSessions == Session!Spec

(* Unloading gives back everything the module took from the kernel: the    *)
(* reading of "Finished cleaning up multi performance counters".           *)
NothingOutlivesModule ==
    risks = {} /\ stage = "gone" => events = {} /\ \A p \in Pids : refs[p] = 0

(* Once the monitored task is gone the timer falls silent, as "Monitored   *)
(* task terminated, stopping the timer" says, so an unattended session     *)
(* ends by itself (unless usage leaves the one-session discipline).        *)
TimerStopsAfterTask ==
    \A p \in Pids :
        TimerActive /\ monitored_task = p /\ p \in exited ~> ~TimerActive \/ risks # {}

(* rmmod comes to an end, whatever the timer and the writers do, or breaks *)
(* something on the way.                                                   *)
UnloadEnds == stage = "cancel" ~> stage = "gone" \/ fault # "none"

(* Every write(2) of a pid returns, even under rmmod. *)
WritesReturn ==
    \A w \in Writers : wpc[w] # "idle" ~> wpc[w] = "idle" \/ fault # "none"

-----------------------------------------------------------------------------
(* The inductive invariant behind the safety properties.                   *)

HasCounters == perf_data \in heap /\ EventsOf(perf_data) \subseteq events
HoldsTask   == monitored_task \in Pids /\ refs[monitored_task] > 0

(* A block under construction belongs to one call alone: no global and no  *)
(* unloading reaches it, and its events are the ones the loop has made.    *)
CallOwnsBlock(w) ==
    /\ wblock[w] <= starts /\ (wpc[w] # "idle" => wblock[w] > 0)
    /\ wpc[w] \in {"idle", "lookup", "get", "alloc"} => wevent[w] = 1
    /\ wpc[w] \in {"lookup", "get", "alloc", "create"} =>
           perf_data # wblock[w] /\ stopBlock # wblock[w]
    /\ wpc[w] \in {"lookup", "get", "alloc"} => wblock[w] \notin heap
    /\ wpc[w] = "create" =>
           /\ wblock[w] \in heap
           /\ \A i \in Indices : <<wblock[w], i>> \in events <=> i < wevent[w]
    /\ \A v \in Writers : wpc[w] # "idle" /\ wblock[v] = wblock[w] => v = w

(* Whatever the usage: names of blocks are fresh and calls own what they   *)
(* build.                                                                  *)
BlocksAreOwned ==
    /\ \A b \in heap : b <= starts
    /\ perf_data <= starts /\ stopBlock <= starts
    /\ \A w \in Writers : CallOwnsBlock(w)
    /\ NoOrphanEvent

(* The pid entry is gone whenever the module's text is, unless loading     *)
(* failed after the entry had been created.                                *)
EntriesFollowStage ==
    /\ stage \in {"out", "load_pid", "drain", "rm_kprobe", "gone"} =>
           "pid" \notin entries
    /\ stage = "failed" /\ risks = {} => "pid" \notin entries

(* One session at a time: a call has the module to itself, an active timer *)
(* finds its task and counters, and unloading finds a session to end.      *)
OneCall ==
    \A w \in Writers : wpc[w] # "idle" =>
        /\ \A v \in Writers : wpc[v] # "idle" => v = w
        /\ stage \in {"load_message", "live"} /\ ~TimerActive
        /\ outcome = "pending"
        /\ wpc[w] = "lookup" => target_pid \in Pids
        /\ wpc[w] = "get" => monitored_task \in Pids /\ ~Freed(monitored_task)
        /\ wpc[w] \in {"alloc", "create", "init", "arm"} => HoldsTask
        /\ wpc[w] \in {"init", "arm"} => HasCounters
        /\ wpc[w] = "arm" => timer = "idle"

Orderly ==
    /\ fault = "none"
    /\ OneCall
    /\ stage \in {"out", "load_pid"} => outcome = "none"
    /\ TimerActive => /\ stage \in {"load_message", "live", "cancel"}
                      /\ HoldsTask /\ HasCounters
    /\ stage \in {"cancel", "cleanup", "put"} => outcome = "armed"
    /\ outcome = "armed" /\ stage \in {"load_message", "live", "cancel",
                                       "cleanup", "put"} =>
           timer # "unset" /\ HoldsTask

OneSession == risks = {} => Orderly

IInv == TypeOK /\ BlocksAreOwned /\ EntriesFollowStage /\ OneSession
=============================================================================
