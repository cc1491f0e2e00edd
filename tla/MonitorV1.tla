------------------------------ MODULE MonitorV1 ------------------------------
(***************************************************************************)
(* The first kernel module, cache_kprobe_monitor.c.  A kprobe at           *)
(* finish_task_switch runs pre_handler on every context switch; for the    *)
(* task named by start_pid it creates, reads and releases one kernel event *)
(* per counter and adds the values to the entry of counter_list with the   *)
(* same key.  stop_pid writes the list to a file named after the target.   *)
(*                                                                         *)
(* target_pid_mutex is held through the whole handler and around each      *)
(* assignment to target_pid; the file is written without it.  An entry is  *)
(* abstracted to its key and the pids whose samples it sums.               *)
(*                                                                         *)
(* A handler that finds the mutex taken sleeps inside the probe, where     *)
(* unregister_kprobe does not wait for it.  A handler that returns an      *)
(* error leaves the probe without stepping over the breakpoint, so the     *)
(* same task takes it again at once, mutex still held.                     *)
(***************************************************************************)
EXTENDS Integers, Sequences, FiniteSets

CONSTANTS
    Cpus, Writers,
    Pids,           \* tasks
    CpuNumbers,     \* the pids that are also numbers of online CPUs
    Keys,           \* values of regs_return_value at the probe
    NumEvents,      \* num_events
    NoPid,          \* target_pid = -1
    Nobody,         \* owner of a free mutex
    Hole,           \* a line of zero bytes
    MaxHits,        \* bound on probe hits
    MaxCommands     \* bound on commands

ASSUME CpuNumbersAssumption == CpuNumbers \subseteq Pids
ASSUME NamesAssumption ==
    NoPid \notin Pids /\ Nobody \notin Cpus /\ Keys # {}
ASSUME BoundsAssumption ==
    NumEvents \in Nat \ {0} /\ MaxHits \in Nat /\ MaxCommands \in Nat

VARIABLES
    stage,          \* how far loading or unloading has come
    mutex,          \* owner of target_pid_mutex
    target_pid,
    hpc,            \* hpc[c], where pre_handler is on c
    task, key,      \* its current task and key
    index,          \* its loop index
    events,         \* live kernel events, <<c, i>>
    counter_list,   \* head first
    wpc,            \* where each command_handler is
    warg,           \* pid of start_pid, or of the file being written
    wleft,          \* entries still to be written
    wpos,           \* its position in the file
    files,          \* files[p], the keys in the file of p
    hits, commands, \* bounded counts
    shared,         \* history: files whose latest stops overlapped
    failed,         \* history: an event could not be created
    overtaken,      \* history: unregister_kprobe passed a sleeping handler
    fault           \* "none", "null_entry" or "freed_text"

probeVars  == <<hpc, task, key, index>>
writerVars == <<wpc, warg, wleft, wpos>>
history    == <<shared, failed, overtaken>>
vars == <<stage, mutex, target_pid, probeVars, events, counter_list,
          writerVars, files, hits, commands, history, fault>>

AnyKey  == CHOOSE k \in Keys : TRUE
Targets == Pids \union {NoPid}
Indices == 1..NumEvents

Init ==
    /\ stage = "out" /\ mutex = Nobody /\ target_pid = NoPid
    /\ hpc = [c \in Cpus |-> "out"] /\ task = [c \in Cpus |-> NoPid]
    /\ key = [c \in Cpus |-> AnyKey]
    /\ index = [c \in Cpus |-> 1]
    /\ events = {} /\ counter_list = <<>>
    /\ wpc = [w \in Writers |-> "idle"] /\ warg = [w \in Writers |-> NoPid]
    /\ wleft = [w \in Writers |-> 0] /\ wpos = [w \in Writers |-> 0]
    /\ files = [p \in Targets |-> <<>>]
    /\ hits = 0 /\ commands = 0
    /\ shared = {} /\ failed = FALSE /\ overtaken = FALSE /\ fault = "none"

(* register_kprobe; from here on switches hit the probe. *)
RegisterKprobe ==
    /\ stage = "out"
    /\ stage' \in {"probed", "gone"}
    /\ UNCHANGED <<mutex, target_pid, probeVars, events, counter_list,
                   writerVars, files, hits, commands, history, fault>>

Sleepers  == {c \in Cpus : hpc[c] = "sleep"}
NoHandler == \A c \in Cpus : hpc[c] \in {"out", "sleep"}

(* proc_create; when it fails the kprobe is taken away again. *)
CreateEntry ==
    /\ stage = "probed"
    /\ \/ stage' = "run" /\ UNCHANGED overtaken
       \/ NoHandler /\ overtaken' = (Sleepers # {}) /\ stage' = "gone"
    /\ UNCHANGED <<mutex, target_pid, probeVars, events, counter_list,
                   writerVars, files, hits, commands, failed, shared, fault>>

-----------------------------------------------------------------------------
(* pre_handler on CPU c.                                                   *)

Goto(c, pc) == hpc' = [hpc EXCEPT ![c] = pc]

(* A switch to task p hits the probe.  A CPU whose handler sleeps skips it. *)
Hit(c, p, k) ==
    /\ stage \in {"probed", "run"} /\ hpc[c] = "out" /\ hits < MaxHits
    /\ \A d \in Cpus : hpc[d] # "out" => task[d] # p
    /\ hits' = hits + 1
    /\ task' = [task EXCEPT ![c] = p] /\ key' = [key EXCEPT ![c] = k]
    /\ Goto(c, "lock")
    /\ UNCHANGED <<stage, mutex, target_pid, index, events, counter_list,
                   writerVars, files, commands, history, fault>>

(* Seeded fault: the mutex is not taken. *)
LockProbeNever(c) ==
    /\ hpc[c] = "lock" /\ Goto(c, "compare")
    /\ UNCHANGED <<stage, mutex, target_pid, task, key, index, events,
                   counter_list, writerVars, files, hits, commands, history,
                   fault>>

(* mutex_lock: take the mutex, or sleep and take it when it is free. *)
LockProbe(c) ==
    /\ hpc[c] \in {"lock", "sleep"}
    /\ IF mutex = Nobody
       THEN mutex' = c /\ Goto(c, "compare")
       ELSE hpc[c] = "lock" /\ Goto(c, "sleep") /\ UNCHANGED mutex
    /\ UNCHANGED <<stage, target_pid, task, key, index, events, counter_list,
                   writerVars, files, hits, commands, history, fault>>

(* Seeded fault: a task that is not the target leaves without unlocking. *)
CompareKeepingMutex(c) ==
    /\ hpc[c] = "compare"
    /\ Goto(c, IF task[c] = target_pid THEN "create" ELSE "out")
    /\ UNCHANGED <<stage, mutex, target_pid, task, key, index, events,
                   counter_list, writerVars, files, hits, commands, history,
                   fault>>

(* current_pid == (pid_t)target_pid *)
Compare(c) ==
    /\ hpc[c] = "compare"
    /\ Goto(c, IF task[c] = target_pid THEN "create" ELSE "unlock")
    /\ UNCHANGED <<stage, mutex, target_pid, task, key, index, events,
                   counter_list, writerVars, files, hits, commands, history,
                   fault>>

(* Seeded fault: the loop runs once too often. *)
CreateEventOnceMore(c) ==
    /\ hpc[c] = "create"
    /\ events' = events \union {<<c, index[c]>>}
    /\ IF index[c] <= NumEvents
       THEN index' = [index EXCEPT ![c] = @ + 1] /\ UNCHANGED hpc
       ELSE index' = [index EXCEPT ![c] = 1] /\ Goto(c, "read")
    /\ UNCHANGED <<stage, mutex, target_pid, task, key, counter_list,
                   writerVars, files, hits, commands, history, fault>>

(* perf_event_create_kernel_counter(&attr, current_pid, NULL, ...): the pid *)
(* stands where the CPU belongs.  On error the handler returns as it is.   *)
CreateEvent(c) ==
    /\ hpc[c] = "create"
    /\ \/ /\ task[c] \in CpuNumbers
          /\ events' = events \union {<<c, index[c]>>}
          /\ IF index[c] < NumEvents
             THEN index' = [index EXCEPT ![c] = @ + 1] /\ UNCHANGED hpc
             ELSE index' = [index EXCEPT ![c] = 1] /\ Goto(c, "read")
          /\ UNCHANGED failed
       \/ /\ failed' = TRUE
          /\ Goto(c, "lock") /\ UNCHANGED <<events, index>>
    /\ UNCHANGED <<stage, mutex, target_pid, task, key, counter_list,
                   writerVars, files, hits, commands, shared, overtaken,
                   fault>>

(* Seeded fault: the last event is read and kept. *)
ReadEventKeepingLast(c) ==
    /\ hpc[c] = "read"
    /\ IF index[c] < NumEvents
       THEN /\ events' = events \ {<<c, index[c]>>}
            /\ index' = [index EXCEPT ![c] = @ + 1] /\ UNCHANGED hpc
       ELSE /\ index' = [index EXCEPT ![c] = 1] /\ Goto(c, "search")
            /\ UNCHANGED events
    /\ UNCHANGED <<stage, mutex, target_pid, task, key, counter_list,
                   writerVars, files, hits, commands, history, fault>>

(* perf_event_read_value, perf_event_release_kernel *)
ReadEvent(c) ==
    /\ hpc[c] = "read"
    /\ events' = events \ {<<c, index[c]>>}
    /\ IF index[c] < NumEvents
       THEN index' = [index EXCEPT ![c] = @ + 1] /\ UNCHANGED hpc
       ELSE index' = [index EXCEPT ![c] = 1] /\ Goto(c, "search")
    /\ UNCHANGED <<stage, mutex, target_pid, task, key, counter_list,
                   writerVars, files, hits, commands, history, fault>>

(* update_counters: add to the entry with this key, if there is one. *)
SearchList(c) ==
    /\ hpc[c] = "search"
    /\ LET At == {i \in 1..Len(counter_list) : counter_list[i].pc = key[c]} IN
       IF At = {}
       THEN Goto(c, "insert") /\ UNCHANGED counter_list
       ELSE /\ \E i \in At :
                 /\ \A j \in At : i <= j
                 /\ counter_list' =
                       [counter_list EXCEPT ![i].of = @ \union {task[c]}]
            /\ Goto(c, "unlock")
    /\ UNCHANGED <<stage, mutex, target_pid, task, key, index, events,
                   writerVars, files, hits, commands, history, fault>>

(* kmalloc, whose result is not checked, and list_add at the head. *)
InsertEntry(c) ==
    /\ hpc[c] = "insert"
    /\ \/ /\ counter_list' =
                <<[pc |-> key[c], of |-> {task[c]}]>> \o counter_list
          /\ Goto(c, "unlock") /\ UNCHANGED fault
       \/ /\ fault' = "null_entry" /\ UNCHANGED <<hpc, counter_list>>
    /\ UNCHANGED <<stage, mutex, target_pid, task, key, index, events,
                   writerVars, files, hits, commands, history>>

UnlockProbe(c) ==
    /\ hpc[c] = "unlock"
    /\ mutex' = Nobody
    /\ task' = [task EXCEPT ![c] = NoPid] /\ key' = [key EXCEPT ![c] = AnyKey]
    /\ Goto(c, "out")
    /\ UNCHANGED <<stage, target_pid, index, events, counter_list,
                   writerVars, files, hits, commands, history, fault>>

-----------------------------------------------------------------------------
(* command_handler of writer w.                                            *)

WGoto(w, pc) == wpc' = [wpc EXCEPT ![w] = pc]

StartPid(w, p) ==
    /\ stage \in {"run", "unregistered"} /\ wpc[w] = "idle"
    /\ commands < MaxCommands /\ commands' = commands + 1
    /\ warg' = [warg EXCEPT ![w] = p]
    /\ WGoto(w, "set")
    /\ UNCHANGED <<stage, mutex, target_pid, probeVars, events, counter_list,
                   wleft, wpos, files, hits, history, fault>>

(* Seeded fault: the target changes under a handler. *)
AssignTargetUnlocked(w) ==
    /\ wpc[w] \in {"set", "clear"}
    /\ target_pid' = IF wpc[w] = "set" THEN warg[w] ELSE NoPid
    /\ warg' = [warg EXCEPT ![w] = NoPid]
    /\ WGoto(w, "idle")
    /\ UNCHANGED <<stage, mutex, probeVars, events, counter_list, wleft, wpos,
                   files, hits, commands, history, fault>>

(* The assignment is the whole critical section. *)
AssignTarget(w) ==
    /\ wpc[w] \in {"set", "clear"} /\ mutex = Nobody
    /\ target_pid' = IF wpc[w] = "set" THEN warg[w] ELSE NoPid
    /\ warg' = [warg EXCEPT ![w] = NoPid]
    /\ WGoto(w, "idle")
    /\ UNCHANGED <<stage, mutex, probeVars, events, counter_list, wleft, wpos,
                   files, hits, commands, history, fault>>

BeingWritten == {warg[w] : w \in {w \in Writers : wpc[w] = "lines"}}

(* stop_pid reads target_pid, without the mutex, and opens the file with   *)
(* O_TRUNC; when that fails it goes on to clear the target.                *)
StopPid(w) ==
    /\ stage \in {"run", "unregistered"} /\ wpc[w] = "idle"
    /\ commands < MaxCommands /\ commands' = commands + 1
    /\ \/ /\ warg' = [warg EXCEPT ![w] = target_pid]
          /\ files' = [files EXCEPT ![target_pid] = <<>>]
          /\ wleft' = [wleft EXCEPT ![w] = Len(counter_list)]
          /\ shared' = IF target_pid \in BeingWritten
                        THEN shared \union {target_pid}
                        ELSE shared \ {target_pid}
          /\ WGoto(w, "lines")
       \/ WGoto(w, "clear") /\ UNCHANGED <<warg, files, wleft, shared>>
    /\ UNCHANGED <<stage, mutex, target_pid, probeVars, events, counter_list,
                   wpos, hits, failed, overtaken, fault>>

(* Seeded fault: the walk counts entries from the head. *)
ReachedFromHead(w) == counter_list[wpos[w] + 1]

(* The entry the walk has reached; insertions at the head do not move it. *)
Reached(w) == counter_list[Len(counter_list) - wleft[w] + 1]

(* A line at file position n; what lies between it and the end of a file   *)
(* that another stop truncated reads as zero bytes.                        *)
PutLine(file, n, line) ==
    [i \in 1..(IF n > Len(file) THEN n ELSE Len(file)) |->
        IF i = n THEN line ELSE IF i <= Len(file) THEN file[i] ELSE Hole]

WriteLine(w) ==
    /\ wpc[w] = "lines"
    /\ IF wleft[w] > 0
       THEN /\ files' = [files EXCEPT
                   ![warg[w]] = PutLine(@, wpos[w] + 1, Reached(w).pc)]
            /\ wpos' = [wpos EXCEPT ![w] = @ + 1]
            /\ wleft' = [wleft EXCEPT ![w] = @ - 1]
            /\ UNCHANGED <<wpc, warg>>
       ELSE /\ WGoto(w, "clear")
            /\ warg' = [warg EXCEPT ![w] = NoPid]
            /\ wpos' = [wpos EXCEPT ![w] = 0]
            /\ UNCHANGED <<files, wleft>>
    /\ UNCHANGED <<stage, mutex, target_pid, probeVars, events, counter_list,
                   hits, commands, history, fault>>

-----------------------------------------------------------------------------
(* Unloading.                                                              *)

(* unregister_kprobe waits for the handlers that run, not for sleepers. *)
UnregisterKprobe ==
    /\ stage = "run"
    /\ NoHandler /\ overtaken' = (Sleepers # {})
    /\ stage' = "unregistered"
    /\ UNCHANGED <<mutex, target_pid, probeVars, events, counter_list,
                   writerVars, files, hits, commands, failed, shared, fault>>

(* Seeded fault: the entry goes without waiting for its users. *)
RemoveEntryNoWait ==
    /\ stage = "unregistered"
    /\ stage' = "removed"
    /\ UNCHANGED <<mutex, target_pid, probeVars, events, counter_list,
                   writerVars, files, hits, commands, history, fault>>

(* proc_remove: no more commands, and wait for those inside. *)
RemoveEntry ==
    /\ stage = "unregistered"
    /\ \A w \in Writers : wpc[w] = "idle"
    /\ stage' = "removed"
    /\ UNCHANGED <<mutex, target_pid, probeVars, events, counter_list,
                   writerVars, files, hits, commands, history, fault>>

FreeList ==
    /\ stage = "removed"
    /\ counter_list' = <<>>
    /\ stage' = "gone"
    /\ UNCHANGED <<mutex, target_pid, probeVars, events, writerVars, files,
                   hits, commands, history, fault>>

(* Somebody is still inside the module when its text is freed. *)
RunFreedText ==
    /\ stage = "gone"
    /\ \/ \E c \in Cpus : hpc[c] # "out" /\ ~(hpc[c] = "sleep" /\ mutex # Nobody)
       \/ \E w \in Writers : wpc[w] # "idle"
    /\ fault' = "freed_text"
    /\ UNCHANGED <<stage, mutex, target_pid, probeVars, events, counter_list,
                   writerVars, files, hits, commands, history>>

-----------------------------------------------------------------------------
ProbeStep(c) ==
    \/ LockProbe(c) \/ Compare(c) \/ CreateEvent(c) \/ ReadEvent(c)
    \/ SearchList(c) \/ InsertEntry(c) \/ UnlockProbe(c)

WriterStep(w) == AssignTarget(w) \/ WriteLine(w)

Present == stage # "gone"

Next ==
    /\ fault = "none"
    /\ \/ RegisterKprobe \/ CreateEntry
       \/ \E c \in Cpus, p \in Pids, k \in Keys : Hit(c, p, k)
       \/ \E c \in Cpus : Present /\ ProbeStep(c)
       \/ \E w \in Writers, p \in Pids : StartPid(w, p)
       \/ \E w \in Writers : StopPid(w) \/ (Present /\ WriterStep(w))
       \/ UnregisterKprobe \/ RemoveEntry \/ FreeList
       \/ RunFreedText

Safely(A) == fault = "none" /\ Present /\ A

(* Whoever is inside the module keeps running, and a mutex wakes its       *)
(* waiters in turn.                                                        *)
Fairness ==
    /\ \A c \in Cpus : WF_vars(Safely(ProbeStep(c))) /\ SF_vars(Safely(LockProbe(c)))
    /\ \A w \in Writers : WF_vars(Safely(WriterStep(w)))
                       /\ SF_vars(Safely(AssignTarget(w)))

Spec == Init /\ [][Next]_vars /\ Fairness

-----------------------------------------------------------------------------
(* The variables keep their types. *)
TypeOK ==
    /\ stage \in {"out", "probed", "run", "unregistered", "removed", "gone"}
    /\ mutex \in Cpus \union {Nobody} /\ target_pid \in Targets
    /\ hpc \in [Cpus -> {"out", "lock", "sleep", "compare", "create", "read",
                         "search", "insert", "unlock"}]
    /\ task \in [Cpus -> Targets] /\ key \in [Cpus -> Keys]
    /\ index \in [Cpus -> Indices] /\ events \subseteq Cpus \X Indices
    /\ counter_list \in Seq([pc : Keys, of : SUBSET Pids])
    /\ wpc \in [Writers -> {"idle", "set", "clear", "lines"}]
    /\ warg \in [Writers -> Targets] /\ wleft \in [Writers -> Nat]
    /\ wpos \in [Writers -> Nat]
    /\ files \in [Targets -> Seq(Keys \union {Hole})]
    /\ shared \subseteq Targets
    /\ hits \in 0..MaxHits /\ commands \in 0..MaxCommands
    /\ failed \in BOOLEAN /\ overtaken \in BOOLEAN
    /\ fault \in {"none", "null_entry", "freed_text"}

(* However many CPUs insert at once, the list holds each key once: search  *)
(* and insertion are one critical section.                                 *)
ListIsKeyed ==
    \A i, j \in 1..Len(counter_list) :
        counter_list[i].pc = counter_list[j].pc => i = j

(* Until an event cannot be created, every event belongs to a handler that *)
(* is between its creation and its release: none outlives the context      *)
(* switch it was made for.                                                 *)
EventsStayInsideProbe ==
    ~failed => \A e \in events : hpc[e[1]] \in {"create", "read"}

(* The file a stop writes lists every key its walk has passed, each once    *)
(* and in list order, although the list grows under the walk; only two     *)
(* stops of the same target can spoil each other's file.                   *)
FileFollowsList ==
    \A w \in Writers : wpc[w] = "lines" /\ warg[w] \notin shared =>
        LET first == Len(counter_list) - wleft[w] - wpos[w] IN
        files[warg[w]] = [i \in 1..wpos[w] |-> counter_list[first + i].pc]

(* Unloading in the order kprobe, proc entry, list leaves nobody inside    *)
(* the module, except a handler that slept on the mutex meanwhile.         *)
UnloadIsSafe == fault = "freed_text" => overtaken

SumOf(k) == UNION {counter_list[i].of :
                     i \in {i \in 1..Len(counter_list) : counter_list[i].pc = k}}

(* The keys the walk of w has still to write. *)
StillToWrite(w) ==
    {counter_list[i].pc : i \in Len(counter_list) - wleft[w] + 1..Len(counter_list)}

(* What the file of p holds when the walk that writes it has ended. *)
Reported(p) ==
    {files[p][i] : i \in 1..Len(files[p])} \union
    UNION {StillToWrite(w) : w \in {w \in Writers : wpc[w] = "lines" /\ warg[w] = p}}

(* Probe hits on every CPU, commands and files written without the mutex   *)
(* act as one map from addresses to sums: a sample takes effect, for the   *)
(* task that is the target then, where the list changes, and a stop        *)
(* reports the addresses listed when it opened the file.                   *)
Profile == INSTANCE AtomicProfile WITH
    loaded  <- stage # "gone",
    target  <- target_pid,
    sums    <- [k \in Keys |-> SumOf(k)],
    report  <- [p \in Targets |-> IF p \in shared THEN {} ELSE Reported(p)],
    open    <- BeingWritten,
    spoiled <- shared
ActsAsProfile == Profile!Spec

(* A start_pid or stop_pid returns, unless a probe failed and kept the     *)
(* mutex for ever, or something broke.                                     *)
CommandsReturn ==
    \A w \in Writers :
        wpc[w] # "idle" ~> wpc[w] = "idle" \/ failed \/ fault # "none"

(* The test script's "Stop the monitoring": stop_pid returns. *)
StopCompletes == \A w \in Writers : wpc[w] = "clear" ~> wpc[w] = "idle" \/ fault # "none"
=============================================================================
