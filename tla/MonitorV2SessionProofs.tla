----------------------- MODULE MonitorV2SessionProofs -----------------------
(***************************************************************************)
(* Proofs about MonitorV2 used one session at a time: as long as no        *)
(* departure from that use has happened (risks = {}), nothing breaks, the  *)
(* sampling callback always has a task and counters to read, and a pass of *)
(* it sees one session; the invariant is IInv of MonitorV2.  Then, for     *)
(* each fault, the departures without which it cannot happen, and what     *)
(* unloading gives back after several sessions.                            *)
(***************************************************************************)
EXTENDS MonitorV2Proofs

USE NumEventsAssumption, MaxStartsAssumption, PidsAssumption
    DEF NoBlock, Tasks, BlockIds, Indices

(* A departure, once noted, stays noted. *)
LEMMA RisksGrow == Next => risks \subseteq risks'
  BY DEF Next, Load, RegisterKprobe, CreatePidEntry, CreateMessageEntry,
     SetTarget, WriterStep, LookupTask, GetTask, AllocCounters, CreateEvent,
     InitTimer, StartTimer, TimerStep, Fire, CheckTask, ReadRegs, ReadEvent,
     Rearm, ExitBegin, UnloadStep, CancelTimer, CleanupCounters, PutTask,
     ClearTask, RemoveEntries, TaskExit, Crash, WriteStaleEntry

LEMMA EntriesInit == Init => EntriesFollowStage
  BY DEF Init, EntriesFollowStage

LEMMA EntriesStep == EntriesFollowStage /\ [Next]_vars => EntriesFollowStage'
<1> SUFFICES ASSUME EntriesFollowStage, [Next]_vars PROVE EntriesFollowStage'
  OBVIOUS
<1>1. CASE Load \/ RemoveEntries
  BY <1>1 DEF Load, RegisterKprobe, CreatePidEntry, CreateMessageEntry,
     RemoveEntries, EntriesFollowStage
<1>2. CASE ExitBegin \/ CancelTimer \/ CleanupCounters \/ PutTask \/ ClearTask
  BY <1>2 DEF ExitBegin, CancelTimer, CleanupCounters, PutTask, ClearTask,
     EntriesFollowStage
<1>3. CASE /\ UNCHANGED <<stage, entries>>
           /\ risks \subseteq risks'
  BY <1>3 DEF EntriesFollowStage
<1>4. CASE UNCHANGED vars
  BY <1>3, <1>4 DEF vars, moduleVars
<1>5. CASE \/ \E w \in Writers, p \in Pids : SetTarget(w, p)
           \/ \E w \in Writers : WriterStep(w)
           \/ TimerStep \/ (\E p \in Pids : TaskExit(p)) \/ Crash
           \/ WriteStaleEntry
  <2>1. UNCHANGED moduleVars
    BY <1>5 DEF SetTarget, WriterStep, LookupTask, GetTask, AllocCounters,
       CreateEvent, InitTimer, StartTimer, TimerStep, Fire, CheckTask,
       ReadRegs, ReadEvent, Rearm, TaskExit, Crash, WriteStaleEntry
  <2>2. risks \subseteq risks'
    BY RisksGrow DEF vars
  <2> QED BY <1>3, <2>1, <2>2 DEF moduleVars
<1> QED BY <1>1, <1>2, <1>4, <1>5 DEF Next, UnloadStep

-----------------------------------------------------------------------------
(* Orderly is preserved by a step that notes no departure.                 *)

LEMMA OrderlyLoad ==
    ASSUME Typed, Orderly, Load, risks' = {}
    PROVE  Orderly'
<1> USE DEF Orderly, OneCall, HoldsTask, HasCounters, Freed, EventsOf,
            TimerActive, globalVars, timerVars, writerVars, counterVars, taskVars
<1>1. CASE RegisterKprobe
  BY <1>1 DEF RegisterKprobe
<1>2. CASE CreatePidEntry
  BY <1>2 DEF CreatePidEntry
<1>3. CASE CreateMessageEntry
  BY <1>3 DEF CreateMessageEntry
<1> QED BY <1>1, <1>2, <1>3 DEF Load

LEMMA OrderlySetTarget ==
    ASSUME NEW w \in Writers, NEW p \in Pids, Typed, EntriesFollowStage,
           Orderly, SetTarget(w, p), risks' = {}
    PROVE  Orderly'
<1>1. ~WriterActive /\ ~TimerActive /\ stage \notin ExitStages
  BY DEF SetTarget, WriteRisks, Risks
<1>2. stage \in {"load_message", "live"}
  BY <1>1 DEF SetTarget, TextPresent, EntriesFollowStage, Typed, TypeOK,
     Stages, LoadStages
<1>3. /\ wpc' = [wpc EXCEPT ![w] = "lookup"] /\ outcome' = "pending"
      /\ target_pid' = p
      /\ UNCHANGED <<stage, fault, monitored_task, refs, exited, timer,
                     callback, perf_data, heap, events>>
      /\ fault = "none"
  BY DEF SetTarget, Goto, moduleVars, timerVars, counterVars, taskVars, Orderly
<1>4. \A v \in Writers : wpc'[v] # "idle" => v = w
  BY <1>1, <1>3 DEF WriterActive
<1>5. wpc'[w] = "lookup"
  BY <1>3 DEF Typed, TypeOK
<1> QED
  BY <1>1, <1>2, <1>3, <1>4, <1>5 DEF Orderly, OneCall, HoldsTask,
     HasCounters, Freed, EventsOf, TimerActive

LEMMA OrderlyWriter ==
    ASSUME NEW w \in Writers, Typed, BlocksAreOwned, Orderly, WriterStep(w)
    PROVE  Orderly'
<1> USE DEF Goto, Return, moduleVars, globalVars, timerVars, counterVars,
            taskVars
<1>1. wpc[w] # "idle" /\ fault' = "none" /\ UNCHANGED stage
  BY DEF Orderly, WriterStep, LookupTask, GetTask, AllocCounters, CreateEvent,
     InitTimer, StartTimer
<1>2. /\ stage \in {"load_message", "live"} /\ ~TimerActive /\ outcome = "pending"
      /\ \A v \in Writers : v # w => wpc[v] = "idle"
  BY <1>1 DEF Orderly, OneCall
<1>3. /\ wpc \in [Writers -> {"idle", "lookup", "get", "alloc", "create",
                              "init", "arm"}]
      /\ refs \in [Pids -> Nat] /\ wevent[w] \in Indices
  BY DEF Typed, TypeOK
<1>4. \A v \in Writers : v # w => wpc'[v] = "idle"
  BY <1>2, <1>3 DEF WriterStep, LookupTask, GetTask, AllocCounters, CreateEvent,
     InitTimer, StartTimer, NoCounters
<1> USE DEF Orderly, OneCall, HoldsTask, Freed, TimerActive
<1>5. CASE LookupTask(w)
  BY <1>1, <1>2, <1>3, <1>4, <1>5 DEF LookupTask
<1>6. CASE GetTask(w)
  BY <1>1, <1>2, <1>3, <1>4, <1>6 DEF GetTask
<1>7. CASE AllocCounters(w)
  BY <1>1, <1>2, <1>3, <1>4, <1>7 DEF AllocCounters, NoCounters
<1>8. CASE CreateEvent(w)
  <2>1. wpc'[w] \in {"init", "arm"} => HasCounters'
    <3> SUFFICES ASSUME wpc'[w] \in {"init", "arm"} PROVE HasCounters'
      OBVIOUS
    <3>1. /\ wpc[w] = "create" /\ ~(wevent[w] < NumEvents)
          /\ events' = events \union {<<wblock[w], wevent[w]>>}
          /\ perf_data' = wblock[w] /\ UNCHANGED heap
      BY <1>3, <1>8 DEF CreateEvent, NoCounters
    <3>2. /\ wblock[w] \in heap
          /\ \A i \in Indices : i < wevent[w] => <<wblock[w], i>> \in events
      BY <3>1 DEF BlocksAreOwned, CallOwnsBlock
    <3>3. \A i \in Indices : i < wevent[w] \/ i = wevent[w]
      BY <1>3, <3>1
    <3> QED BY <3>1, <3>2, <3>3 DEF HasCounters, EventsOf
  <2>2. /\ wpc[w] = "create" /\ wpc'[w] \in {"idle", "create", "init"}
        /\ UNCHANGED <<target_pid, monitored_task, timer, callback, refs, exited>>
        /\ wpc'[w] # "idle" => UNCHANGED outcome
        /\ wpc'[w] = "idle" => outcome' = "no_counters"
    BY <1>3, <1>8 DEF CreateEvent, NoCounters
  <2> QED BY <1>1, <1>2, <1>3, <1>4, <2>1, <2>2
<1>9. CASE InitTimer(w)
  BY <1>1, <1>2, <1>3, <1>4, <1>9 DEF InitTimer, HasCounters
<1>10. CASE StartTimer(w)
  BY <1>1, <1>2, <1>3, <1>4, <1>10 DEF StartTimer, HasCounters
<1> QED BY <1>5, <1>6, <1>7, <1>8, <1>9, <1>10 DEF WriterStep

LEMMA OrderlyTimer ==
    ASSUME Orderly, TimerStep
    PROVE  Orderly'
<1>1. TimerActive
  BY DEF TimerStep, Fire, CheckTask, ReadRegs, ReadEvent, Rearm, TimerActive
<1>2. UNCHANGED <<moduleVars, globalVars, writerVars, counterVars, taskVars, fault>>
  BY DEF TimerStep, Fire, CheckTask, ReadRegs, ReadEvent, Rearm
<1>3. \A w \in Writers : wpc[w] = "idle"
  BY <1>1 DEF Orderly, OneCall
<1>4. timer' # "unset" \/ timer' = timer
  BY DEF TimerStep, Fire, CheckTask, ReadRegs, ReadEvent, Rearm
<1> QED
  BY <1>1, <1>2, <1>3, <1>4 DEF Orderly, OneCall, HoldsTask, HasCounters,
     EventsOf, moduleVars, globalVars, writerVars, counterVars, taskVars

LEMMA OrderlyUnload ==
    ASSUME Typed, Orderly, ExitBegin \/ UnloadStep, risks' = {}
    PROVE  Orderly'
<1> USE DEF Orderly, OneCall, HoldsTask, HasCounters, EventsOf, TimerActive,
            globalVars, timerVars, writerVars, counterVars, taskVars
<1>1. CASE ExitBegin
  <2>1. outcome = "armed" /\ ~WriterActive
    BY <1>1 DEF ExitBegin, UnloadRisks, Risks
  <2> QED BY <1>1, <2>1 DEF ExitBegin, WriterActive
<1>2. CASE CancelTimer
  BY <1>2 DEF CancelTimer
<1>3. CASE CleanupCounters
  BY <1>3 DEF CleanupCounters
<1>4. CASE PutTask
  BY <1>4 DEF PutTask
<1>5. CASE ClearTask
  BY <1>5 DEF ClearTask
<1>6. CASE RemoveEntries
  BY <1>6 DEF RemoveEntries
<1> QED BY <1>1, <1>2, <1>3, <1>4, <1>5, <1>6 DEF UnloadStep

(* The task may be freed under a call only between pid_task and            *)
(* get_task_struct, and that is a departure.                               *)
LEMMA OrderlyExit ==
    ASSUME NEW p \in Pids, Orderly, TaskExit(p), risks' = {}
    PROVE  Orderly'
<1>1. ~(/\ monitored_task = p /\ refs[p] = 0
        /\ \E w \in Writers : wpc[w] = "get")
  BY DEF TaskExit
<1>2. UNCHANGED <<moduleVars, globalVars, timerVars, writerVars, counterVars,
                  refs, fault>> /\ exited' = exited \union {p}
  BY DEF TaskExit
<1> QED
  BY <1>1, <1>2 DEF Orderly, OneCall, HoldsTask, HasCounters, EventsOf, Freed,
     TimerActive, moduleVars, globalVars, timerVars, writerVars, counterVars

(* No thread's next step is a fault, and no stale entry can be written.    *)
LEMMA OrderlyDoesNotBreak ==
    ASSUME Typed, EntriesFollowStage, Orderly, risks = {}
    PROVE  ~Crash /\ ~WriteStaleEntry
<1>1. ASSUME NEW f \in Faults PROVE ~Broken(f)
  <2> USE DEF Orderly, OneCall, HoldsTask, HasCounters, Freed
  <2>1. TimerActive <=> timer = "queued" \/ callback # "idle"
    BY DEF TimerActive
  <2>2. NoTask \notin Pids /\ NoBlock \notin heap
    BY DEF Typed, TypeOK
  <2>3. cbEvent \in Indices /\ refs \in [Pids -> Nat]
    BY DEF Typed, TypeOK
  <2>4. CASE f \in {"null_timer", "timer_reinit", "null_task"}
    BY <2>1, <2>2, <2>4 DEF Broken
  <2>5. CASE f \in {"freed_task", "ref_underflow"}
    BY <2>1, <2>2, <2>3, <2>5 DEF Broken
  <2>6. CASE f \in {"null_counters", "freed_counters"}
    BY <2>1, <2>2, <2>3, <2>6 DEF Broken, EventsOf
  <2>7. CASE f = "freed_text"
    BY <2>7 DEF Broken, TextPresent, WriterActive
  <2> QED BY <2>4, <2>5, <2>6, <2>7 DEF Faults
<1>2. ~WriteStaleEntry
  BY DEF WriteStaleEntry, TextPresent, EntriesFollowStage
<1> QED BY <1>1, <1>2 DEF Crash

-----------------------------------------------------------------------------
LEMMA IInvInit == Init => IInv /\ Typed
<1>1. Init => OneSession
  BY DEF Init, OneSession, Orderly, OneCall, TimerActive
<1> QED BY <1>1, TypeInit, OwnInit, EntriesInit DEF IInv, Typed

LEMMA OneSessionStep ==
    ASSUME Typed, IInv, [Next]_vars
    PROVE  OneSession'
<1> SUFFICES ASSUME risks' = {} PROVE Orderly'
  BY DEF OneSession
<1>1. CASE UNCHANGED vars
  <2>1. Orderly
    BY <1>1 DEF vars, IInv, OneSession
  <2> QED
    BY <1>1, <2>1 DEF vars, moduleVars, globalVars, timerVars, writerVars,
       counterVars, taskVars, Orderly, OneCall, HoldsTask, HasCounters,
       EventsOf, Freed, TimerActive
<1>2. CASE Next
  <2>1. risks = {} /\ Orderly /\ BlocksAreOwned /\ EntriesFollowStage
    BY <1>2, RisksGrow DEF IInv, OneSession
  <2>2. ~Crash /\ ~WriteStaleEntry
    BY <2>1, OrderlyDoesNotBreak
  <2> QED
    BY <1>2, <2>1, <2>2, OrderlyLoad, OrderlySetTarget, OrderlyWriter,
       OrderlyTimer, OrderlyUnload, OrderlyExit DEF Next
<1> QED BY <1>1, <1>2

LEMMA IInvStep == Typed /\ IInv /\ [Next]_vars => (Typed /\ IInv)'
<1>1. Typed /\ IInv /\ [Next]_vars => Typed' /\ BlocksAreOwned'
  BY TypeStep, OwnStep DEF IInv
<1>2. Typed /\ IInv /\ [Next]_vars => EntriesFollowStage' /\ OneSession'
  BY EntriesStep, OneSessionStep DEF IInv
<1> QED BY <1>1, <1>2 DEF IInv, Typed

(* The inductive invariant holds in every reachable state. *)
THEOREM InvariantCorrect == Spec => [](Typed /\ IInv)
  BY IInvInit, IInvStep, PTL DEF Spec

(* One session at a time, the timer callback of any number of tasks, calls *)
(* and events always finds its task referenced and its counters complete:  *)
(* sample_perf_counters never dereferences what start_monitoring has not   *)
(* yet made or stop_monitoring has given back.                             *)
THEOREM SamplingBackedCorrect == Spec => []SamplingIsBacked
<1>1. IInv => SamplingIsBacked
  <2> SUFFICES ASSUME IInv, risks = {}, TimerActive
               PROVE  /\ monitored_task # NoTask /\ refs[monitored_task] > 0
                      /\ perf_data \in heap /\ EventsOf(perf_data) \subseteq events
    BY DEF SamplingIsBacked
  <2>1. HoldsTask /\ HasCounters
    BY DEF IInv, OneSession, Orderly
  <2> QED BY <2>1 DEF HoldsTask, HasCounters
<1> QED BY <1>1, InvariantCorrect, PTL

(* No fault of any kind without a departure from one session at a time:    *)
(* the part of FaultsAreProvoked that does not tell the causes apart.      *)
THEOREM NoFaultInOrder == Spec => [](risks = {} => fault = "none")
<1>1. IInv => (risks = {} => fault = "none")
  BY DEF IInv, OneSession, Orderly
<1> QED BY <1>1, InvariantCorrect, PTL

(* From its liveness check to its last counter, a pass of                  *)
(* sample_perf_counters sees one task and one block, although it reads     *)
(* both globals again at every use and nothing is locked.                  *)
THEOREM CallbackCorrect == Spec => CallbackSeesOneSession
<1>1. ASSUME Typed, IInv, [Next]_vars, callback # "idle", risks' = {}
      PROVE  UNCHANGED <<monitored_task, perf_data>>
  <2>1. CASE Next
    <3>1. Orderly /\ TimerActive
      BY <1>1, <2>1, RisksGrow DEF IInv, OneSession, TimerActive
    <3>2. stage # "clear" /\ \A w \in Writers : wpc[w] = "idle"
      BY <3>1 DEF Orderly, OneCall
    <3>3. ~ClearTask /\ \A w \in Writers : ~WriterStep(w)
      BY <3>2 DEF ClearTask, WriterStep, LookupTask, GetTask, AllocCounters,
         CreateEvent, InitTimer, StartTimer
    <3> QED
      BY <2>1, <3>3 DEF Next, Load, RegisterKprobe, CreatePidEntry,
         CreateMessageEntry, SetTarget, TimerStep, Fire, CheckTask, ReadRegs,
         ReadEvent, Rearm, ExitBegin, UnloadStep, CancelTimer,
         CleanupCounters, PutTask, RemoveEntries, TaskExit, Crash,
         WriteStaleEntry, globalVars
  <2>2. CASE UNCHANGED vars
    BY <2>2 DEF vars, globalVars
  <2> QED BY <1>1, <2>1, <2>2
<1>2. Typed /\ IInv /\ [Next]_vars =>
          [callback # "idle" /\ risks' = {} =>
               UNCHANGED <<monitored_task, perf_data>>]_vars
  BY <1>1
<1> QED BY <1>2, InvariantCorrect, PTL DEF Spec, CallbackSeesOneSession

-----------------------------------------------------------------------------
(* Which departure can lead to which fault.  Each part below says what one *)
(* of the module's globals still guarantees after some departures,         *)
(* whatever the others: it is the part of the invariant that survives      *)
(* them.                                                                   *)

(* The stages of stop_monitoring and exit that follow hrtimer_cancel, and  *)
(* those that follow put_task_struct.                                      *)
AfterCancel == {"cleanup", "put", "clear", "rm_message", "rm_pid", "drain",
                "rm_kprobe", "gone"}
AfterPut    == {"clear", "rm_message", "rm_pid", "drain", "rm_kprobe", "gone"}

(* A pid was written during another call or while a timer was active.      *)
Crossed == "overlap" \in risks \/ "retarget" \in risks

(* A call in progress has stored its pid; two calls at once are an         *)
(* overlap; a call during an active timer is an overlap or a retargeting.  *)
TargetWasSet == WriterActive => target_pid # NoTask

CallsOverlap ==
    \A v, w \in Writers :
        wpc[v] # "idle" /\ wpc[w] # "idle" /\ v # w => "overlap" \in risks

CallsMeetTimer == TimerActive /\ WriterActive => Crossed

(* Only a start that initialised the timer ends armed, so hrtimer_cancel   *)
(* finds it unset only when no session was running.                        *)
TimerWasSet ==
    /\ timer = "unset" => outcome # "armed"
    /\ timer = "unset" /\ stage = "cancel" => "idle_unload" \in risks

(* From the return of init_perf_counters on, perf_data is a block, unless  *)
(* a crossing call failed to make one and stored NULL.                     *)
CountersWereMade ==
    TimerActive \/ (\E w \in Writers : wpc[w] \in {"init", "arm"}) =>
        perf_data # NoBlock \/ Crossed

(* Nothing runs before the pid entry exists, nor after a failed load that  *)
(* left no entry behind.                                                   *)
QuietBefore == stage \in {"out", "load_pid"} => ~WriterActive /\ ~TimerActive

FailedLoad ==
    stage = "failed" /\ "load_failed" \notin risks =>
        ~WriterActive /\ ~TimerActive /\ "pid" \notin entries

(* Unless a pid write and rmmod overlap: no call is left once it has       *)
(* begun, no timer once it is cancelled; until then perf_data is NULL or   *)
(* whole, and the task is referenced or about to be, and cannot have been  *)
(* freed without the exit having raced pid_task.                           *)
NotLate == "late" \notin risks =>
    /\ stage \in AfterCancel \union {"cancel"} => ~WriterActive
    /\ stage \in AfterCancel => ~TimerActive
    /\ stage \notin AfterCancel => perf_data = NoBlock \/ HasCounters
    /\ stage \notin AfterPut /\ monitored_task # NoTask =>
          /\ refs[monitored_task] > 0 \/ \E w \in Writers : wpc[w] = "get"
          /\ "raced_exit" \in risks \/ refs[monitored_task] > 0
             \/ monitored_task \notin exited

(* Unless calls crossed, came late, or rmmod found no session: the target  *)
(* is a task from its lookup until stop_monitoring clears it, and what is  *)
(* unloaded is a session that was started.                                 *)
InOrder ==
    ~Crossed /\ "late" \notin risks /\ "idle_unload" \notin risks =>
        /\ \A w \in Writers :
               wpc[w] \notin {"idle", "lookup"} => monitored_task # NoTask
        /\ WriterActive => outcome = "pending"
        /\ TimerActive => monitored_task # NoTask
        /\ outcome = "armed" /\ stage \notin AfterPut \ {"clear"} =>
               monitored_task # NoTask
        /\ stage \in {"cancel", "cleanup", "put", "clear"} => outcome = "armed"

Provocations ==
    /\ TargetWasSet /\ CallsOverlap /\ CallsMeetTimer /\ TimerWasSet
    /\ CountersWereMade /\ QuietBefore /\ FailedLoad /\ NotLate /\ InOrder

LEMMA TargetWasSetStep ==
    ASSUME Typed, BlocksAreOwned, EntriesFollowStage, Provocations, [Next]_vars
    PROVE  TargetWasSet'
<1> USE DEF Typed, TypeOK, Provocations, TargetWasSet,
            WriterActive, moduleVars, globalVars, timerVars, writerVars,
            counterVars, taskVars
<1>1. CASE Load
  BY <1>1 DEF Load, RegisterKprobe, CreatePidEntry, CreateMessageEntry
<1>2. CASE \E w \in Writers, p \in Pids : SetTarget(w, p)
  BY <1>2 DEF SetTarget, Goto, WriteRisks, Risks
<1>3. CASE \E w \in Writers : WriterStep(w)
  BY <1>3 DEF WriterStep, LookupTask, GetTask, AllocCounters, NoCounters,
     CreateEvent, InitTimer, StartTimer, Goto, Return
<1>4. CASE TimerStep
  BY <1>4 DEF TimerStep, Fire, CheckTask, ReadRegs, ReadEvent, Rearm
<1>5. CASE ExitBegin
  BY <1>5 DEF ExitBegin, UnloadRisks, Risks
<1>6. CASE UnloadStep
  BY <1>6 DEF UnloadStep, CancelTimer, CleanupCounters, PutTask, ClearTask,
     RemoveEntries
<1>7. CASE (\E p \in Pids : TaskExit(p)) \/ Crash \/ WriteStaleEntry
  BY <1>7 DEF TaskExit, Crash, WriteStaleEntry
<1>8. CASE UNCHANGED vars
  BY <1>8 DEF vars
<1> QED BY <1>1, <1>2, <1>3, <1>4, <1>5, <1>6, <1>7, <1>8 DEF Next

LEMMA CallsOverlapStep ==
    ASSUME Typed, BlocksAreOwned, EntriesFollowStage, Provocations, [Next]_vars
    PROVE  CallsOverlap'
<1> USE DEF Typed, TypeOK, Provocations, CallsOverlap,
            WriterActive, moduleVars, globalVars, timerVars, writerVars,
            counterVars, taskVars
<1>1. CASE Load
  BY <1>1 DEF Load, RegisterKprobe, CreatePidEntry, CreateMessageEntry
<1>2. CASE \E w \in Writers, p \in Pids : SetTarget(w, p)
  BY <1>2 DEF SetTarget, Goto, WriteRisks, Risks
<1>3. CASE \E w \in Writers : WriterStep(w)
  BY <1>3 DEF WriterStep, LookupTask, GetTask, AllocCounters, NoCounters,
     CreateEvent, InitTimer, StartTimer, Goto, Return
<1>4. CASE TimerStep
  BY <1>4 DEF TimerStep, Fire, CheckTask, ReadRegs, ReadEvent, Rearm
<1>5. CASE ExitBegin
  BY <1>5 DEF ExitBegin, UnloadRisks, Risks
<1>6. CASE UnloadStep
  BY <1>6 DEF UnloadStep, CancelTimer, CleanupCounters, PutTask, ClearTask,
     RemoveEntries
<1>7. CASE (\E p \in Pids : TaskExit(p)) \/ Crash \/ WriteStaleEntry
  BY <1>7 DEF TaskExit, Crash, WriteStaleEntry
<1>8. CASE UNCHANGED vars
  BY <1>8 DEF vars
<1> QED BY <1>1, <1>2, <1>3, <1>4, <1>5, <1>6, <1>7, <1>8 DEF Next

LEMMA CallsMeetTimerStep ==
    ASSUME Typed, BlocksAreOwned, EntriesFollowStage, Provocations, [Next]_vars
    PROVE  CallsMeetTimer'
<1> USE DEF Typed, TypeOK, Provocations, CallsMeetTimer,
            CallsOverlap, Crossed, TimerActive, WriterActive, moduleVars,
            globalVars, timerVars, writerVars, counterVars, taskVars
<1>1. CASE Load
  BY <1>1 DEF Load, RegisterKprobe, CreatePidEntry, CreateMessageEntry
<1>2. CASE \E w \in Writers, p \in Pids : SetTarget(w, p)
  BY <1>2 DEF SetTarget, Goto, WriteRisks, Risks
<1>3. ASSUME NEW w \in Writers, WriterStep(w) PROVE CallsMeetTimer'
  <2> USE DEF Goto
  <2>1. CASE LookupTask(w)
    BY <2>1 DEF LookupTask, Return
  <2>2. CASE GetTask(w)
    BY <2>2 DEF GetTask
  <2>3. CASE AllocCounters(w)
    BY <2>3 DEF AllocCounters, NoCounters, Return
  <2>4. CASE CreateEvent(w)
    BY <2>4 DEF CreateEvent, NoCounters, Return
  <2>5. CASE InitTimer(w)
    BY <2>5 DEF InitTimer
  <2>6. CASE StartTimer(w)
    BY <2>6 DEF StartTimer, Return
  <2> QED BY <1>3, <2>1, <2>2, <2>3, <2>4, <2>5, <2>6 DEF WriterStep
<1>4. CASE TimerStep
  BY <1>4 DEF TimerStep, Fire, CheckTask, ReadRegs, ReadEvent, Rearm
<1>5. CASE ExitBegin
  BY <1>5 DEF ExitBegin, UnloadRisks, Risks
<1>6. CASE UnloadStep
  BY <1>6 DEF UnloadStep, CancelTimer, CleanupCounters, PutTask, ClearTask,
     RemoveEntries
<1>7. CASE (\E p \in Pids : TaskExit(p)) \/ Crash \/ WriteStaleEntry
  BY <1>7 DEF TaskExit, Crash, WriteStaleEntry
<1>8. CASE UNCHANGED vars
  BY <1>8 DEF vars
<1> QED BY <1>1, <1>2, <1>3, <1>4, <1>5, <1>6, <1>7, <1>8 DEF Next

LEMMA TimerWasSetStep ==
    ASSUME Typed, BlocksAreOwned, EntriesFollowStage, Provocations, [Next]_vars
    PROVE  TimerWasSet'
<1> USE DEF Typed, TypeOK, Provocations, TimerWasSet, moduleVars,
            globalVars, timerVars, writerVars, counterVars, taskVars
<1>1. CASE Load
  BY <1>1 DEF Load, RegisterKprobe, CreatePidEntry, CreateMessageEntry
<1>2. CASE \E w \in Writers, p \in Pids : SetTarget(w, p)
  BY <1>2 DEF SetTarget, Goto, WriteRisks, Risks
<1>3. CASE \E w \in Writers : WriterStep(w)
  BY <1>3 DEF WriterStep, LookupTask, GetTask, AllocCounters, NoCounters,
     CreateEvent, InitTimer, StartTimer, Goto, Return
<1>4. CASE TimerStep
  BY <1>4 DEF TimerStep, Fire, CheckTask, ReadRegs, ReadEvent, Rearm
<1>5. CASE ExitBegin
  BY <1>5 DEF ExitBegin, UnloadRisks, Risks
<1>6. CASE UnloadStep
  BY <1>6 DEF UnloadStep, CancelTimer, CleanupCounters, PutTask, ClearTask,
     RemoveEntries
<1>7. CASE (\E p \in Pids : TaskExit(p)) \/ Crash \/ WriteStaleEntry
  BY <1>7 DEF TaskExit, Crash, WriteStaleEntry
<1>8. CASE UNCHANGED vars
  BY <1>8 DEF vars
<1> QED BY <1>1, <1>2, <1>3, <1>4, <1>5, <1>6, <1>7, <1>8 DEF Next

LEMMA CountersWereMadeStep ==
    ASSUME Typed, BlocksAreOwned, EntriesFollowStage, Provocations, [Next]_vars
    PROVE  CountersWereMade'
<1> USE DEF Typed, TypeOK, Provocations, CountersWereMade,
            CallsOverlap, CallsMeetTimer, Crossed, TimerActive, WriterActive,
            moduleVars, globalVars, timerVars, writerVars, counterVars,
            taskVars
<1>1. CASE Load
  BY <1>1 DEF Load, RegisterKprobe, CreatePidEntry, CreateMessageEntry
<1>2. CASE \E w \in Writers, p \in Pids : SetTarget(w, p)
  BY <1>2 DEF SetTarget, Goto, WriteRisks, Risks
<1>3. ASSUME NEW w \in Writers, WriterStep(w) PROVE CountersWereMade'
  <2> USE DEF Goto
  <2>1. CASE LookupTask(w)
    BY <2>1 DEF LookupTask, Return
  <2>2. CASE GetTask(w)
    BY <2>2 DEF GetTask
  <2>3. CASE AllocCounters(w)
    BY <2>3 DEF AllocCounters, NoCounters, Return
  <2>4. CASE CreateEvent(w)
    BY <2>4 DEF CreateEvent, NoCounters, Return
  <2>5. CASE InitTimer(w)
    BY <2>5 DEF InitTimer
  <2>6. CASE StartTimer(w)
    BY <2>6 DEF StartTimer, Return
  <2> QED BY <1>3, <2>1, <2>2, <2>3, <2>4, <2>5, <2>6 DEF WriterStep
<1>4. CASE TimerStep
  BY <1>4 DEF TimerStep, Fire, CheckTask, ReadRegs, ReadEvent, Rearm
<1>5. CASE ExitBegin
  BY <1>5 DEF ExitBegin, UnloadRisks, Risks
<1>6. CASE UnloadStep
  BY <1>6 DEF UnloadStep, CancelTimer, CleanupCounters, PutTask, ClearTask,
     RemoveEntries
<1>7. CASE (\E p \in Pids : TaskExit(p)) \/ Crash \/ WriteStaleEntry
  BY <1>7 DEF TaskExit, Crash, WriteStaleEntry
<1>8. CASE UNCHANGED vars
  BY <1>8 DEF vars
<1> QED BY <1>1, <1>2, <1>3, <1>4, <1>5, <1>6, <1>7, <1>8 DEF Next

LEMMA QuietBeforeStep ==
    ASSUME Typed, BlocksAreOwned, EntriesFollowStage, Provocations, [Next]_vars
    PROVE  QuietBefore'
<1> USE DEF Typed, TypeOK, Provocations, QuietBefore,
            EntriesFollowStage, TextPresent, TimerActive, WriterActive,
            moduleVars, globalVars, timerVars, writerVars, counterVars,
            taskVars
<1>1. CASE Load
  BY <1>1 DEF Load, RegisterKprobe, CreatePidEntry, CreateMessageEntry
<1>2. CASE \E w \in Writers, p \in Pids : SetTarget(w, p)
  BY <1>2 DEF SetTarget, Goto, WriteRisks, Risks
<1>3. CASE \E w \in Writers : WriterStep(w)
  BY <1>3 DEF WriterStep, LookupTask, GetTask, AllocCounters, NoCounters,
     CreateEvent, InitTimer, StartTimer, Goto, Return
<1>4. CASE TimerStep
  BY <1>4 DEF TimerStep, Fire, CheckTask, ReadRegs, ReadEvent, Rearm
<1>5. CASE ExitBegin
  BY <1>5 DEF ExitBegin, UnloadRisks, Risks
<1>6. CASE UnloadStep
  BY <1>6 DEF UnloadStep, CancelTimer, CleanupCounters, PutTask, ClearTask,
     RemoveEntries
<1>7. CASE (\E p \in Pids : TaskExit(p)) \/ Crash \/ WriteStaleEntry
  BY <1>7 DEF TaskExit, Crash, WriteStaleEntry
<1>8. CASE UNCHANGED vars
  BY <1>8 DEF vars
<1> QED BY <1>1, <1>2, <1>3, <1>4, <1>5, <1>6, <1>7, <1>8 DEF Next

LEMMA FailedLoadStep ==
    ASSUME Typed, BlocksAreOwned, EntriesFollowStage, Provocations, [Next]_vars
    PROVE  FailedLoad'
<1> USE DEF Typed, TypeOK, Provocations, FailedLoad,
            EntriesFollowStage, QuietBefore, TextPresent, TimerActive,
            WriterActive, moduleVars, globalVars, timerVars, writerVars,
            counterVars, taskVars
<1>1. CASE Load
  BY <1>1 DEF Load, RegisterKprobe, CreatePidEntry, CreateMessageEntry
<1>2. CASE \E w \in Writers, p \in Pids : SetTarget(w, p)
  BY <1>2 DEF SetTarget, Goto, WriteRisks, Risks
<1>3. CASE \E w \in Writers : WriterStep(w)
  BY <1>3 DEF WriterStep, LookupTask, GetTask, AllocCounters, NoCounters,
     CreateEvent, InitTimer, StartTimer, Goto, Return
<1>4. CASE TimerStep
  BY <1>4 DEF TimerStep, Fire, CheckTask, ReadRegs, ReadEvent, Rearm
<1>5. CASE ExitBegin
  BY <1>5 DEF ExitBegin, UnloadRisks, Risks
<1>6. CASE UnloadStep
  BY <1>6 DEF UnloadStep, CancelTimer, CleanupCounters, PutTask, ClearTask,
     RemoveEntries
<1>7. CASE (\E p \in Pids : TaskExit(p)) \/ Crash \/ WriteStaleEntry
  BY <1>7 DEF TaskExit, Crash, WriteStaleEntry
<1>8. CASE UNCHANGED vars
  BY <1>8 DEF vars
<1> QED BY <1>1, <1>2, <1>3, <1>4, <1>5, <1>6, <1>7, <1>8 DEF Next

LEMMA NotLateStep ==
    ASSUME Typed, BlocksAreOwned, EntriesFollowStage, Provocations, [Next]_vars
    PROVE  NotLate'
<1> USE DEF Typed, TypeOK, Provocations, NotLate, CallsOverlap,
            QuietBefore, FailedLoad, TextPresent, ExitStages, HasCounters,
            AfterCancel, AfterPut, TimerActive, WriterActive, moduleVars,
            globalVars, timerVars, writerVars, counterVars, taskVars
<1>1. CASE Load
  BY <1>1 DEF Load, RegisterKprobe, CreatePidEntry, CreateMessageEntry
<1>2. CASE \E w \in Writers, p \in Pids : SetTarget(w, p)
  BY <1>2 DEF SetTarget, Goto, WriteRisks, Risks
<1>3. ASSUME NEW w \in Writers, WriterStep(w) PROVE NotLate'
  <2> USE DEF Goto
  <2>1. CASE LookupTask(w)
    BY <2>1 DEF LookupTask, Return
  <2>2. CASE GetTask(w)
    BY <2>2 DEF GetTask
  <2>3. CASE AllocCounters(w)
    BY <2>3 DEF AllocCounters, NoCounters, Return
  <2>4. CASE CreateEvent(w)
    <3>1. CASE perf_data' = NoBlock
      BY <2>4, <3>1 DEF CreateEvent, NoCounters, Return
    <3>2. CASE UNCHANGED <<perf_data, heap>> /\ events \subseteq events'
      BY <2>4, <3>2 DEF CreateEvent, NoCounters, Return
    <3>3. CASE /\ perf_data' = wblock[w] /\ UNCHANGED heap
               /\ ~(wevent[w] < NumEvents)
               /\ events' = events \union {<<wblock[w], wevent[w]>>}
      <4>1. /\ wblock[w] \in heap
            /\ \A i \in Indices : i < wevent[w] => <<wblock[w], i>> \in events
        BY <2>4 DEF CreateEvent, BlocksAreOwned, CallOwnsBlock
      <4>2. \A i \in Indices : i < wevent[w] \/ i = wevent[w]
        BY <3>3
      <4>3. HasCounters'
        BY <3>3, <4>1, <4>2 DEF EventsOf
      <4> QED BY <2>4, <3>3, <4>3 DEF CreateEvent, NoCounters, Return
    <3> QED BY <2>4, <3>1, <3>2, <3>3 DEF CreateEvent, NoCounters
  <2>5. CASE InitTimer(w)
    BY <2>5 DEF InitTimer
  <2>6. CASE StartTimer(w)
    BY <2>6 DEF StartTimer, Return
  <2> QED BY <1>3, <2>1, <2>2, <2>3, <2>4, <2>5, <2>6 DEF WriterStep
<1>4. CASE TimerStep
  BY <1>4 DEF TimerStep, Fire, CheckTask, ReadRegs, ReadEvent, Rearm
<1>5. CASE ExitBegin
  BY <1>5 DEF ExitBegin, UnloadRisks, Risks
<1>6. CASE UnloadStep
  BY <1>6 DEF UnloadStep, CancelTimer, CleanupCounters, PutTask, ClearTask,
     RemoveEntries
<1>7. CASE (\E p \in Pids : TaskExit(p)) \/ Crash \/ WriteStaleEntry
  BY <1>7 DEF TaskExit, Crash, WriteStaleEntry
<1>8. CASE UNCHANGED vars
  BY <1>8 DEF vars
<1> QED BY <1>1, <1>2, <1>3, <1>4, <1>5, <1>6, <1>7, <1>8 DEF Next

LEMMA InOrderStep ==
    ASSUME Typed, BlocksAreOwned, EntriesFollowStage, Provocations, [Next]_vars
    PROVE  InOrder'
<1> USE DEF Typed, TypeOK, Provocations, InOrder, CallsOverlap,
            CallsMeetTimer, NotLate, TargetWasSet, TextPresent, ExitStages,
            Crossed, AfterCancel, AfterPut, TimerActive, WriterActive,
            moduleVars, globalVars, timerVars, writerVars, counterVars,
            taskVars
<1>1. CASE Load
  BY <1>1 DEF Load, RegisterKprobe, CreatePidEntry, CreateMessageEntry
<1>2. CASE \E w \in Writers, p \in Pids : SetTarget(w, p)
  BY <1>2 DEF SetTarget, Goto, WriteRisks, Risks
<1>3. ASSUME NEW w \in Writers, WriterStep(w) PROVE InOrder'
  <2> USE DEF Goto
  <2>1. CASE LookupTask(w)
    BY <2>1 DEF LookupTask, Return
  <2>2. CASE GetTask(w)
    BY <2>2 DEF GetTask
  <2>3. CASE AllocCounters(w)
    BY <2>3 DEF AllocCounters, NoCounters, Return
  <2>4. CASE CreateEvent(w)
    BY <2>4 DEF CreateEvent, NoCounters, Return
  <2>5. CASE InitTimer(w)
    BY <2>5 DEF InitTimer
  <2>6. CASE StartTimer(w)
    BY <2>6 DEF StartTimer, Return
  <2> QED BY <1>3, <2>1, <2>2, <2>3, <2>4, <2>5, <2>6 DEF WriterStep
<1>4. CASE TimerStep
  BY <1>4 DEF TimerStep, Fire, CheckTask, ReadRegs, ReadEvent, Rearm
<1>5. CASE ExitBegin
  BY <1>5 DEF ExitBegin, UnloadRisks, Risks
<1>6. CASE UnloadStep
  BY <1>6 DEF UnloadStep, CancelTimer, CleanupCounters, PutTask, ClearTask,
     RemoveEntries
<1>7. CASE (\E p \in Pids : TaskExit(p)) \/ Crash \/ WriteStaleEntry
  BY <1>7 DEF TaskExit, Crash, WriteStaleEntry
<1>8. CASE UNCHANGED vars
  BY <1>8 DEF vars
<1> QED BY <1>1, <1>2, <1>3, <1>4, <1>5, <1>6, <1>7, <1>8 DEF Next

LEMMA ProvocationsStep ==
    Typed /\ BlocksAreOwned /\ EntriesFollowStage /\ Provocations /\ [Next]_vars
        => Provocations'
  BY TargetWasSetStep, CallsOverlapStep, CallsMeetTimerStep, TimerWasSetStep,
     CountersWereMadeStep, QuietBeforeStep, FailedLoadStep, NotLateStep,
     InOrderStep DEF Provocations

LEMMA ProvocationsInit == Init => Provocations
  BY DEF Init, Provocations, TargetWasSet, CallsOverlap, CallsMeetTimer,
     TimerWasSet, CountersWereMade, QuietBefore, FailedLoad, NotLate, InOrder,
     TimerActive, WriterActive, HasCounters, AfterCancel, AfterPut

(* A step that would break something needs a departure that explains it.   *)
LEMMA BrokenIsProvoked ==
    ASSUME Typed, BlocksAreOwned, EntriesFollowStage, Provocations,
           NEW f \in Faults, Broken(f)
    PROVE  Causes[f] \intersect risks # {}
<1> USE DEF Broken, Causes, Faults, Provocations
<1>1. CASE f = "null_timer"
  BY <1>1 DEF TimerWasSet
<1>2. CASE f = "timer_reinit"
  BY <1>2 DEF CallsMeetTimer, WriterActive, Crossed
<1>3. CASE f = "null_task"
  BY <1>3 DEF InOrder, TimerActive, Crossed, AfterPut
<1>4. CASE f = "freed_task"
  BY <1>4 DEF NotLate, TimerActive, WriterActive, AfterCancel, AfterPut, Freed,
     Typed, TypeOK
<1>5. CASE f = "ref_underflow"
  BY <1>5 DEF NotLate, WriterActive, AfterCancel, AfterPut, Typed, TypeOK
<1>6. CASE f = "null_counters"
  BY <1>6 DEF CountersWereMade, TimerActive, Crossed
<1>7. CASE f = "freed_counters"
  BY <1>7 DEF NotLate, TimerActive, AfterCancel, HasCounters, EventsOf,
     Typed, TypeOK
<1>8. CASE f = "freed_text"
  BY <1>8 DEF NotLate, QuietBefore, FailedLoad, TextPresent, AfterCancel
<1> QED BY <1>1, <1>2, <1>3, <1>4, <1>5, <1>6, <1>7, <1>8

(* A pid entry without the module's text behind it is left by a failed     *)
(* load.                                                                   *)
LEMMA StaleIsProvoked ==
    ASSUME EntriesFollowStage, Provocations, WriteStaleEntry
    PROVE  Causes["freed_text"] \intersect risks # {}
  BY DEF WriteStaleEntry, TextPresent, EntriesFollowStage, Provocations,
     FailedLoad, Causes, Faults

LEMMA FaultsStep ==
    ASSUME Typed, BlocksAreOwned, EntriesFollowStage, Provocations,
           FaultsAreProvoked, [Next]_vars
    PROVE  FaultsAreProvoked'
<1> SUFFICES ASSUME fault' # "none" PROVE Causes[fault'] \intersect risks' # {}
  BY DEF FaultsAreProvoked
<1>1. CASE UNCHANGED vars
  BY <1>1 DEF vars, FaultsAreProvoked
<1>2. CASE Crash
  <2>1. PICK f \in Faults : Broken(f) /\ fault' = f
    BY <1>2 DEF Crash
  <2> QED BY <1>2, <2>1, BrokenIsProvoked DEF Crash
<1>3. CASE WriteStaleEntry
  BY <1>3, StaleIsProvoked DEF WriteStaleEntry
<1>4. CASE Next /\ ~Crash /\ ~WriteStaleEntry
  <2>1. fault' = "none"
    BY <1>4 DEF Next, Load, RegisterKprobe, CreatePidEntry, CreateMessageEntry,
       SetTarget, WriterStep, LookupTask, GetTask, AllocCounters, CreateEvent,
       InitTimer, StartTimer, TimerStep, Fire, CheckTask, ReadRegs, ReadEvent,
       Rearm, ExitBegin, UnloadStep, CancelTimer, CleanupCounters, PutTask,
       ClearTask, RemoveEntries, TaskExit
  <2> QED BY <2>1
<1> QED BY <1>1, <1>2, <1>3, <1>4

(* Each way of misusing the unlocked globals needs one of the departures   *)
(* that Causes gives for it: a task is used after it was freed only if a   *)
(* pid write and rmmod overlapped or the exit raced pid_task,              *)
(* sample_perf_counters reads freed counters only if a pid write and rmmod *)
(* overlapped, and so on for every fault, any number of calls, tasks and   *)
(* events.                                                                 *)
THEOREM FaultsProvokedCorrect == Spec => []FaultsAreProvoked
<1>1. Init => FaultsAreProvoked
  BY DEF Init, FaultsAreProvoked
<1> QED
  BY <1>1, ProvocationsInit, ProvocationsStep, FaultsStep, TypeInit, TypeStep,
     OwnInit, OwnStep, EntriesInit, EntriesStep, PTL DEF Spec

-----------------------------------------------------------------------------
(* What unloading gives back.  In ordinary use every live block is whole,  *)
(* under construction or being released; the latest one is perf_data.      *)

WholeOrUnderWay ==
    \A b \in heap : \/ EventsOf(b) \subseteq events
                    \/ \E w \in Writers : wpc[w] = "create" /\ wblock[w] = b
                    \/ stage = "cleanup" /\ b = stopBlock
LatestBlock ==
    /\ \A w \in Writers : wpc[w] # "idle" => wblock[w] = starts
    /\ \A w \in Writers : wpc[w] \in {"init", "arm"} => perf_data = starts
    /\ outcome = "armed" \/ stage \in AfterCancel =>
           \A b \in heap : b <= perf_data
GivenBack ==
    /\ stage = "cleanup" => stopBlock = perf_data
    /\ stage \in AfterCancel \ {"cleanup"} => perf_data \notin heap
    /\ stage \in AfterPut \ {"clear"} => monitored_task = NoTask
LastSession == WholeOrUnderWay /\ LatestBlock /\ GivenBack

LEMMA LastLoad ==
    ASSUME Typed, Orderly, LastSession, Load
    PROVE  LastSession'
  BY DEF LastSession, WholeOrUnderWay, LatestBlock, GivenBack, EventsOf,
     AfterCancel, AfterPut, Load, RegisterKprobe, CreatePidEntry,
     CreateMessageEntry, globalVars, writerVars, counterVars, Orderly

LEMMA LastSetTarget ==
    ASSUME NEW w \in Writers, NEW p \in Pids, Typed, BlocksAreOwned,
           EntriesFollowStage, LastSession, SetTarget(w, p), risks' = {}
    PROVE  LastSession'
<1>1. ~WriterActive /\ stage \notin ExitStages
  BY DEF SetTarget, WriteRisks, Risks
<1>2. stage \notin AfterCancel
  BY <1>1 DEF SetTarget, TextPresent, AfterCancel, ExitStages
<1>3. /\ wpc' = [wpc EXCEPT ![w] = "lookup"] /\ outcome' = "pending"
      /\ wblock' = [wblock EXCEPT ![w] = starts + 1] /\ starts' = starts + 1
      /\ UNCHANGED <<stage, stopBlock, monitored_task, perf_data, heap, events>>
  BY DEF SetTarget, Goto, moduleVars, counterVars
<1>4. wpc'[w] = "lookup" /\ wblock'[w] = starts'
      /\ \A v \in Writers : v # w => wpc'[v] = "idle" /\ wpc[v] = "idle"
  BY <1>1, <1>3 DEF WriterActive, Typed, TypeOK
<1>5. WholeOrUnderWay'
  BY <1>1, <1>3, <1>4 DEF LastSession, WholeOrUnderWay, EventsOf, WriterActive
<1>6. LatestBlock' /\ GivenBack'
  BY <1>2, <1>3, <1>4 DEF LastSession, LatestBlock, GivenBack, AfterCancel,
     AfterPut
<1> QED BY <1>5, <1>6 DEF LastSession

LEMMA LastWriter ==
    ASSUME NEW w \in Writers, Typed, BlocksAreOwned, Orderly, LastSession,
           WriterStep(w)
    PROVE  LastSession'
<1>1. wpc[w] # "idle" /\ UNCHANGED <<moduleVars, starts>>
  BY DEF WriterStep, LookupTask, GetTask, AllocCounters, CreateEvent,
     InitTimer, StartTimer
<1>2. /\ stage \notin AfterCancel /\ outcome = "pending" /\ wblock[w] = starts
      /\ \A v \in Writers : v # w => wpc[v] = "idle"
  BY <1>1 DEF Orderly, OneCall, AfterCancel, LastSession, LatestBlock
<1>3. /\ wpc \in [Writers -> {"idle", "lookup", "get", "alloc", "create",
                              "init", "arm"}]
      /\ wblock \in [Writers -> 0..MaxStarts] /\ wevent[w] \in Indices
      /\ starts \in Nat /\ \A b \in heap : b <= starts
  BY DEF Typed, TypeOK, BlocksAreOwned
<1>4. GivenBack'
  BY <1>1, <1>2 DEF GivenBack, AfterCancel, AfterPut, moduleVars
<1> USE DEF Goto, Return, globalVars, counterVars, moduleVars
<1>5. LatestBlock'
  <2> USE DEF LastSession, LatestBlock
  <2>1. CASE LookupTask(w) \/ GetTask(w)
    BY <1>1, <1>2, <1>3, <2>1 DEF LookupTask, GetTask
  <2>2. CASE AllocCounters(w) \/ CreateEvent(w)
    BY <1>1, <1>2, <1>3, <2>2 DEF AllocCounters, CreateEvent, NoCounters
  <2>3. CASE InitTimer(w) \/ StartTimer(w)
    BY <1>1, <1>2, <1>3, <2>3 DEF InitTimer, StartTimer
  <2> QED BY <2>1, <2>2, <2>3 DEF WriterStep
<1>6. WholeOrUnderWay'
  <2> USE DEF LastSession, WholeOrUnderWay, EventsOf
  <2>1. CASE wpc[w] # "create" /\ UNCHANGED counterVars
    BY <1>1, <1>2, <2>1
  <2>2. CASE AllocCounters(w) /\ ~UNCHANGED heap
    BY <1>1, <1>2, <1>3, <2>2 DEF AllocCounters, NoCounters
  <2>3. CASE CreateEvent(w)
    <3>1. CASE ReleasePartial(w)
      <4> SUFFICES ASSUME NEW b \in heap' PROVE EventsOf(b) \subseteq events'
        OBVIOUS
      <4>1. b \in heap /\ b # wblock[w]
        BY <3>1 DEF ReleasePartial
      <4>2. EventsOf(b) \subseteq events
        BY <1>1, <1>2, <2>3, <4>1 DEF CreateEvent, Orderly, OneCall
      <4> QED BY <3>1, <4>1, <4>2 DEF ReleasePartial
    <3>2. CASE wpc'[w] = "create" /\ UNCHANGED <<heap, wblock>>
               /\ events \subseteq events'
      BY <1>1, <1>2, <1>3, <2>3, <3>2
    <3>3. CASE wpc'[w] = "init" /\ ~(wevent[w] < NumEvents) /\ UNCHANGED heap
               /\ events' = events \union {<<wblock[w], wevent[w]>>}
      <4>1. \A i \in Indices : i < wevent[w] => <<wblock[w], i>> \in events
        BY <2>3 DEF CreateEvent, BlocksAreOwned, CallOwnsBlock
      <4>2. \A i \in Indices : i < wevent[w] \/ i = wevent[w]
        BY <1>3, <3>3
      <4>3. EventsOf(wblock[w]) \subseteq events'
        BY <3>3, <4>1, <4>2
      <4> QED BY <1>1, <1>2, <3>3, <4>3
    <3> QED BY <1>3, <2>3, <3>1, <3>2, <3>3 DEF CreateEvent
  <2> QED
    BY <2>1, <2>2, <2>3 DEF WriterStep, LookupTask, GetTask, AllocCounters,
       NoCounters, InitTimer, StartTimer
<1> QED BY <1>4, <1>5, <1>6 DEF LastSession

LEMMA LastUnload ==
    ASSUME Typed, BlocksAreOwned, Orderly, LastSession, ExitBegin \/ UnloadStep,
           risks' = {}
    PROVE  LastSession'
<1> USE DEF LastSession, WholeOrUnderWay, LatestBlock, GivenBack, EventsOf,
            AfterCancel, AfterPut, globalVars, writerVars, counterVars
<1>1. CASE ExitBegin
  BY <1>1 DEF ExitBegin
<1>2. CASE CancelTimer
  BY <1>2 DEF CancelTimer, Orderly
<1>3. CASE CleanupCounters
  <2>1. stage = "cleanup" /\ stopBlock = perf_data
    BY <1>3 DEF CleanupCounters
  <2>2. /\ heap' \subseteq heap /\ stage' \in {"cleanup", "put"}
        /\ UNCHANGED <<perf_data, stopBlock, wpc, wblock, starts, outcome,
                       monitored_task>>
        /\ stage' = "put" => heap' = heap \ {stopBlock}
        /\ \A e \in events : e \in events' \/ e \in EventsOf(stopBlock)
    BY <1>3, <2>1 DEF CleanupCounters
  <2>3. ASSUME NEW b \in heap', b # stopBlock, EventsOf(b) \subseteq events
        PROVE  EventsOf(b) \subseteq events'
    BY <2>2, <2>3
  <2>4. WholeOrUnderWay'
    BY <2>1, <2>2, <2>3
  <2> QED BY <2>1, <2>2, <2>4
<1>4. CASE PutTask
  BY <1>4 DEF PutTask
<1>5. CASE ClearTask
  BY <1>5 DEF ClearTask
<1>6. CASE RemoveEntries
  BY <1>6 DEF RemoveEntries
<1> QED BY <1>1, <1>2, <1>3, <1>4, <1>5, <1>6 DEF UnloadStep

LEMMA LastStep ==
    ASSUME Typed, IInv, risks = {} => LastSession, [Next]_vars
    PROVE  (risks = {} => LastSession)'
<1> SUFFICES ASSUME risks' = {} PROVE LastSession'
  OBVIOUS
<1>1. CASE Next
  <2>1. risks = {} /\ Orderly /\ LastSession
    BY <1>1, RisksGrow DEF IInv, OneSession
  <2>2. ~Crash /\ ~WriteStaleEntry
    BY <2>1, OrderlyDoesNotBreak DEF IInv
  <2>3. CASE TimerStep \/ \E p \in Pids : TaskExit(p)
    BY <2>1, <2>3 DEF TimerStep, Fire, CheckTask, ReadRegs, ReadEvent, Rearm,
       TaskExit, LastSession, WholeOrUnderWay, LatestBlock, GivenBack,
       EventsOf, AfterCancel, AfterPut, moduleVars, globalVars, writerVars,
       counterVars
  <2> QED
    BY <1>1, <2>1, <2>2, <2>3, LastLoad, LastSetTarget, LastWriter, LastUnload
       DEF Next, IInv
<1>2. CASE UNCHANGED vars
  BY <1>2 DEF vars, LastSession, WholeOrUnderWay, LatestBlock, GivenBack,
     EventsOf, AfterCancel, AfterPut, moduleVars, globalVars, writerVars,
     counterVars
<1> QED BY <1>1, <1>2

(* After any number of sessions, one at a time, unloading has released the *)
(* last block and its task; the blocks of earlier sessions, which          *)
(* perf_data no longer reaches, are all still whole.                       *)
THEOREM UnloadReturnsCorrect == Spec => []UnloadReturnsLastSession
<1>1. Init => (risks = {} => LastSession)
  BY DEF Init, LastSession, WholeOrUnderWay, LatestBlock, GivenBack,
     AfterCancel, AfterPut
<1>2. Typed /\ IInv /\ (risks = {} => LastSession) => UnloadReturnsLastSession
  <2> SUFFICES ASSUME Typed, IInv, LastSession, risks = {}, stage = "gone"
               PROVE  /\ perf_data \notin heap /\ monitored_task = NoTask
                      /\ \A b \in heap :
                            b < perf_data /\ EventsOf(b) \subseteq events
    BY DEF UnloadReturnsLastSession
  <2>1. perf_data \notin heap /\ monitored_task = NoTask
    BY DEF LastSession, GivenBack, AfterCancel, AfterPut
  <2>2. \A b \in heap : b < perf_data
    BY <2>1 DEF LastSession, LatestBlock, AfterCancel, Typed, TypeOK
  <2>3. \A w \in Writers : wpc[w] = "idle"
    BY DEF IInv, OneSession, Orderly, OneCall
  <2> QED BY <2>1, <2>2, <2>3 DEF LastSession, WholeOrUnderWay
<1>3. Typed /\ IInv /\ (risks = {} => LastSession) /\ [Next]_vars
          => (risks = {} => LastSession)'
  BY LastStep
<1> QED BY <1>1, <1>2, <1>3, InvariantCorrect, PTL DEF Spec

-----------------------------------------------------------------------------
(* One session after the other: the module implements SamplingSession.     *)
(* Beyond the invariants above, the mapping needs that the loop index is   *)
(* back at its start whenever no pass reads, that a timer whose callback   *)
(* runs is off its queue, and that a call which has looked its task up     *)
(* works for the pid written last.                                         *)

IndexRests   == callback # "read" => cbEvent = 1
OneTimer     == callback # "idle" => timer = "idle"
CallIsLatest ==
    \A w \in Writers : wpc[w] \notin {"idle", "lookup"} =>
        monitored_task = target_pid
SessionInv == IndexRests /\ (risks = {} => OneTimer /\ CallIsLatest)

LEMMA SessionInvInit == Init => SessionInv
  BY DEF Init, SessionInv, IndexRests, OneTimer, CallIsLatest

LEMMA IndexStep == IndexRests /\ [Next]_vars => IndexRests'
<1> SUFFICES ASSUME IndexRests, [Next]_vars PROVE IndexRests'
  OBVIOUS
<1>1. CASE UNCHANGED <<callback, cbEvent>>
  BY <1>1 DEF IndexRests
<1>2. CASE TimerStep
  BY <1>2 DEF IndexRests, TimerStep, Fire, CheckTask, ReadRegs, ReadEvent, Rearm
<1>3. CASE Next /\ ~TimerStep
  BY <1>1, <1>3 DEF Next, Load, RegisterKprobe, CreatePidEntry,
     CreateMessageEntry, SetTarget, WriterStep, LookupTask, GetTask,
     AllocCounters, CreateEvent, InitTimer, StartTimer, ExitBegin, UnloadStep,
     CancelTimer, CleanupCounters, PutTask, ClearTask, RemoveEntries, TaskExit,
     Crash, WriteStaleEntry, timerVars
<1> QED BY <1>1, <1>2, <1>3 DEF vars, timerVars

LEMMA OrderStep ==
    ASSUME Typed, Orderly, OneTimer, CallIsLatest, Next, risks = {},
           risks' = {}, EntriesFollowStage
    PROVE  OneTimer' /\ CallIsLatest'
<1> USE DEF OneTimer, CallIsLatest
<1>1. CASE Load \/ ExitBegin \/ UnloadStep \/ \E p \in Pids : TaskExit(p)
  <2>1. /\ UNCHANGED <<wpc, callback, target_pid>>
        /\ timer' = timer \/ timer' = "idle"
    BY <1>1 DEF Load, RegisterKprobe, CreatePidEntry, CreateMessageEntry,
       ExitBegin, UnloadStep, CancelTimer, CleanupCounters, PutTask,
       ClearTask, RemoveEntries, TaskExit, globalVars, timerVars, writerVars
  <2>2. CASE UNCHANGED monitored_task
    BY <2>1, <2>2
  <2>3. CASE ClearTask
    BY <2>1, <2>3 DEF ClearTask, Orderly, OneCall
  <2> QED
    BY <1>1, <2>2, <2>3 DEF Load, RegisterKprobe, CreatePidEntry,
       CreateMessageEntry, ExitBegin, UnloadStep, CancelTimer,
       CleanupCounters, PutTask, RemoveEntries, TaskExit, globalVars
<1>2. CASE \E w \in Writers, p \in Pids : SetTarget(w, p)
  BY <1>2 DEF SetTarget, WriteRisks, Risks, WriterActive, Goto, Typed, TypeOK,
     timerVars
<1>3. CASE \E w \in Writers : WriterStep(w)
  <2> PICK w \in Writers : WriterStep(w)
    BY <1>3
  <2>1. /\ ~TimerActive /\ UNCHANGED <<callback, target_pid>>
        /\ \A v \in Writers : v # w => wpc[v] = "idle" /\ wpc'[v] = "idle"
    BY DEF Orderly, OneCall, Typed, TypeOK, WriterStep, LookupTask, GetTask,
       AllocCounters, NoCounters, CreateEvent, InitTimer, StartTimer, Goto,
       Return, globalVars, timerVars
  <2>2. wpc'[w] \notin {"idle", "lookup"} => monitored_task' = target_pid'
    BY DEF Typed, TypeOK, WriterStep, LookupTask, GetTask, AllocCounters,
       NoCounters, CreateEvent, InitTimer, StartTimer, Goto, Return,
       globalVars
  <2> QED BY <2>1, <2>2 DEF TimerActive
<1>4. CASE TimerStep
  BY <1>4 DEF TimerStep, Fire, CheckTask, ReadRegs, ReadEvent, Rearm,
     globalVars, writerVars
<1>5. ~Crash /\ ~WriteStaleEntry
  BY OrderlyDoesNotBreak
<1> QED BY <1>1, <1>2, <1>3, <1>4, <1>5 DEF Next

LEMMA SessionInvStep ==
    ASSUME Typed, IInv, SessionInv, [Next]_vars
    PROVE  SessionInv'
<1>1. IndexRests'
  BY IndexStep DEF SessionInv
<1>2. ASSUME risks' = {} PROVE OneTimer' /\ CallIsLatest'
  <2>1. CASE Next
    BY <1>2, <2>1, OrderStep, RisksGrow DEF SessionInv, IInv, OneSession
  <2>2. CASE UNCHANGED vars
    BY <1>2, <2>2 DEF SessionInv, OneTimer, CallIsLatest, vars, globalVars,
       timerVars, writerVars
  <2> QED BY <2>1, <2>2
<1> QED BY <1>1, <1>2 DEF SessionInv

(* What the abstract session sees of a state. *)
Over == stage \in {"failed", "gone"} \union (ExitStages \ {"cancel"})

LEMMA SessionFrame ==
    ASSUME UNCHANGED <<risks, starts, exited, Progress>>,
           WriterActive' <=> WriterActive, TimerActive' <=> TimerActive,
           Over' <=> Over,
           WriterActive => UNCHANGED target_pid,
           TimerActive => UNCHANGED <<monitored_task, perf_data>>
    PROVE  UNCHANGED Session!vars
  BY DEF Session!vars, Over

LEMMA SessionOfLoad ==
    ASSUME Typed, Orderly, Load, risks = {}, risks' = {}
    PROVE  Session!Orderly \/ UNCHANGED Session!vars
<1>1. /\ UNCHANGED <<globalVars, timerVars, writerVars, exited>> /\ ~Over
      /\ stage \in LoadStages
  BY DEF Load, RegisterKprobe, CreatePidEntry, CreateMessageEntry, taskVars,
     Over, ExitStages, LoadStages
<1>2. UNCHANGED <<WriterActive, TimerActive, Progress>>
  BY <1>1 DEF WriterActive, TimerActive, Progress, timerVars, writerVars
<1>3. CASE Over'
  <2>1. stage \in {"out", "load_pid"}
    BY <1>3 DEF Load, RegisterKprobe, CreatePidEntry, CreateMessageEntry, Over,
       ExitStages
  <2>2. ~WriterActive /\ ~TimerActive /\ callback = "idle"
    BY <2>1 DEF Orderly, OneCall, WriterActive, TimerActive
  <2>3. Session!Unload
    BY <1>1, <1>2, <1>3, <2>2 DEF Session!Unload, Session!NoPass, Progress,
       Over, globalVars, writerVars
  <2> QED BY <2>3 DEF Session!Orderly
<1>4. CASE ~Over'
  BY <1>1, <1>2, <1>4, SessionFrame DEF globalVars, writerVars
<1> QED BY <1>3, <1>4

LEMMA SessionOfSetTarget ==
    ASSUME NEW w \in Writers, NEW p \in Pids, Typed, EntriesFollowStage,
           SetTarget(w, p), risks' = {}
    PROVE  Session!Orderly
<1>1. ~WriterActive /\ ~TimerActive /\ stage \notin ExitStages
  BY DEF SetTarget, WriteRisks, Risks
<1>2. /\ UNCHANGED <<stage, timer, callback, cbEvent, exited>> /\ ~Over
      /\ target_pid' = p /\ starts' = starts + 1 /\ wpc'[w] = "lookup"
  BY <1>1 DEF SetTarget, TextPresent, Over, moduleVars, timerVars, taskVars,
     Goto, Typed, TypeOK
<1>3. WriterActive' /\ ~TimerActive' /\ UNCHANGED Progress
  BY <1>1, <1>2 DEF WriterActive, TimerActive, Progress
<1>4. Session!Request(p)
  BY <1>1, <1>2, <1>3 DEF Session!Request, Over
<1> QED BY <1>4 DEF Session!Orderly

LEMMA SessionOfWriter ==
    ASSUME NEW w \in Writers, Typed, Orderly, LastSession, CallIsLatest,
           WriterStep(w), risks = {}
    PROVE  Session!Orderly \/ UNCHANGED Session!vars
<1>1. /\ wpc[w] # "idle"
      /\ UNCHANGED <<stage, risks, starts, exited, target_pid, callback, cbEvent>>
  BY DEF WriterStep, LookupTask, GetTask, AllocCounters, NoCounters,
     CreateEvent, InitTimer, StartTimer, moduleVars, globalVars, timerVars,
     taskVars
<1>2. /\ WriterActive /\ ~TimerActive /\ callback = "idle"
      /\ \A v \in Writers : v # w => wpc[v] = "idle"
  BY <1>1 DEF Orderly, OneCall, WriterActive, TimerActive
<1>3. \A v \in Writers : v # w => wpc'[v] = "idle"
  BY <1>2 DEF Typed, TypeOK, WriterStep, LookupTask, GetTask, AllocCounters,
     NoCounters, CreateEvent, InitTimer, StartTimer, Goto, Return
<1>4. WriterActive' <=> wpc'[w] # "idle"
  BY <1>3 DEF WriterActive
<1>5. UNCHANGED <<Progress, Over>>
  BY <1>1 DEF Progress, Over
<1>6. target_pid \in Pids
  BY <1>1 DEF Orderly, OneCall, HoldsTask, CallIsLatest, Typed, TypeOK
<1>7. CASE StartTimer(w)
  <2>1. /\ wpc[w] = "arm" /\ timer' = "queued" /\ wpc'[w] = "idle"
        /\ UNCHANGED <<monitored_task, perf_data>>
    BY <1>7 DEF StartTimer, Return, Goto, globalVars, Typed, TypeOK
  <2>2. monitored_task = target_pid /\ perf_data = starts
    BY <2>1 DEF CallIsLatest, LastSession, LatestBlock
  <2>3. TimerActive'
    BY <2>1 DEF TimerActive
  <2>4. Session!Begin
    BY <1>1, <1>2, <1>4, <1>5, <1>6, <2>1, <2>2, <2>3 DEF Session!Begin, Over
  <2> QED BY <2>4 DEF Session!Orderly
<1>8. CASE ~StartTimer(w)
  <2>1. ~TimerActive'
    BY <1>2, <1>8 DEF WriterStep, LookupTask, GetTask, AllocCounters,
       NoCounters, CreateEvent, InitTimer, timerVars, TimerActive
  <2>2. CASE wpc'[w] = "idle"
    <3>1. Session!Refuse
      BY <1>1, <1>2, <1>4, <1>5, <1>6, <2>1, <2>2 DEF Session!Refuse, Over
    <3> QED BY <3>1 DEF Session!Orderly
  <2>3. CASE wpc'[w] # "idle"
    BY <1>1, <1>2, <1>4, <1>5, <2>1, <2>3, SessionFrame
  <2> QED BY <2>2, <2>3
<1> QED BY <1>7, <1>8

LEMMA SessionOfTimer ==
    ASSUME Typed, Orderly, IndexRests, OneTimer, TimerStep, risks = {}
    PROVE  Session!Orderly \/ UNCHANGED Session!vars
<1>1. UNCHANGED <<moduleVars, globalVars, writerVars, exited, risks>>
  BY DEF TimerStep, Fire, CheckTask, ReadRegs, ReadEvent, Rearm, taskVars
<1>2. UNCHANGED <<WriterActive, Over>>
  BY <1>1 DEF WriterActive, Over, moduleVars, writerVars
<1>3. TimerActive /\ monitored_task \in Pids
  BY DEF TimerStep, Fire, CheckTask, ReadRegs, ReadEvent, Rearm, TimerActive,
     Orderly, HoldsTask
<1>4. cbEvent \in Indices /\ NumEvents \in Nat \ {0}
  BY DEF Typed, TypeOK
<1> USE DEF Over, globalVars, writerVars, IndexRests, OneTimer
<1>5. CASE Fire
  <2>1. TimerActive' /\ Progress = -2 /\ Progress' = -1
    BY <1>5 DEF Fire, TimerActive, Progress
  <2>2. Session!BeginPass
    BY <1>1, <1>2, <1>3, <2>1 DEF Session!BeginPass, Session!NoPass, Session!Look
  <2> QED BY <2>2 DEF Session!Orderly
<1>6. CASE CheckTask /\ monitored_task \notin exited
  <2>1. TimerActive' /\ Progress = -1 /\ Progress' = 0
    BY <1>3, <1>6 DEF CheckTask, TimerActive, Progress
  <2>2. Session!FindAlive
    BY <1>1, <1>2, <1>3, <1>6, <2>1 DEF Session!FindAlive, Session!Look
  <2> QED BY <2>2 DEF Session!Orderly
<1>7. CASE CheckTask /\ monitored_task \in exited
  <2>1. ~TimerActive' /\ Progress = -1 /\ Progress' = -2
    BY <1>7 DEF CheckTask, TimerActive, Progress
  <2>2. Session!FallSilent
    BY <1>1, <1>2, <1>3, <1>7, <2>1
       DEF Session!FallSilent, Session!NoPass, Session!Look
  <2> QED BY <2>2 DEF Session!Orderly
<1>8. CASE ReadRegs
  <2>1. TimerActive' /\ UNCHANGED Progress
    BY <1>8 DEF ReadRegs, TimerActive, Progress
  <2> QED BY <1>1, <1>2, <1>3, <2>1, SessionFrame
<1>9. CASE ReadEvent
  <2>1. /\ TimerActive' /\ Progress \in 0..(NumEvents - 1)
        /\ Progress' = Progress + 1
    BY <1>4, <1>9 DEF ReadEvent, TimerActive, Progress
  <2>2. Session!ReadCounter
    BY <1>1, <1>2, <1>3, <2>1 DEF Session!ReadCounter
  <2> QED BY <2>2 DEF Session!Orderly
<1>10. CASE Rearm
  <2>1. TimerActive' /\ Progress = NumEvents /\ Progress' = -2
    BY <1>10 DEF Rearm, TimerActive, Progress
  <2>2. Session!EndPass
    BY <1>1, <1>2, <1>3, <2>1 DEF Session!EndPass, Session!NoPass
  <2> QED BY <2>2 DEF Session!Orderly
<1> QED BY <1>5, <1>6, <1>7, <1>8, <1>9, <1>10 DEF TimerStep

LEMMA SessionOfUnload ==
    ASSUME Typed, Orderly, ExitBegin \/ UnloadStep, risks = {}, risks' = {}
    PROVE  Session!Orderly \/ UNCHANGED Session!vars
<1>1. UNCHANGED <<writerVars, exited, target_pid, callback, cbEvent>>
  BY DEF ExitBegin, UnloadStep, CancelTimer, CleanupCounters, PutTask,
     ClearTask, RemoveEntries, globalVars, timerVars, taskVars
<1>2. UNCHANGED <<WriterActive, Progress, starts>>
  BY <1>1 DEF WriterActive, Progress, writerVars
<1>3. CASE CancelTimer
  <2>1. /\ ~Over /\ Over' /\ ~WriterActive /\ Progress = -2 /\ ~TimerActive'
    BY <1>3 DEF CancelTimer, Over, ExitStages, Orderly, OneCall, WriterActive,
       Progress, TimerActive
  <2>2. Session!Unload
    BY <1>1, <1>2, <2>1 DEF Session!Unload, Session!NoPass, Over
  <2> QED BY <2>2 DEF Session!Orderly
<1>4. CASE ExitBegin
  <2>1. UNCHANGED <<Over, TimerActive, globalVars>>
    BY <1>4 DEF ExitBegin, Over, ExitStages, TimerActive, timerVars
  <2> QED BY <1>1, <1>2, <2>1, SessionFrame DEF globalVars
<1>5. CASE CleanupCounters \/ PutTask \/ ClearTask \/ RemoveEntries
  <2>1. Over /\ Over' /\ UNCHANGED timerVars /\ stage # "cancel" /\ stage \in ExitStages
    BY <1>5 DEF CleanupCounters, PutTask, ClearTask, RemoveEntries, Over,
       ExitStages
  <2>2. ~TimerActive /\ ~TimerActive'
    BY <2>1 DEF Orderly, TimerActive, timerVars, ExitStages
  <2> QED BY <1>1, <1>2, <2>1, <2>2, SessionFrame
<1> QED BY <1>3, <1>4, <1>5 DEF UnloadStep

LEMMA SessionOfExit ==
    ASSUME NEW p \in Pids, TaskExit(p)
    PROVE  Session!Orderly
<1>1. /\ UNCHANGED <<moduleVars, globalVars, timerVars, writerVars>>
      /\ exited' = exited \union {p}
  BY DEF TaskExit
<1>2. UNCHANGED <<WriterActive, TimerActive, Progress, Over>>
  BY <1>1 DEF WriterActive, TimerActive, Progress, Over, moduleVars, timerVars,
     writerVars
<1>3. Session!Exit(p)
  BY <1>1, <1>2 DEF Session!Exit, Over, globalVars, writerVars
<1> QED BY <1>3 DEF Session!Orderly

LEMMA SessionStep ==
    ASSUME Typed, IInv, risks = {} => LastSession, SessionInv, [Next]_vars
    PROVE  [Session!Next]_(Session!vars)
<1>1. CASE UNCHANGED vars
  <2>1. UNCHANGED <<WriterActive, TimerActive, Progress, Over>>
    BY <1>1 DEF WriterActive, TimerActive, Progress, Over, vars, moduleVars,
       timerVars, writerVars
  <2> QED
    BY <1>1, <2>1, SessionFrame DEF vars, globalVars, writerVars, taskVars
<1>2. CASE risks' # {}
  BY <1>2 DEF Session!Next
<1>3. CASE Next /\ risks' = {}
  <2>1. /\ risks = {} /\ Orderly /\ LastSession /\ EntriesFollowStage
        /\ IndexRests /\ OneTimer /\ CallIsLatest
    BY <1>3, RisksGrow DEF IInv, OneSession, SessionInv
  <2>2. ~Crash /\ ~WriteStaleEntry
    BY <2>1, OrderlyDoesNotBreak
  <2>3. Session!Orderly \/ UNCHANGED Session!vars
    BY <1>3, <2>1, <2>2, SessionOfLoad, SessionOfSetTarget, SessionOfWriter,
       SessionOfTimer, SessionOfUnload, SessionOfExit DEF Next
  <2> QED BY <1>3, <2>1, <2>3 DEF Session!Next
<1> QED BY <1>1, <1>2, <1>3

(* For any number of tasks, calls, events and sessions: until its use      *)
(* departs from one session at a time, the module acts as SamplingSession. *)
(* start_monitoring samples the task and the block of the pid written      *)
(* last, or nothing; sample_perf_counters makes complete passes over one   *)
(* session and ends with its task; stop_monitoring waits for the pass.     *)
THEOREM SessionsCorrect == Spec => ActsAsSessions
<1>1. Init => Session!Init
  BY DEF Init, Session!Init, Session!NoPass, WriterActive, TimerActive,
     Progress, ExitStages
<1>2. Init => (risks = {} => LastSession)
  BY DEF Init, LastSession, WholeOrUnderWay, LatestBlock, GivenBack,
     AfterCancel, AfterPut
<1>3. Typed /\ IInv /\ (risks = {} => LastSession) /\ [Next]_vars
          => (risks = {} => LastSession)'
  BY LastStep
<1>4. Typed /\ IInv /\ SessionInv /\ [Next]_vars => SessionInv'
  BY SessionInvStep
<1>5. Typed /\ IInv /\ (risks = {} => LastSession) /\ SessionInv /\ [Next]_vars
          => [Session!Next]_(Session!vars)
  BY SessionStep
<1> QED
  BY <1>1, <1>2, <1>3, <1>4, <1>5, SessionInvInit, InvariantCorrect, PTL
     DEF Spec, ActsAsSessions, Session!Spec
=============================================================================
