--------------------------- MODULE MonitorV2Proofs ---------------------------
(***************************************************************************)
(* Proofs about MonitorV2 for any number of tasks, writers, events and pid *)
(* writes, whatever the usage: TypeOK, and the ownership of counter blocks.*)
(* MonitorV2SessionProofs builds on these lemmas.                          *)
(***************************************************************************)
EXTENDS MonitorV2, TLAPS

USE NumEventsAssumption, MaxStartsAssumption, PidsAssumption
    DEF NoBlock, Tasks, BlockIds, Indices

(* What TypeOK needs to be inductive: a call under way has a real block. *)
Typed == TypeOK /\ \A w \in Writers : wpc[w] # "idle" => wblock[w] > 0

-----------------------------------------------------------------------------
(* One lemma per group of actions; each step keeps the types. *)

LEMMA TypeLoad == Typed /\ Load => Typed'
  BY DEF Load, RegisterKprobe, CreatePidEntry, CreateMessageEntry, Typed,
         TypeOK, Stages, LoadStages, ExitStages, Risks, moduleVars,
         globalVars, timerVars, writerVars, counterVars, taskVars

LEMMA TypeSetTarget ==
    ASSUME NEW w \in Writers, NEW p \in Pids, Typed, SetTarget(w, p)
    PROVE  Typed'
<1>1. risks' \subseteq Risks
  BY DEF SetTarget, WriteRisks, Typed, TypeOK
<1>2. wblock' \in [Writers -> 0..MaxStarts] /\ starts' \in 0..MaxStarts
  BY DEF SetTarget, Typed, TypeOK
<1>3. \A v \in Writers : wpc'[v] # "idle" => wblock'[v] > 0
  BY DEF SetTarget, Goto, Typed, TypeOK
<1> QED
  BY <1>1, <1>2, <1>3 DEF SetTarget, Goto, Typed, TypeOK, Outcomes,
     moduleVars, timerVars, counterVars, taskVars

LEMMA TypeWriter ==
    ASSUME NEW w \in Writers, Typed, WriterStep(w)
    PROVE  Typed'
<1> USE DEF Typed, TypeOK, Goto, Return, Outcomes, moduleVars, globalVars,
            timerVars, writerVars, counterVars, taskVars
<1>1. CASE LookupTask(w)
  BY <1>1 DEF LookupTask
<1>2. CASE GetTask(w)
  BY <1>2 DEF GetTask
<1>3. CASE AllocCounters(w)
  <2>1. wblock[w] \in BlockIds
    BY <1>3 DEF AllocCounters
  <2>2. heap' \subseteq BlockIds
    BY <1>3, <2>1 DEF AllocCounters
  <2> QED BY <1>3, <2>2 DEF AllocCounters, NoCounters
<1>4. CASE CreateEvent(w)
  <2>1. wblock[w] \in BlockIds /\ wevent[w] \in Indices
    BY <1>4 DEF CreateEvent
  <2>2. heap' \subseteq heap
    BY <1>4 DEF CreateEvent, ReleasePartial
  <2>4. events' \subseteq events \union {<<wblock[w], wevent[w]>>}
    BY <1>4 DEF CreateEvent, ReleasePartial
  <2>5. events' \subseteq BlockIds \X Indices
    BY <2>1, <2>4
  <2>3. wevent' \in [Writers -> Indices]
    BY <1>4, <2>1 DEF CreateEvent, NoCounters
  <2> QED BY <1>4, <2>1, <2>2, <2>3, <2>5 DEF CreateEvent, NoCounters
<1>5. CASE InitTimer(w)
  BY <1>5 DEF InitTimer
<1>6. CASE StartTimer(w)
  BY <1>6 DEF StartTimer
<1> QED BY <1>1, <1>2, <1>3, <1>4, <1>5, <1>6 DEF WriterStep

LEMMA TypeTimer == Typed /\ TimerStep => Typed'
<1> SUFFICES ASSUME Typed, TimerStep PROVE Typed'
  OBVIOUS
<1>1. /\ timer' \in {"unset", "idle", "queued"} /\ cbEvent' \in Indices
      /\ callback' \in {"idle", "check", "regs", "read", "rearm"}
  BY DEF TimerStep, Fire, CheckTask, ReadRegs, ReadEvent, Rearm, Typed, TypeOK
<1>2. UNCHANGED <<moduleVars, globalVars, writerVars, counterVars, taskVars,
                  risks, fault>>
  BY DEF TimerStep, Fire, CheckTask, ReadRegs, ReadEvent, Rearm
<1> QED
  BY <1>1, <1>2 DEF Typed, TypeOK, moduleVars, globalVars, writerVars,
     counterVars, taskVars

LEMMA TypeUnload == Typed /\ (ExitBegin \/ UnloadStep) => Typed'
<1> SUFFICES ASSUME Typed, ExitBegin \/ UnloadStep PROVE Typed'
  OBVIOUS
<1> USE DEF Typed, TypeOK, moduleVars, globalVars, timerVars, writerVars,
            counterVars, taskVars
<1>1. CASE ExitBegin
  <2>1. risks' \subseteq Risks
    BY <1>1 DEF ExitBegin, UnloadRisks
  <2> QED BY <1>1, <2>1 DEF ExitBegin, Stages, ExitStages
<1>2. CASE CancelTimer
  BY <1>2 DEF CancelTimer, Stages, ExitStages
<1>3. CASE CleanupCounters
  BY <1>3 DEF CleanupCounters, Stages, ExitStages
<1>4. CASE PutTask
  BY <1>4 DEF PutTask, Stages, ExitStages
<1>5. CASE ClearTask
  BY <1>5 DEF ClearTask, Stages, ExitStages
<1>6. CASE RemoveEntries
  BY <1>6 DEF RemoveEntries, Stages, ExitStages
<1> QED BY <1>1, <1>2, <1>3, <1>4, <1>5, <1>6 DEF UnloadStep

LEMMA TypeKernel ==
    Typed /\ ((\E p \in Pids : TaskExit(p)) \/ Crash \/ WriteStaleEntry) => Typed'
  BY DEF TaskExit, Crash, WriteStaleEntry, Typed, TypeOK, Risks, Faults,
         moduleVars, globalVars, timerVars, writerVars, counterVars, taskVars

LEMMA TypeInit == Init => Typed
  BY DEF Init, Typed, TypeOK, Stages, LoadStages, Outcomes, Risks

LEMMA TypeStep == Typed /\ [Next]_vars => Typed'
<1> SUFFICES ASSUME Typed, [Next]_vars PROVE Typed'
  OBVIOUS
<1>1. CASE Next
  BY <1>1, TypeLoad, TypeSetTarget, TypeWriter, TypeTimer, TypeUnload,
     TypeKernel DEF Next
<1>2. CASE UNCHANGED vars
  BY <1>2 DEF vars, moduleVars, globalVars, timerVars, writerVars,
              counterVars, taskVars, Typed, TypeOK
<1> QED BY <1>1, <1>2

(* Every variable of the module keeps its type, whatever the usage: loop   *)
(* indices of init_perf_counters and sample_perf_counters stay inside      *)
(* events[], and every block is one that some start allocated.             *)
THEOREM TypeCorrect == Spec => []TypeOK
<1>1. Typed => TypeOK
  BY DEF Typed
<1> QED BY <1>1, TypeInit, TypeStep, PTL DEF Spec

-----------------------------------------------------------------------------
(* Ownership of blocks.  Only a call and the unloading disturb it.         *)

blockVars == <<perf_data, stopBlock, wpc, wblock, wevent, starts, heap, events>>

LEMMA OwnFrame == BlocksAreOwned /\ UNCHANGED blockVars => BlocksAreOwned'
  BY DEF blockVars, BlocksAreOwned, CallOwnsBlock, NoOrphanEvent

LEMMA OwnSetTarget ==
    ASSUME NEW w \in Writers, NEW p \in Pids, Typed, BlocksAreOwned,
           SetTarget(w, p)
    PROVE  BlocksAreOwned'
<1> USE DEF BlocksAreOwned, NoOrphanEvent
<1>1. /\ starts' = starts + 1 /\ starts \in Nat /\ starts + 1 \in Nat
      /\ UNCHANGED <<perf_data, stopBlock, heap, events, wevent>>
      /\ wblock' = [wblock EXCEPT ![w] = starts + 1]
      /\ wpc' = [wpc EXCEPT ![w] = "lookup"] /\ wpc[w] = "idle"
  BY DEF SetTarget, Goto, moduleVars, counterVars, Typed, TypeOK
<1>2. /\ wblock \in [Writers -> 0..MaxStarts] /\ heap \subseteq BlockIds
      /\ perf_data \in Nat /\ stopBlock \in Nat
      /\ DOMAIN wpc = Writers /\ starts \in Nat
  BY DEF Typed, TypeOK
<1>3. ASSUME NEW v \in Writers PROVE CallOwnsBlock(v)'
  BY <1>1, <1>2 DEF CallOwnsBlock
<1> QED BY <1>1, <1>2, <1>3

(* A block that is not live has no events. *)
LEMMA DeadBlockHasNoEvent ==
    ASSUME NoOrphanEvent, NEW b, b \notin heap, NEW i
    PROVE  <<b, i>> \notin events
  BY DEF NoOrphanEvent

LEMMA OwnAlloc ==
    ASSUME NEW w \in Writers, Typed, BlocksAreOwned, AllocCounters(w)
    PROVE  BlocksAreOwned'
<1>1. CASE heap' = heap
  BY <1>1 DEF AllocCounters, NoCounters, Return, Goto, BlocksAreOwned,
     NoOrphanEvent, CallOwnsBlock, Typed, TypeOK, moduleVars
<1>2. CASE heap' # heap
  <2>1. /\ heap' = heap \union {wblock[w]} /\ wpc[w] = "alloc"
        /\ wpc' = [wpc EXCEPT ![w] = "create"]
        /\ UNCHANGED <<perf_data, stopBlock, wblock, wevent, starts, events>>
    BY <1>2 DEF AllocCounters, NoCounters, Goto, moduleVars
  <2>2. /\ wblock[w] \notin heap /\ wblock[w] <= starts /\ wblock[w] > 0
        /\ wevent[w] = 1 /\ wblock[w] # perf_data /\ wblock[w] # stopBlock
    BY <2>1 DEF BlocksAreOwned, CallOwnsBlock
  <2>3. \A i \in Indices : <<wblock[w], i>> \notin events
    BY <2>2, DeadBlockHasNoEvent DEF BlocksAreOwned
  <2>4. ASSUME NEW v \in Writers PROVE CallOwnsBlock(v)'
    <3>1. CASE v = w
      BY <2>1, <2>2, <2>3, <3>1 DEF BlocksAreOwned, CallOwnsBlock, Typed, TypeOK
    <3>2. CASE v # w
      <4>1. wblock[v] # wblock[w]
        BY <2>1, <3>2 DEF BlocksAreOwned, CallOwnsBlock
      <4> QED
        BY <2>1, <4>1, <3>2 DEF BlocksAreOwned, CallOwnsBlock, Typed, TypeOK
    <3> QED BY <3>1, <3>2
  <2> QED BY <2>1, <2>2, <2>4 DEF BlocksAreOwned, NoOrphanEvent
<1> QED BY <1>1, <1>2

(* One more event of the block under construction. *)
LEMMA OwnCreated ==
    ASSUME NEW w \in Writers, Typed, BlocksAreOwned, wpc[w] = "create",
           events' = events \union {<<wblock[w], wevent[w]>>},
           UNCHANGED <<stopBlock, wblock, starts, heap>>,
           \/ /\ wevent[w] < NumEvents
              /\ wevent' = [wevent EXCEPT ![w] = @ + 1]
              /\ UNCHANGED <<wpc, perf_data>>
           \/ /\ wevent[w] = NumEvents
              /\ perf_data' = wblock[w]
              /\ wpc' = [wpc EXCEPT ![w] = "init"] /\ UNCHANGED wevent
    PROVE  BlocksAreOwned'
<1>1. /\ wblock[w] \in heap /\ wblock[w] <= starts /\ wblock[w] > 0
      /\ wblock[w] # perf_data /\ wblock[w] # stopBlock
      /\ \A i \in Indices : <<wblock[w], i>> \in events <=> i < wevent[w]
  BY DEF BlocksAreOwned, CallOwnsBlock
<1>2. wevent \in [Writers -> Indices] /\ wevent[w] \in Indices
  BY DEF Typed, TypeOK
<1>3. DOMAIN wpc = Writers
  BY DEF Typed, TypeOK
<1>4. ASSUME NEW v \in Writers PROVE CallOwnsBlock(v)'
  <2>1. CASE v = w
    <3>1. \A i \in Indices :
              <<wblock[w], i>> \in events' <=> i < wevent[w] \/ i = wevent[w]
      BY <1>1, <1>2
    <3>2. \A u \in Writers : wblock[u] = wblock[w] => u = w
      BY DEF BlocksAreOwned, CallOwnsBlock
    <3> QED BY <1>1, <1>2, <1>3, <2>1, <3>1, <3>2 DEF CallOwnsBlock
  <2>2. CASE v # w
    <3>1. wblock[v] # wblock[w] /\ CallOwnsBlock(v)
      BY <2>2 DEF BlocksAreOwned, CallOwnsBlock
    <3>2. \A i \in Indices : <<wblock[v], i>> \in events' <=> <<wblock[v], i>> \in events
      BY <3>1
    <3>3. wpc'[v] = wpc[v] /\ wevent'[v] = wevent[v] /\ wblock'[v] = wblock[v]
      BY <1>2, <1>3, <2>2
    <3>4. perf_data' = perf_data \/ perf_data' = wblock[w]
      OBVIOUS
    <3>5. \A u \in Writers : wpc[v] # "idle" /\ wblock'[u] = wblock'[v] => u = v
      BY <3>1 DEF CallOwnsBlock
    <3> QED BY <3>1, <3>2, <3>3, <3>4, <3>5 DEF CallOwnsBlock
  <2> QED BY <2>1, <2>2
<1>5. NoOrphanEvent'
  BY <1>1 DEF BlocksAreOwned, NoOrphanEvent
<1> QED BY <1>1, <1>4, <1>5 DEF BlocksAreOwned

(* The block under construction is given up with all its events. *)
LEMMA OwnReleased ==
    ASSUME NEW w \in Writers, Typed, BlocksAreOwned, wpc[w] = "create",
           ReleasePartial(w), NoCounters(w), UNCHANGED <<stopBlock, starts>>
    PROVE  BlocksAreOwned'
<1> DEFINE b == wblock[w]
<1>1. /\ heap' = heap \ {b} /\ perf_data' = 0 /\ wpc' = [wpc EXCEPT ![w] = "idle"]
      /\ wblock' = [wblock EXCEPT ![w] = 0] /\ wevent' = [wevent EXCEPT ![w] = 1]
      /\ events' = events \ {<<b, i>> : i \in 1..(wevent[w] - 1)}
  BY DEF ReleasePartial, NoCounters, Return, Goto
<1>2. /\ wpc \in [Writers -> {"idle", "lookup", "get", "alloc", "create",
                              "init", "arm"}]
      /\ wblock \in [Writers -> 0..MaxStarts] /\ wevent \in [Writers -> Indices]
      /\ events \subseteq BlockIds \X Indices /\ starts \in Nat
  BY DEF Typed, TypeOK
<1>3. \A i \in Indices : <<b, i>> \in events => i \in 1..(wevent[w] - 1)
  BY <1>2 DEF BlocksAreOwned, CallOwnsBlock
<1>4. \A e \in events' : e[1] \in heap'
  <2> SUFFICES ASSUME NEW e \in events' PROVE e[1] \in heap'
    OBVIOUS
  <2>1. PICK c \in BlockIds, i \in Indices : e = <<c, i>>
    BY <1>1, <1>2
  <2>2. e \in events /\ c \in heap
    BY <1>1, <2>1 DEF BlocksAreOwned, NoOrphanEvent
  <2>3. c # b
    BY <1>1, <1>3, <2>1, <2>2
  <2> QED BY <1>1, <2>1, <2>2, <2>3
<1>5. ASSUME NEW v \in Writers PROVE CallOwnsBlock(v)'
  <2>1. CASE v = w
    BY <1>1, <1>2, <2>1 DEF CallOwnsBlock
  <2>2. CASE v # w
    <3>1. b # 0 /\ CallOwnsBlock(v) /\ wblock[v] # b
      BY <2>2 DEF BlocksAreOwned, CallOwnsBlock
    <3>2. \A i \in Indices : <<wblock[v], i>> \in events' <=> <<wblock[v], i>> \in events
      BY <1>1, <3>1
    <3>3. wpc'[v] = wpc[v] /\ wblock'[v] = wblock[v] /\ wevent'[v] = wevent[v]
      BY <1>1, <1>2, <2>2
    <3>4. \A u \in Writers : wpc[v] # "idle" /\ wblock'[u] = wblock[v] => u = v
      BY <1>1, <1>2, <3>1 DEF CallOwnsBlock
    <3> HIDE DEF b
    <3> QED
      BY <1>1, <3>1, <3>2, <3>3, <3>4 DEF CallOwnsBlock
  <2> QED BY <2>1, <2>2
<1> QED BY <1>1, <1>2, <1>4, <1>5 DEF BlocksAreOwned, NoOrphanEvent

LEMMA OwnCreate ==
    ASSUME NEW w \in Writers, Typed, BlocksAreOwned, CreateEvent(w)
    PROVE  BlocksAreOwned'
<1>1. wpc[w] = "create" /\ UNCHANGED <<stopBlock, starts>>
  BY DEF CreateEvent, moduleVars
<1>2. CASE ReleasePartial(w) /\ NoCounters(w)
  BY <1>1, <1>2, OwnReleased
<1>3. CASE ~(ReleasePartial(w) /\ NoCounters(w))
  <2>1. wevent[w] \in 1..NumEvents
    BY DEF Typed, TypeOK
  <2>2. /\ events' = events \union {<<wblock[w], wevent[w]>>}
        /\ UNCHANGED <<wblock, heap>>
        /\ IF wevent[w] < NumEvents
           THEN /\ wevent' = [wevent EXCEPT ![w] = @ + 1]
                /\ UNCHANGED <<wpc, perf_data>>
           ELSE /\ perf_data' = wblock[w]
                /\ wpc' = [wpc EXCEPT ![w] = "init"] /\ UNCHANGED wevent
    BY <1>3 DEF CreateEvent, Goto
  <2> QED BY <1>1, <2>1, <2>2, OwnCreated
<1> QED BY <1>2, <1>3

LEMMA OwnWriter ==
    ASSUME NEW w \in Writers, Typed, BlocksAreOwned, WriterStep(w)
    PROVE  BlocksAreOwned'
<1> USE DEF Typed, TypeOK, BlocksAreOwned, NoOrphanEvent, CallOwnsBlock, Goto,
            Return, moduleVars, counterVars
<1>1. CASE LookupTask(w)
  BY <1>1 DEF LookupTask
<1>2. CASE GetTask(w)
  BY <1>2 DEF GetTask, globalVars
<1>3. CASE InitTimer(w)
  BY <1>3 DEF InitTimer, globalVars
<1>4. CASE StartTimer(w)
  BY <1>4 DEF StartTimer, globalVars
<1> QED BY <1>1, <1>2, <1>3, <1>4, OwnAlloc, OwnCreate DEF WriterStep

LEMMA OwnUnload ==
    ASSUME Typed, BlocksAreOwned, UnloadStep
    PROVE  BlocksAreOwned'
<1> USE DEF moduleVars, globalVars, timerVars, writerVars, counterVars, taskVars
<1>1. CASE CancelTimer
  BY <1>1 DEF CancelTimer, BlocksAreOwned, NoOrphanEvent, CallOwnsBlock
<1>2. CASE CleanupCounters
  <2>1. UNCHANGED <<perf_data, stopBlock, wpc, wblock, wevent, starts>>
    BY <1>2 DEF CleanupCounters
  <2>2. /\ heap' \subseteq heap /\ heap \subseteq heap' \union {stopBlock}
        /\ events' \subseteq events
        /\ events \subseteq events' \union EventsOf(stopBlock)
        /\ heap' = heap \/ (events' = events /\ events \intersect EventsOf(stopBlock) = {})
    BY <1>2 DEF CleanupCounters, EventsOf
  <2>3. NoOrphanEvent'
    <3> SUFFICES ASSUME NEW e \in events' PROVE e[1] \in heap'
      BY DEF NoOrphanEvent
    <3>1. PICK c \in BlockIds, i \in Indices : e = <<c, i>>
      BY <2>2 DEF Typed, TypeOK
    <3>2. c \in heap
      BY <2>2, <3>1 DEF BlocksAreOwned, NoOrphanEvent
    <3>3. c = stopBlock => heap' = heap
      BY <2>2, <3>1 DEF EventsOf
    <3> QED BY <2>2, <3>1, <3>2, <3>3
  <2>4. ASSUME NEW v \in Writers PROVE CallOwnsBlock(v)'
    <3>1. CallOwnsBlock(v)
      BY DEF BlocksAreOwned
    <3>2. ASSUME wpc[v] = "create", NEW i \in Indices
          PROVE  <<wblock[v], i>> \in events' <=> <<wblock[v], i>> \in events
      BY <2>2, <3>1, <3>2 DEF CallOwnsBlock, EventsOf
    <3> QED BY <2>1, <2>2, <3>1, <3>2 DEF CallOwnsBlock
  <2> QED BY <2>1, <2>2, <2>3, <2>4 DEF BlocksAreOwned
<1>3. CASE PutTask \/ ClearTask \/ RemoveEntries
  BY <1>3, OwnFrame DEF PutTask, ClearTask, RemoveEntries, blockVars
<1> QED BY <1>1, <1>2, <1>3 DEF UnloadStep

LEMMA OwnRest ==
    ASSUME BlocksAreOwned,
           \/ Load \/ TimerStep \/ ExitBegin \/ Crash \/ WriteStaleEntry
           \/ \E p \in Pids : TaskExit(p)
    PROVE  BlocksAreOwned'
<1>1. UNCHANGED blockVars
  BY DEF blockVars, Load, RegisterKprobe, CreatePidEntry, CreateMessageEntry,
     TimerStep, Fire, CheckTask, ReadRegs, ReadEvent, Rearm, ExitBegin, Crash,
     WriteStaleEntry, TaskExit, moduleVars, globalVars, writerVars, counterVars
<1> QED BY <1>1, OwnFrame

LEMMA OwnStep == Typed /\ BlocksAreOwned /\ [Next]_vars => BlocksAreOwned'
<1> SUFFICES ASSUME Typed, BlocksAreOwned, [Next]_vars PROVE BlocksAreOwned'
  OBVIOUS
<1>1. CASE Next
  BY <1>1, OwnSetTarget, OwnWriter, OwnUnload, OwnRest DEF Next
<1>2. CASE UNCHANGED vars
  <2>1. UNCHANGED blockVars
    BY <1>2 DEF vars, blockVars, moduleVars, globalVars, writerVars, counterVars
  <2> QED BY <2>1, OwnFrame
<1> QED BY <1>1, <1>2

LEMMA OwnInit == Init => BlocksAreOwned
  BY DEF Init, BlocksAreOwned, CallOwnsBlock, NoOrphanEvent

(* Blocks are owned in every reachable state, so no error path of          *)
(* init_perf_counters or cleanup_perf_counters leaves a live event behind  *)
(* a freed block, whatever the interleaving of writes and rmmod.           *)
THEOREM NoOrphanCorrect == Spec => []NoOrphanEvent
<1>1. BlocksAreOwned => NoOrphanEvent
  BY DEF BlocksAreOwned
<1> QED BY <1>1, TypeInit, TypeStep, OwnInit, OwnStep, PTL DEF Spec
=============================================================================
