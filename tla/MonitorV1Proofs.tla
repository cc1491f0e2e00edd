--------------------------- MODULE MonitorV1Proofs ---------------------------
(***************************************************************************)
(* Theorems about MonitorV1 for any CPUs, writers, tasks, keys and numbers *)
(* of events.  The inductive invariant is TypeOK, that the code between    *)
(* mutex_lock and mutex_unlock is owned by one CPU, what this gives for    *)
(* the list and the events, where each walk over the list stands, and who  *)
(* is inside the module at each stage of unloading.                        *)
(***************************************************************************)
EXTENDS MonitorV1, TLAPS, SequenceTheorems

USE CpuNumbersAssumption, NamesAssumption, BoundsAssumption

Entry  == [pc : Keys, of : SUBSET Pids]
Inside == {"compare", "create", "read", "search", "insert", "unlock"}

OwnerInside  == \A c \in Cpus : hpc[c] \in Inside => mutex = c
InsertIsNew  == \A c \in Cpus : hpc[c] = "insert" =>
                   \A i \in 1..Len(counter_list) : counter_list[i].pc # key[c]
TaskIsPid    == \A c \in Cpus : hpc[c] # "out" => task[c] \in Pids
EventsInLoop ==
    ~failed => \A e \in events :
        \/ hpc[e[1]] = "create" /\ e[2] < index[e[1]]
        \/ hpc[e[1]] = "read" /\ e[2] >= index[e[1]]
WalkInList   == \A w \in Writers :
    IF wpc[w] = "lines" THEN wleft[w] + wpos[w] <= Len(counter_list)
    ELSE wpos[w] = 0
OneWalkPerFile == \A v, w \in Writers :
    wpc[v] = "lines" /\ wpc[w] = "lines" /\ warg[v] = warg[w]
    /\ warg[v] \notin shared => v = w
WhoIsInside ==
    /\ stage \notin {"run", "unregistered"} => \A w \in Writers : wpc[w] = "idle"
    /\ stage \notin {"probed", "run"} /\ ~overtaken => \A c \in Cpus : hpc[c] = "out"

IInv == /\ TypeOK /\ TaskIsPid /\ OwnerInside
        /\ InsertIsNew /\ ListIsKeyed /\ EventsInLoop
        /\ WalkInList /\ OneWalkPerFile /\ FileFollowsList
        /\ WhoIsInside /\ UnloadIsSafe

-----------------------------------------------------------------------------
(* The mutex, the tasks of the handlers, and unloading.                    *)

LEMMA OwnerSteps == IInv /\ [Next]_vars => TaskIsPid' /\ OwnerInside'
<1> SUFFICES ASSUME IInv, [Next]_vars PROVE TaskIsPid' /\ OwnerInside'
  OBVIOUS
<1> USE DEF TaskIsPid, OwnerInside, Inside, IInv, TypeOK, Goto
<1>1. CASE UNCHANGED <<hpc, task, mutex>>
  BY <1>1
<1>2. ASSUME NEW c \in Cpus, ProbeStep(c)
      PROVE  TaskIsPid' /\ OwnerInside'
  <2>1. CASE LockProbe(c)
    BY <2>1 DEF LockProbe
  <2>2. CASE Compare(c)
    BY <2>2 DEF Compare
  <2>3. CASE CreateEvent(c)
    BY <2>3 DEF CreateEvent
  <2>4. CASE ReadEvent(c)
    BY <2>4 DEF ReadEvent
  <2>5. CASE SearchList(c)
    BY <2>5 DEF SearchList
  <2>6. CASE InsertEntry(c)
    BY <2>6 DEF InsertEntry
  <2>7. CASE UnlockProbe(c)
    BY <2>7 DEF UnlockProbe
  <2> QED BY <1>2, <2>1, <2>2, <2>3, <2>4, <2>5, <2>6, <2>7 DEF ProbeStep
<1>3. ASSUME NEW c \in Cpus, NEW p \in Pids, NEW k \in Keys, Hit(c, p, k)
      PROVE  TaskIsPid' /\ OwnerInside'
  BY <1>3 DEF Hit
<1>4. CASE \E w \in Writers : \/ \E p \in Pids : StartPid(w, p)
                              \/ StopPid(w) \/ WriterStep(w)
  BY <1>1, <1>4 DEF StartPid, StopPid, WriterStep, AssignTarget, WriteLine, probeVars
<1>5. CASE \/ RegisterKprobe \/ CreateEntry \/ UnregisterKprobe \/ RemoveEntry
           \/ FreeList \/ RunFreedText \/ UNCHANGED vars
  BY <1>1, <1>5 DEF RegisterKprobe, CreateEntry, UnregisterKprobe, RemoveEntry,
                    FreeList, RunFreedText, vars, probeVars
<1> QED BY <1>2, <1>3, <1>4, <1>5 DEF Next

LEMMA InsideSteps == IInv /\ [Next]_vars => WhoIsInside' /\ UnloadIsSafe'
<1> SUFFICES ASSUME IInv, [Next]_vars PROVE WhoIsInside' /\ UnloadIsSafe'
  OBVIOUS
<1> USE DEF WhoIsInside, UnloadIsSafe, IInv, TypeOK
<1>1. CASE UNCHANGED <<stage, hpc, wpc, overtaken, fault>>
  BY <1>1
<1>2. ASSUME NEW c \in Cpus, fault = "none", ProbeStep(c)
      PROVE  WhoIsInside' /\ UnloadIsSafe'
  <2> DEFINE Ok == /\ UNCHANGED <<stage, wpc, overtaken>> /\ fault' # "freed_text"
                   /\ hpc[c] # "out" /\ \A d \in Cpus \ {c} : hpc'[d] = hpc[d]
  <2>1. LockProbe(c) => Ok
    BY <1>2 DEF LockProbe, Goto, history, writerVars
  <2>2. Compare(c) => Ok
    BY <1>2 DEF Compare, Goto, history, writerVars
  <2>3. CreateEvent(c) => Ok
    BY <1>2 DEF CreateEvent, Goto, history, writerVars
  <2>4. ReadEvent(c) => Ok
    BY <1>2 DEF ReadEvent, Goto, history, writerVars
  <2>5. SearchList(c) => Ok
    BY <1>2 DEF SearchList, Goto, history, writerVars
  <2>6. InsertEntry(c) => Ok
    BY <1>2 DEF InsertEntry, Goto, history, writerVars
  <2>7. UnlockProbe(c) => Ok
    BY <1>2 DEF UnlockProbe, Goto, history, writerVars
  <2>8. Ok
    BY <1>2, <2>1, <2>2, <2>3, <2>4, <2>5, <2>6, <2>7 DEF ProbeStep
  <2> QED BY <2>8
<1>3. ASSUME NEW c \in Cpus, NEW p \in Pids, NEW k \in Keys, Hit(c, p, k)
      PROVE  WhoIsInside' /\ UnloadIsSafe'
  BY <1>3 DEF Hit, Goto, history, writerVars
<1>4. CASE \E w \in Writers : \/ \E p \in Pids : StartPid(w, p)
                              \/ StopPid(w) \/ WriterStep(w)
  BY <1>4 DEF StartPid, StopPid, WriterStep, AssignTarget, WriteLine, WGoto,
              probeVars, history
<1>5. CASE fault = "none" /\ (RegisterKprobe \/ CreateEntry \/ UnregisterKprobe)
  <2>1. UNCHANGED <<hpc, wpc, fault>> /\ fault = "none"
    BY <1>5 DEF RegisterKprobe, CreateEntry, UnregisterKprobe, probeVars, writerVars
  <2>2. NoHandler /\ Sleepers = {} => \A c \in Cpus : hpc[c] = "out"
    BY DEF NoHandler, Sleepers
  <2>3. CASE RegisterKprobe
    BY <2>1, <2>3 DEF RegisterKprobe, history
  <2>4. CASE CreateEntry
    <3>1. \/ stage' = "run" /\ stage = "probed"
          \/ NoHandler /\ (overtaken' \/ Sleepers = {})
      BY <2>4, Zenon DEF CreateEntry
    <3>2. stage = "probed"
      BY <2>4 DEF CreateEntry
    <3> QED BY <2>1, <2>2, <3>1, <3>2
  <2>5. CASE UnregisterKprobe
    <3>1. NoHandler /\ (overtaken' \/ Sleepers = {})
      BY <2>5, Zenon DEF UnregisterKprobe
    <3>2. stage' = "unregistered"
      BY <2>5 DEF UnregisterKprobe
    <3> QED BY <2>1, <2>2, <3>1, <3>2
  <2> QED BY <1>5, <2>3, <2>4, <2>5
<1>6. CASE RemoveEntry \/ FreeList
  BY <1>6 DEF RemoveEntry, FreeList, probeVars, writerVars, history
<1>7. CASE RunFreedText
  BY <1>7 DEF RunFreedText, probeVars, writerVars, history
<1>8. CASE UNCHANGED vars
  BY <1>1, <1>8 DEF vars, probeVars, writerVars, history
<1> QED BY <1>2, <1>3, <1>4, <1>5, <1>6, <1>7, <1>8 DEF Next

-----------------------------------------------------------------------------
(* The list and the events of the handlers.                                *)

LEMMA AtHead ==
    ASSUME counter_list \in Seq(Entry), NEW e \in Entry,
           counter_list' = <<e>> \o counter_list
    PROVE  /\ counter_list' \in Seq(Entry)
           /\ Len(counter_list') = Len(counter_list) + 1
           /\ counter_list'[1] = e
           /\ \A i \in 1..Len(counter_list) : counter_list'[i + 1] = counter_list[i]
           /\ \A i \in 2..Len(counter_list') : counter_list'[i] = counter_list[i - 1]
<1>1. <<e>> \in Seq(Entry) /\ Len(<<e>>) = 1 /\ <<e>>[1] = e
  OBVIOUS
<1> QED BY <1>1, ConcatProperties

(* Adding to an entry leaves the keys and the other sums.                  *)
LEMMA InEntry ==
    ASSUME counter_list \in Seq(Entry), NEW j \in 1..Len(counter_list),
           NEW p \in Pids,
           counter_list' = [counter_list EXCEPT ![j].of = @ \union {p}]
    PROVE  /\ counter_list' \in Seq(Entry) /\ Len(counter_list') = Len(counter_list)
           /\ \A i \in 1..Len(counter_list) : counter_list'[i].pc = counter_list[i].pc
           /\ \A i \in 1..Len(counter_list) : counter_list'[i].of =
                 IF i = j THEN counter_list[i].of \union {p} ELSE counter_list[i].of
<1> DEFINE e == [counter_list[j] EXCEPT !.of = counter_list[j].of \union {p}]
           next == [counter_list EXCEPT ![j] = e]
<1>1. counter_list[j] \in Entry
  BY ElementOfSeq
<1>2. /\ e \in Entry /\ e.pc = counter_list[j].pc
      /\ e.of = counter_list[j].of \union {p}
  BY <1>1 DEF Entry
<1>3. counter_list' = next
  OBVIOUS
<1> HIDE DEF e
<1>4. /\ next \in Seq(Entry) /\ Len(next) = Len(counter_list)
      /\ \A i \in 1..Len(counter_list) :
            next[i] = IF i = j THEN e ELSE counter_list[i]
  BY <1>2, ExceptSeq
<1> HIDE DEF next
<1> QED BY <1>2, <1>3, <1>4

LEMMA ListSteps == IInv /\ [Next]_vars => InsertIsNew' /\ ListIsKeyed'
<1> SUFFICES ASSUME IInv, [Next]_vars PROVE InsertIsNew' /\ ListIsKeyed'
  OBVIOUS
<1>t. /\ counter_list \in Seq(Entry) /\ hpc \in [Cpus -> {"out", "lock", "sleep",
          "compare", "create", "read", "search", "insert", "unlock"}]
      /\ key \in [Cpus -> Keys] /\ InsertIsNew /\ ListIsKeyed
      /\ OwnerInside /\ TaskIsPid
  BY DEF IInv, TypeOK, Entry
<1> USE DEF InsertIsNew, ListIsKeyed
<1>1. CASE UNCHANGED <<hpc, key, counter_list>>
  BY <1>t, <1>1
<1>2. ASSUME NEW c \in Cpus, ProbeStep(c)
      PROVE  InsertIsNew' /\ ListIsKeyed'
  <2>1. CASE LockProbe(c) \/ Compare(c) \/ CreateEvent(c) \/ ReadEvent(c) \/ UnlockProbe(c)
    <3>1. /\ counter_list' = counter_list
          /\ \A d \in Cpus : hpc'[d] = "insert" => hpc[d] = "insert" /\ key'[d] = key[d]
      BY <1>t, <2>1 DEF LockProbe, Compare, CreateEvent, ReadEvent, UnlockProbe, Goto
    <3> QED BY <1>t, <3>1
  <2>2. CASE SearchList(c)
    <3> DEFINE At == {i \in 1..Len(counter_list) : counter_list[i].pc = key[c]}
    <3>1. /\ hpc[c] = "search" /\ key' = key
          /\ hpc' \in {[hpc EXCEPT ![c] = "insert"], [hpc EXCEPT ![c] = "unlock"]}
      BY <2>2 DEF SearchList, Goto
    <3>2. \A d \in Cpus : hpc[d] # "insert"
      BY <1>t, <3>1 DEF OwnerInside, Inside
    <3>3. CASE At = {}
      <4>1. counter_list' = counter_list
        BY <2>2, <3>3 DEF SearchList
      <4> QED BY <1>t, <3>1, <3>2, <3>3, <4>1
    <3>4. CASE At # {}
      <4>1. hpc' = [hpc EXCEPT ![c] = "unlock"]
        BY <2>2, <3>4 DEF SearchList, Goto
      <4>2. PICK j \in 1..Len(counter_list) :
               counter_list' = [counter_list EXCEPT ![j].of = @ \union {task[c]}]
        BY <2>2, <3>4 DEF SearchList
      <4>3. task[c] \in Pids
        BY <1>t, <3>1 DEF TaskIsPid
      <4>4. /\ Len(counter_list') = Len(counter_list)
            /\ \A i \in 1..Len(counter_list) : counter_list'[i].pc = counter_list[i].pc
        BY <1>t, <4>2, <4>3, InEntry
      <4> QED BY <1>t, <3>2, <4>1, <4>4
    <3> QED BY <3>3, <3>4
  <2>3. CASE InsertEntry(c)
    <3>1. CASE UNCHANGED <<hpc, counter_list>>
      BY <1>t, <2>3, <3>1 DEF InsertEntry
    <3>2. CASE hpc' # hpc \/ counter_list' # counter_list
      <4>1. /\ counter_list' = <<[pc |-> key[c], of |-> {task[c]}]>> \o counter_list
            /\ hpc[c] = "insert" /\ hpc' = [hpc EXCEPT ![c] = "unlock"] /\ key' = key
        BY <2>3, <3>2 DEF InsertEntry, Goto
      <4> DEFINE e == [pc |-> key[c], of |-> {task[c]}]
      <4>2. e \in Entry /\ e.pc = key[c]
        BY <1>t, <4>1 DEF TaskIsPid, Entry
      <4>3. \A d \in Cpus : hpc'[d] # "insert"
        BY <1>t, <4>1 DEF OwnerInside, Inside
      <4>4. \A i \in 1..Len(counter_list) : counter_list[i].pc # e.pc
        BY <1>t, <4>1, <4>2
      <4> HIDE DEF e
      <4>5. /\ Len(counter_list') = Len(counter_list) + 1 /\ counter_list'[1] = e
            /\ \A i \in 2..Len(counter_list') : counter_list'[i] = counter_list[i - 1]
        BY <1>t, <4>1, <4>2, AtHead DEF e
      <4>6. ListIsKeyed'
        <5> SUFFICES ASSUME NEW i \in 1..Len(counter_list'), NEW j \in 1..Len(counter_list'),
                            counter_list'[i].pc = counter_list'[j].pc
                     PROVE  i = j
          OBVIOUS
        <5>1. CASE i = 1 /\ j # 1
          BY <1>t, <4>4, <4>5, <5>1
        <5>2. CASE i # 1 /\ j = 1
          BY <1>t, <4>4, <4>5, <5>2
        <5>3. CASE i # 1 /\ j # 1
          BY <1>t, <4>5, <5>3
        <5> QED BY <5>1, <5>2, <5>3
      <4> QED BY <4>3, <4>6
    <3> QED BY <3>1, <3>2
  <2> QED BY <1>2, <2>1, <2>2, <2>3 DEF ProbeStep
<1>3. ASSUME NEW c \in Cpus, NEW p \in Pids, NEW k \in Keys, Hit(c, p, k)
      PROVE  InsertIsNew' /\ ListIsKeyed'
  <2>1. /\ counter_list' = counter_list
        /\ \A d \in Cpus : hpc'[d] = "insert" => hpc[d] = "insert" /\ key'[d] = key[d]
    BY <1>t, <1>3 DEF Hit, Goto
  <2> QED BY <1>t, <2>1
<1>4. CASE FreeList
  BY <1>4 DEF FreeList
<1>5. CASE \E w \in Writers : \/ \E p \in Pids : StartPid(w, p)
                              \/ StopPid(w) \/ WriterStep(w)
  BY <1>1, <1>5 DEF StartPid, StopPid, WriterStep, AssignTarget, WriteLine, probeVars
<1>6. CASE \/ RegisterKprobe \/ CreateEntry \/ UnregisterKprobe \/ RemoveEntry
           \/ RunFreedText \/ UNCHANGED vars
  BY <1>1, <1>6 DEF RegisterKprobe, CreateEntry, UnregisterKprobe, RemoveEntry,
                    RunFreedText, vars, probeVars
<1> QED BY <1>2, <1>3, <1>4, <1>5, <1>6 DEF Next

LEMMA EventSteps == IInv /\ [Next]_vars => EventsInLoop'
<1> SUFFICES ASSUME IInv, [Next]_vars PROVE EventsInLoop'
  OBVIOUS
<1>t. /\ hpc \in [Cpus -> {"out", "lock", "sleep", "compare", "create", "read",
                          "search", "insert", "unlock"}]
      /\ index \in [Cpus -> Indices] /\ events \subseteq Cpus \X Indices
      /\ EventsInLoop
  BY DEF IInv, TypeOK
<1> USE DEF EventsInLoop, Indices
<1>1. CASE UNCHANGED <<hpc, index, events, failed>>
  BY <1>t, <1>1
<1>2. ASSUME NEW c \in Cpus, ProbeStep(c)
      PROVE  EventsInLoop'
  <2>1. CASE LockProbe(c) \/ Compare(c) \/ SearchList(c) \/ InsertEntry(c) \/ UnlockProbe(c)
    <3>1. /\ UNCHANGED <<events, index, failed>> /\ hpc[c] \notin {"create", "read"}
          /\ \A d \in Cpus \ {c} : hpc'[d] = hpc[d]
      BY <1>t, <2>1 DEF LockProbe, Compare, SearchList, InsertEntry, UnlockProbe,
                        Goto, history
    <3> QED BY <1>t, <3>1
  <2>2. CASE CreateEvent(c)
    <3> SUFFICES ASSUME ~failed' PROVE EventsInLoop'
      OBVIOUS
    <3>1. /\ hpc[c] = "create" /\ ~failed
          /\ events' = events \union {<<c, index[c]>>}
          /\ IF index[c] < NumEvents
             THEN index' = [index EXCEPT ![c] = @ + 1] /\ UNCHANGED hpc
             ELSE index' = [index EXCEPT ![c] = 1] /\ hpc' = [hpc EXCEPT ![c] = "read"]
      BY <2>2 DEF CreateEvent, Goto
    <3> QED BY <1>t, <3>1
  <2>3. CASE ReadEvent(c)
    BY <1>t, <2>3 DEF ReadEvent, Goto, history
  <2> QED BY <1>2, <2>1, <2>2, <2>3 DEF ProbeStep
<1>3. ASSUME NEW c \in Cpus, NEW p \in Pids, NEW k \in Keys, Hit(c, p, k)
      PROVE  EventsInLoop'
  <2>1. /\ UNCHANGED <<events, index, failed>> /\ hpc[c] \notin {"create", "read"}
        /\ \A d \in Cpus \ {c} : hpc'[d] = hpc[d]
    BY <1>t, <1>3 DEF Hit, Goto, history
  <2> QED BY <1>t, <2>1
<1>4. CASE \E w \in Writers : \/ \E p \in Pids : StartPid(w, p)
                              \/ StopPid(w) \/ WriterStep(w)
  BY <1>1, <1>4 DEF StartPid, StopPid, WriterStep, AssignTarget, WriteLine,
                    probeVars, history
<1>5. CASE \/ RegisterKprobe \/ CreateEntry \/ UnregisterKprobe \/ RemoveEntry
           \/ FreeList \/ RunFreedText \/ UNCHANGED vars
  BY <1>1, <1>5 DEF RegisterKprobe, CreateEntry, UnregisterKprobe, RemoveEntry,
                    FreeList, RunFreedText, vars, probeVars, history
<1> QED BY <1>2, <1>3, <1>4, <1>5 DEF Next

-----------------------------------------------------------------------------
(* The files.                                                              *)

First(w) == Len(counter_list) - wleft[w] - wpos[w]
Passed(w) == [i \in 1..wpos[w] |-> counter_list[First(w) + i].pc]
FilesInv == WalkInList /\ OneWalkPerFile /\ FileFollowsList

LEMMA WalkTypes ==
    IInv => /\ wpc \in [Writers -> {"idle", "set", "clear", "lines"}]
            /\ warg \in [Writers -> Targets] /\ wleft \in [Writers -> Nat]
            /\ wpos \in [Writers -> Nat] /\ target_pid \in Targets
            /\ files \in [Targets -> Seq(Keys \union {Hole})]
            /\ counter_list \in Seq(Entry) /\ Len(counter_list) \in Nat
            /\ WalkInList /\ OneWalkPerFile /\ FileFollowsList
  BY LenProperties DEF IInv, TypeOK, Entry

(* Whatever a handler does, old entries keep their keys and their distance *)
(* from the end.                                                           *)
LEMMA ListGrows ==
    ASSUME IInv, NEW c \in Cpus, ProbeStep(c)
    PROVE  \E d \in {0, 1} :
              /\ counter_list' \in Seq(Entry)
              /\ Len(counter_list') = Len(counter_list) + d
              /\ \A i \in 1..Len(counter_list) :
                    counter_list'[i + d].pc = counter_list[i].pc
<1>t. counter_list \in Seq(Entry) /\ Len(counter_list) \in Nat /\ TaskIsPid
      /\ key \in [Cpus -> Keys]
  BY WalkTypes DEF IInv, TypeOK
<1>1. CASE counter_list' = counter_list
  BY <1>t, <1>1
<1>2. CASE SearchList(c) /\ counter_list' # counter_list
  <2>1. hpc[c] = "search"
    BY <1>2 DEF SearchList
  <2>2. PICK j \in 1..Len(counter_list) :
           counter_list' = [counter_list EXCEPT ![j].of = @ \union {task[c]}]
    BY <1>2 DEF SearchList
  <2>3. task[c] \in Pids
    BY <1>t, <2>1 DEF TaskIsPid
  <2>4. /\ counter_list' \in Seq(Entry) /\ Len(counter_list') = Len(counter_list)
        /\ \A i \in 1..Len(counter_list) : counter_list'[i].pc = counter_list[i].pc
    BY <1>t, <2>2, <2>3, InEntry
  <2> QED BY <1>t, <2>4
<1>3. CASE InsertEntry(c) /\ counter_list' # counter_list
  <2> DEFINE e == [pc |-> key[c], of |-> {task[c]}]
  <2>1. counter_list' = <<e>> \o counter_list /\ hpc[c] = "insert"
    BY <1>3 DEF InsertEntry
  <2>2. e \in Entry
    BY <1>t, <2>1 DEF TaskIsPid, Entry
  <2> HIDE DEF e
  <2> QED BY <1>t, <2>1, <2>2, AtHead
<1> QED BY <1>1, <1>2, <1>3
        DEF ProbeStep, LockProbe, Compare, CreateEvent, ReadEvent, UnlockProbe

LEMMA HandlerKeepsFiles ==
    ASSUME IInv, NEW c \in Cpus, ProbeStep(c)
    PROVE  FilesInv'
<1>t. UNCHANGED <<wpc, warg, wleft, wpos, files, shared>>
  BY DEF ProbeStep, LockProbe, Compare, CreateEvent, ReadEvent, SearchList,
         InsertEntry, UnlockProbe, writerVars, history
<1>1. PICK d \in {0, 1} : /\ Len(counter_list') = Len(counter_list) + d
                          /\ \A i \in 1..Len(counter_list) :
                                counter_list'[i + d].pc = counter_list[i].pc
  BY ListGrows
<1>2. WalkInList' /\ OneWalkPerFile'
  BY <1>t, <1>1, WalkTypes DEF WalkInList, OneWalkPerFile
<1>3. ASSUME NEW w \in Writers, wpc[w] = "lines"
      PROVE  Passed(w)' = Passed(w)
  <2>1. wleft[w] \in Nat /\ wpos[w] \in Nat /\ Len(counter_list) \in Nat
        /\ wleft[w] + wpos[w] <= Len(counter_list)
    BY <1>3, WalkTypes DEF WalkInList
  <2>2. First(w)' = First(w) + d /\ First(w) \in Nat
        /\ First(w) + wpos[w] <= Len(counter_list)
    BY <1>t, <1>1, <2>1 DEF First
  <2>3. \A i \in 1..wpos[w] :
           counter_list'[First(w)' + i].pc = counter_list[First(w) + i].pc
    <3> SUFFICES ASSUME NEW i \in 1..wpos[w]
                 PROVE  counter_list'[First(w)' + i].pc = counter_list[First(w) + i].pc
      OBVIOUS
    <3>1. First(w) + i \in 1..Len(counter_list) /\ First(w)' + i = First(w) + i + d
      BY <2>1, <2>2
    <3> QED BY <1>1, <3>1
  <2> QED BY <1>t, <2>3 DEF Passed
<1> QED BY <1>t, <1>2, <1>3, WalkTypes DEF FilesInv, FileFollowsList, Passed, First

LEMMA StopStartsWalk ==
    ASSUME IInv, NEW w \in Writers, StopPid(w)
    PROVE  FilesInv'
<1>t. /\ UNCHANGED <<counter_list, wpos>> /\ wpc[w] = "idle"
      /\ \A v \in Writers \ {w} : /\ wpc'[v] = wpc[v] /\ warg'[v] = warg[v]
                                   /\ wleft'[v] = wleft[v]
  BY WalkTypes DEF StopPid, WGoto
<1>0. wpos[w] = 0
  BY <1>t, WalkTypes DEF WalkInList
<1>1. CASE wpc' = [wpc EXCEPT ![w] = "clear"]
  <2>1. UNCHANGED <<warg, files, wleft, shared>> /\ wpc'[w] = "clear"
    BY <1>1, WalkTypes DEF StopPid, WGoto
  <2>2. \A v \in Writers : wpc'[v] = "lines" => wpc[v] = "lines"
    BY <1>t, <2>1
  <2>3. WalkInList' /\ OneWalkPerFile'
    BY <1>t, <1>0, <2>1, <2>2, WalkTypes DEF WalkInList, OneWalkPerFile
  <2>4. FileFollowsList'
    BY <1>t, <2>1, <2>2, WalkTypes DEF FileFollowsList
  <2> QED BY <2>3, <2>4 DEF FilesInv
<1>2. CASE wpc' = [wpc EXCEPT ![w] = "lines"]
  <2>1. /\ wpc'[w] = "lines" /\ warg'[w] = target_pid
        /\ files' = [files EXCEPT ![target_pid] = <<>>]
        /\ wleft'[w] = Len(counter_list)
        /\ shared' = IF target_pid \in BeingWritten
                     THEN shared \union {target_pid}
                     ELSE shared \ {target_pid}
    BY <1>2, WalkTypes DEF StopPid, WGoto
  <2>2. ASSUME NEW v \in Writers \ {w}, wpc'[v] = "lines", warg'[v] \notin shared'
        PROVE  warg[v] # target_pid /\ warg[v] \notin shared /\ wpc[v] = "lines"
    BY <1>t, <2>1, <2>2 DEF BeingWritten
  <2>3. WalkInList' /\ OneWalkPerFile'
    <3>1. WalkInList'
      BY <1>t, <1>0, <2>1, WalkTypes DEF WalkInList
    <3>2. \A v \in Writers \ {w} : wpc'[v] = "lines" /\ warg'[v] \notin shared'
             => warg'[v] # warg'[w]
      BY <1>t, <2>1, <2>2
    <3>3. \A u, v \in Writers \ {w} :
             wpc'[u] = "lines" /\ wpc'[v] = "lines" /\ warg'[u] = warg'[v]
             /\ warg'[u] \notin shared' => u = v
      BY <1>t, <2>2, WalkTypes DEF OneWalkPerFile
    <3> QED BY <3>1, <3>2, <3>3 DEF OneWalkPerFile
  <2>4. files'[target_pid] = <<>>
    BY <2>1, WalkTypes
  <2>5. Passed(w)' = <<>>
    BY <1>t, <1>0 DEF Passed
  <2>6. ASSUME NEW v \in Writers \ {w}, wpc'[v] = "lines", warg'[v] \notin shared'
        PROVE  files'[warg'[v]] = Passed(v)'
    <3>1. files[warg[v]] = Passed(v)
      BY <2>2, <2>6, WalkTypes DEF FileFollowsList, Passed, First
    <3>2. Passed(v)' = Passed(v)
      BY <1>t DEF Passed, First
    <3> QED BY <1>t, <2>1, <2>2, <2>6, <3>1, <3>2, WalkTypes
  <2> QED BY <1>t, <2>1, <2>3, <2>4, <2>5, <2>6 DEF FilesInv, FileFollowsList, Passed, First
<1> QED BY <1>1, <1>2 DEF StopPid, WGoto

LEMMA LineContinuesWalk ==
    ASSUME IInv, NEW w \in Writers, WriteLine(w)
    PROVE  FilesInv'
<1>t. /\ UNCHANGED <<counter_list, shared>> /\ wpc[w] = "lines"
      /\ \A v \in Writers \ {w} : /\ wpc'[v] = wpc[v] /\ warg'[v] = warg[v]
                                   /\ wleft'[v] = wleft[v] /\ wpos'[v] = wpos[v]
  BY WalkTypes DEF WriteLine, WGoto, history
<1>0. /\ wleft[w] \in Nat /\ wpos[w] \in Nat /\ Len(counter_list) \in Nat
      /\ wleft[w] + wpos[w] <= Len(counter_list)
  BY <1>t, WalkTypes DEF WalkInList
<1>1. ASSUME NEW v \in Writers \ {w} PROVE Passed(v)' = Passed(v)
  BY <1>t DEF Passed, First
<1>2. CASE wleft[w] > 0
  <2>1. /\ files' = [files EXCEPT ![warg[w]] = PutLine(@, wpos[w] + 1, Reached(w).pc)]
        /\ wpos'[w] = wpos[w] + 1 /\ wleft'[w] = wleft[w] - 1
        /\ UNCHANGED <<wpc, warg>>
    BY <1>2, WalkTypes DEF WriteLine
  <2>2. WalkInList' /\ OneWalkPerFile'
    BY <1>t, <1>0, <2>1, WalkTypes DEF WalkInList, OneWalkPerFile
  <2>3. ASSUME NEW v \in Writers \ {w}, wpc'[v] = "lines", warg'[v] \notin shared'
        PROVE  files'[warg'[v]] = Passed(v)'
    <3>1. files[warg[v]] = Passed(v)
      BY <1>t, <2>3, WalkTypes DEF FileFollowsList, Passed, First
    <3>2. warg[v] # warg[w]
      BY <1>t, <2>3, WalkTypes DEF OneWalkPerFile
    <3> QED BY <1>t, <1>1, <2>1, <2>3, <3>1, <3>2, WalkTypes
  <2>4. ASSUME warg[w] \notin shared
        PROVE  files'[warg'[w]] = Passed(w)'
    <3> DEFINE file == files[warg[w]]
               n == wpos[w]
    <3>1. file = Passed(w) /\ file \in Seq(Keys \union {Hole})
      BY <1>t, <2>4, WalkTypes DEF FileFollowsList, Passed, First
    <3>2. Len(file) = n
      <4>1. DOMAIN file = 1..n
        BY <3>1 DEF Passed
      <4>2. Len(file) \in Nat /\ DOMAIN file = 1..Len(file)
        BY <3>1, LenProperties
      <4> QED BY <1>0, <4>1, <4>2
    <3>3. files'[warg'[w]] = PutLine(file, n + 1, Reached(w).pc)
      BY <2>1, WalkTypes
    <3>4. PutLine(file, n + 1, Reached(w).pc) =
             [i \in 1..(n + 1) |-> IF i = n + 1 THEN Reached(w).pc ELSE file[i]]
      <4> HIDE DEF file
      <4> QED BY <1>0, <3>2 DEF PutLine
    <3>5. Passed(w)' = [i \in 1..(n + 1) |-> counter_list[First(w) + i].pc]
      BY <1>t, <1>0, <2>1 DEF Passed, First
    <3>6. Reached(w) = counter_list[First(w) + (n + 1)]
      BY <1>0 DEF Reached, First
    <3>7. \A i \in 1..n : file[i] = counter_list[First(w) + i].pc
      BY <3>1 DEF Passed
    <3> HIDE DEF file
    <3>8. \A i \in 1..(n + 1) : (IF i = n + 1 THEN Reached(w).pc ELSE file[i])
                               = counter_list[First(w) + i].pc
      BY <1>0, <3>6, <3>7
    <3> QED BY <3>3, <3>4, <3>5, <3>8
  <2> QED BY <1>t, <2>1, <2>2, <2>3, <2>4 DEF FilesInv, FileFollowsList, Passed, First
<1>3. CASE ~(wleft[w] > 0)
  <2>1. /\ UNCHANGED <<files, wleft>> /\ wpc'[w] = "clear" /\ wpos'[w] = 0
    BY <1>3, WalkTypes DEF WriteLine, WGoto
  <2>2. \A v \in Writers : wpc'[v] = "lines" => v # w /\ wpc[v] = "lines"
    BY <1>t, <2>1
  <2>3. WalkInList' /\ OneWalkPerFile'
    BY <1>t, <2>1, <2>2, WalkTypes DEF WalkInList, OneWalkPerFile
  <2>4. ASSUME NEW v \in Writers, wpc'[v] = "lines", warg'[v] \notin shared'
        PROVE  files'[warg'[v]] = Passed(v)'
    <3>1. v # w /\ wpc[v] = "lines" /\ warg'[v] = warg[v] /\ warg[v] \notin shared
      BY <1>t, <2>2, <2>4
    <3>2. files[warg[v]] = Passed(v)
      BY <3>1, WalkTypes DEF FileFollowsList, Passed, First
    <3> QED BY <1>1, <2>1, <3>1, <3>2
  <2> QED BY <2>3, <2>4 DEF FilesInv, FileFollowsList, Passed, First
<1> QED BY <1>2, <1>3

LEMMA FileSteps == IInv /\ [Next]_vars => FilesInv'
<1> SUFFICES ASSUME IInv, [Next]_vars PROVE FilesInv'
  OBVIOUS
<1>1. ASSUME UNCHANGED <<wpc, warg, wleft, wpos, files, shared, counter_list>>
      PROVE  FilesInv'
  BY <1>1, WalkTypes DEF FilesInv, WalkInList, OneWalkPerFile, FileFollowsList
<1>2. ASSUME NEW w \in Writers,
             AssignTarget(w) \/ \E p \in Pids : StartPid(w, p)
      PROVE  FilesInv'
  <2>1. /\ UNCHANGED <<wleft, wpos, files, shared, counter_list>>
        /\ wpc[w] # "lines" /\ wpc'[w] # "lines"
        /\ \A v \in Writers \ {w} : wpc'[v] = wpc[v] /\ warg'[v] = warg[v]
    BY <1>2, WalkTypes DEF AssignTarget, StartPid, WGoto, history
  <2>2. WalkInList' /\ OneWalkPerFile'
    BY <2>1, WalkTypes DEF WalkInList, OneWalkPerFile
  <2>3. ASSUME NEW v \in Writers, wpc'[v] = "lines", warg'[v] \notin shared'
        PROVE  files'[warg'[v]] = Passed(v)'
    <3>1. wpc[v] = "lines" /\ warg'[v] = warg[v] /\ warg[v] \notin shared
      BY <2>1, <2>3
    <3>2. files[warg[v]] = Passed(v)
      BY <3>1, WalkTypes DEF FileFollowsList, Passed, First
    <3>3. Passed(v)' = Passed(v)
      BY <2>1 DEF Passed, First
    <3> QED BY <2>1, <3>1, <3>2, <3>3
  <2> QED BY <2>2, <2>3 DEF FilesInv, FileFollowsList, Passed, First
<1>3. CASE FreeList
  <2>1. \A w \in Writers : wpc[w] = "idle" /\ wpc'[w] = "idle" /\ wpos'[w] = wpos[w]
    BY <1>3 DEF FreeList, IInv, WhoIsInside, writerVars
  <2> QED BY <2>1, WalkTypes DEF FilesInv, WalkInList, OneWalkPerFile, FileFollowsList
<1>4. CASE \/ RegisterKprobe \/ CreateEntry \/ UnregisterKprobe \/ RemoveEntry
           \/ RunFreedText \/ UNCHANGED vars
  BY <1>1, <1>4 DEF RegisterKprobe, CreateEntry, UnregisterKprobe, RemoveEntry,
                    RunFreedText, vars, probeVars, writerVars, history
<1>5. CASE \E c \in Cpus, p \in Pids, k \in Keys : Hit(c, p, k)
  BY <1>1, <1>5 DEF Hit, writerVars, history
<1>6. CASE \E w \in Writers : StopPid(w) \/ WriteLine(w)
  BY <1>6, StopStartsWalk, LineContinuesWalk
<1>7. CASE \E c \in Cpus : ProbeStep(c)
  BY <1>7, HandlerKeepsFiles
<1> QED BY <1>2, <1>3, <1>4, <1>5, <1>6, <1>7 DEF Next, WriterStep

-----------------------------------------------------------------------------
(* The types.                                                              *)

LEMMA PutLineType ==
    ASSUME NEW file \in Seq(Keys \union {Hole}), NEW n \in Nat \ {0}, NEW k \in Keys
    PROVE  PutLine(file, n, k) \in Seq(Keys \union {Hole})
<1> DEFINE m == IF n > Len(file) THEN n ELSE Len(file)
           line(i) == IF i = n THEN k ELSE IF i <= Len(file) THEN file[i] ELSE Hole
<1>1. Len(file) \in Nat /\ m \in Nat
  BY LenProperties
<1>2. \A i \in 1..m : line(i) \in Keys \union {Hole}
  BY <1>1, ElementOfSeq
<1>3. PutLine(file, n, k) = [i \in 1..m |-> line(i)]
  BY DEF PutLine
<1>4. PutLine(file, n, k) \in [1..m -> Keys \union {Hole}]
  <2> HIDE DEF m, line
  <2> QED BY <1>2, <1>3
<1> QED BY <1>1, <1>4, SeqDef

HandlerAt == [Cpus -> {"out", "lock", "sleep", "compare", "create", "read",
                       "search", "insert", "unlock"}]

LEMMA ListTyped ==
    ASSUME IInv, NEW c \in Cpus, ProbeStep(c)
    PROVE  counter_list' \in Seq(Entry)
  BY ListGrows

LEMMA TypeSteps == IInv /\ [Next]_vars => TypeOK'
<1> SUFFICES ASSUME IInv, [Next]_vars PROVE TypeOK'
  OBVIOUS
<1> USE DEF TypeOK, Targets, Indices, HandlerAt
<1>t. TypeOK /\ AnyKey \in Keys
  BY DEF IInv, AnyKey
<1>1. CASE UNCHANGED vars
  BY <1>t, <1>1 DEF vars, probeVars, writerVars, history
<1>2. ASSUME NEW c \in Cpus, ProbeStep(c)
      PROVE  TypeOK'
  <2>1. CASE LockProbe(c)
    BY <1>t, <2>1 DEF LockProbe, Goto, writerVars, history
  <2>2. CASE Compare(c)
    BY <1>t, <2>2 DEF Compare, Goto, writerVars, history
  <2>3. CASE CreateEvent(c)
    <3>1. events' \subseteq Cpus \X Indices /\ failed' \in BOOLEAN
      <4>1. events' \subseteq Cpus \X Indices
        BY <1>t, <2>3 DEF CreateEvent
      <4>2. failed' = failed \/ failed' = TRUE
        BY <2>3, Zenon DEF CreateEvent
      <4> QED BY <1>t, <4>1, <4>2
    <3>2. index[c] \in Indices /\ (index[c] < NumEvents => index[c] + 1 \in Indices)
          /\ 1 \in Indices
      BY <1>t
    <3>3. index' \in [Cpus -> Indices]
      <4> HIDE DEF Indices
      <4> QED BY <1>t, <2>3, <3>2 DEF CreateEvent
    <3>4. hpc' \in HandlerAt
      BY <1>t, <2>3 DEF CreateEvent, Goto
    <3>5. UNCHANGED <<stage, mutex, target_pid, task, key, counter_list,
                      writerVars, files, hits, commands, shared, overtaken, fault>>
      BY <2>3 DEF CreateEvent
    <3> QED BY <1>t, <3>1, <3>3, <3>4, <3>5 DEF writerVars
  <2>4. CASE ReadEvent(c)
    <3>1. events' \subseteq Cpus \X Indices
      BY <1>t, <2>4 DEF ReadEvent
    <3>2. index' \in [Cpus -> Indices] /\ hpc' \in HandlerAt
      <4>1. index[c] \in Indices /\ (index[c] < NumEvents => index[c] + 1 \in Indices)
            /\ 1 \in Indices
        BY <1>t
      <4>2. index' \in [Cpus -> Indices]
        <5> HIDE DEF Indices
        <5> QED BY <1>t, <2>4, <4>1 DEF ReadEvent
      <4>3. hpc' \in HandlerAt
        BY <1>t, <2>4 DEF ReadEvent, Goto
      <4> QED BY <4>2, <4>3
    <3>3. UNCHANGED <<stage, mutex, target_pid, task, key, counter_list,
                      writerVars, files, hits, commands, history, fault>>
      BY <2>4 DEF ReadEvent
    <3> QED BY <1>t, <3>1, <3>2, <3>3 DEF writerVars, history
  <2>5. CASE SearchList(c)
    <3>1. counter_list' \in Seq(Entry)
      BY <1>2, ListTyped
    <3>2. hpc' \in HandlerAt
      BY <1>t, <2>5 DEF SearchList, Goto
    <3>3. UNCHANGED <<stage, mutex, target_pid, task, key, index, events,
                      writerVars, files, hits, commands, history, fault>>
      BY <2>5 DEF SearchList
    <3> QED BY <1>t, <3>1, <3>2, <3>3 DEF writerVars, history, Entry
  <2>6. CASE InsertEntry(c)
    <3>1. counter_list' \in Seq(Entry)
      BY <1>2, ListTyped
    <3>2. hpc' \in HandlerAt /\ fault' \in {"none", "null_entry", "freed_text"}
      BY <1>t, <2>6 DEF InsertEntry, Goto
    <3>3. UNCHANGED <<stage, mutex, target_pid, task, key, index, events,
                      writerVars, files, hits, commands, history>>
      BY <2>6 DEF InsertEntry
    <3> QED BY <1>t, <3>1, <3>2, <3>3 DEF writerVars, history, Entry
  <2>7. CASE UnlockProbe(c)
    <3>1. mutex' = Nobody /\ task' \in [Cpus -> Targets] /\ key' \in [Cpus -> Keys]
      BY <1>t, <2>7 DEF UnlockProbe
    <3>2. hpc' \in HandlerAt
      BY <1>t, <2>7 DEF UnlockProbe, Goto
    <3>3. UNCHANGED <<stage, target_pid, index, events, counter_list, writerVars,
                      files, hits, commands, history, fault>>
      BY <2>7 DEF UnlockProbe
    <3> QED BY <1>t, <3>1, <3>2, <3>3 DEF writerVars, history
  <2> QED BY <1>2, <2>1, <2>2, <2>3, <2>4, <2>5, <2>6, <2>7 DEF ProbeStep
<1>3. ASSUME NEW c \in Cpus, NEW p \in Pids, NEW k \in Keys, Hit(c, p, k)
      PROVE  TypeOK'
  BY <1>t, <1>3 DEF Hit, Goto, writerVars, history
<1>4. ASSUME NEW w \in Writers, NEW p \in Pids, StartPid(w, p)
      PROVE  TypeOK'
  BY <1>t, <1>4 DEF StartPid, WGoto, probeVars, history
<1>5. ASSUME NEW w \in Writers, StopPid(w)
      PROVE  TypeOK'
  <2>1. Len(counter_list) \in Nat /\ <<>> \in Seq(Keys \union {Hole})
    BY WalkTypes
  <2>2. /\ warg' \in [Writers -> Targets] /\ wleft' \in [Writers -> Nat]
        /\ wpc' \in [Writers -> {"idle", "set", "clear", "lines"}]
        /\ commands' \in 0..MaxCommands
    <3>1. warg' \in [Writers -> Targets]
      BY <1>5, WalkTypes DEF StopPid
    <3>2. wleft' \in [Writers -> Nat]
      BY <1>5, WalkTypes DEF StopPid
    <3>3. wpc' \in [Writers -> {"idle", "set", "clear", "lines"}]
      BY <1>5, WalkTypes DEF StopPid, WGoto
    <3>4. commands' \in 0..MaxCommands
      BY <1>t, <1>5 DEF StopPid
    <3> QED BY <3>1, <3>2, <3>3, <3>4
  <2>3. files' \in [Targets -> Seq(Keys \union {Hole})]
    BY <1>t, <1>5, <2>1 DEF StopPid
  <2>4. shared' \subseteq Targets
    BY <1>t, <1>5 DEF StopPid
  <2>5. UNCHANGED <<stage, mutex, target_pid, probeVars, events, counter_list,
                    wpos, hits, failed, overtaken, fault>>
    BY <1>5 DEF StopPid
  <2> QED BY <1>t, <2>2, <2>3, <2>4, <2>5 DEF probeVars
<1>6. ASSUME NEW w \in Writers, AssignTarget(w)
      PROVE  TypeOK'
  BY <1>t, <1>6 DEF AssignTarget, WGoto, probeVars, history
<1>7. ASSUME NEW w \in Writers, WriteLine(w)
      PROVE  TypeOK'
  <2>1. files' \in [Targets -> Seq(Keys \union {Hole})]
    <3>1. CASE wleft[w] > 0
      <4>1. /\ wleft[w] \in Nat /\ wpos[w] \in Nat /\ Len(counter_list) \in Nat
            /\ wleft[w] + wpos[w] <= Len(counter_list)
        BY <1>7, WalkTypes DEF WriteLine, WalkInList
      <4>2. Reached(w) \in Entry
        <5>1. Len(counter_list) - wleft[w] + 1 \in 1..Len(counter_list)
          BY <3>1, <4>1
        <5> QED BY <5>1, WalkTypes, ElementOfSeq DEF Reached
      <4>3. PutLine(files[warg[w]], wpos[w] + 1, Reached(w).pc) \in Seq(Keys \union {Hole})
        <5>1. files[warg[w]] \in Seq(Keys \union {Hole}) /\ wpos[w] + 1 \in Nat \ {0}
              /\ Reached(w).pc \in Keys
          BY <4>1, <4>2, WalkTypes DEF Entry
        <5> QED BY <5>1, PutLineType
      <4>4. files' = [files EXCEPT ![warg[w]] =
                         PutLine(files[warg[w]], wpos[w] + 1, Reached(w).pc)]
        BY <1>7, <3>1 DEF WriteLine
      <4> QED BY <4>3, <4>4, WalkTypes
    <3>2. CASE ~(wleft[w] > 0)
      BY <1>7, <3>2, WalkTypes DEF WriteLine
    <3> QED BY <3>1, <3>2
  <2>2. /\ wpos' \in [Writers -> Nat] /\ wleft' \in [Writers -> Nat]
        /\ warg' \in [Writers -> Targets]
        /\ wpc' \in [Writers -> {"idle", "set", "clear", "lines"}]
    <3>1. /\ wpos[w] \in Nat /\ wpos[w] + 1 \in Nat
          /\ wleft[w] > 0 => wleft[w] - 1 \in Nat
      BY WalkTypes
    <3>2. wpos' \in [Writers -> Nat]
      <4>1. CASE wleft[w] > 0
        BY <1>7, <3>1, <4>1, WalkTypes DEF WriteLine
      <4>2. CASE ~(wleft[w] > 0)
        BY <1>7, <4>2, WalkTypes DEF WriteLine
      <4> QED BY <4>1, <4>2
    <3>3. wleft' \in [Writers -> Nat]
      BY <1>7, <3>1, WalkTypes DEF WriteLine
    <3>4. warg' \in [Writers -> Targets]
      BY <1>7, WalkTypes DEF WriteLine
    <3>5. wpc' \in [Writers -> {"idle", "set", "clear", "lines"}]
      BY <1>7, WalkTypes DEF WriteLine, WGoto
    <3> QED BY <3>2, <3>3, <3>4, <3>5
  <2>3. UNCHANGED <<stage, mutex, target_pid, probeVars, events, counter_list,
                    hits, commands, history, fault>>
    BY <1>7 DEF WriteLine
  <2> QED BY <1>t, <2>1, <2>2, <2>3 DEF probeVars, history
<1>8. CASE RegisterKprobe \/ CreateEntry \/ UnregisterKprobe
  BY <1>t, <1>8 DEF RegisterKprobe, CreateEntry, UnregisterKprobe, probeVars,
                    writerVars, history
<1>9. CASE RemoveEntry \/ FreeList \/ RunFreedText
  <2>1. counter_list' \in Seq(Entry)
    <3>1. <<>> \in Seq(Entry)
      OBVIOUS
    <3>2. counter_list' = counter_list \/ counter_list' = <<>>
      BY <1>9 DEF RemoveEntry, FreeList, RunFreedText
    <3> QED BY <3>1, <3>2, WalkTypes
  <2>2. stage' \in {"out", "probed", "run", "unregistered", "removed", "gone"}
        /\ fault' \in {"none", "null_entry", "freed_text"}
    BY <1>t, <1>9 DEF RemoveEntry, FreeList, RunFreedText
  <2>3. UNCHANGED <<mutex, target_pid, probeVars, events, writerVars, files, hits,
                    commands, history>>
    BY <1>9 DEF RemoveEntry, FreeList, RunFreedText
  <2> QED BY <1>t, <2>1, <2>2, <2>3 DEF probeVars, writerVars, history, Entry
<1> QED BY <1>1, <1>2, <1>3, <1>4, <1>5, <1>6, <1>7, <1>8, <1>9 DEF Next, WriterStep

-----------------------------------------------------------------------------
LEMMA IInvInit == Init => IInv
<1> SUFFICES ASSUME Init PROVE IInv
  OBVIOUS
<1> USE DEF Init
<1>1. AnyKey \in Keys
  BY DEF AnyKey
<1>2. TypeOK
  <2>1. /\ hpc \in HandlerAt /\ task \in [Cpus -> Targets] /\ key \in [Cpus -> Keys]
        /\ index \in [Cpus -> Indices] /\ events \subseteq Cpus \X Indices
    BY <1>1 DEF HandlerAt, Targets, Indices
  <2>2. /\ wpc \in [Writers -> {"idle", "set", "clear", "lines"}]
        /\ warg \in [Writers -> Targets] /\ wleft \in [Writers -> Nat]
        /\ wpos \in [Writers -> Nat]
    BY DEF Targets
  <2>3. counter_list \in Seq(Entry)
    OBVIOUS
  <2>4. files \in [Targets -> Seq(Keys \union {Hole})]
    <3>1. <<>> \in Seq(Keys \union {Hole})
      OBVIOUS
    <3> QED BY <3>1
  <2>5. /\ stage = "out" /\ mutex = Nobody /\ target_pid \in Targets
        /\ hits \in 0..MaxHits /\ commands \in 0..MaxCommands
        /\ shared = {} /\ failed = FALSE /\ overtaken = FALSE /\ fault = "none"
    BY DEF Targets
  <2> QED BY <2>1, <2>2, <2>3, <2>4, <2>5 DEF TypeOK, HandlerAt, Entry
<1>3. TaskIsPid /\ OwnerInside /\ InsertIsNew /\ EventsInLoop
  BY DEF TaskIsPid, OwnerInside, Inside, InsertIsNew, EventsInLoop
<1>4. ListIsKeyed
  BY DEF ListIsKeyed
<1>5. WalkInList /\ OneWalkPerFile /\ FileFollowsList
  BY DEF WalkInList, OneWalkPerFile, FileFollowsList
<1>6. WhoIsInside /\ UnloadIsSafe
  BY DEF WhoIsInside, UnloadIsSafe
<1> QED BY <1>2, <1>3, <1>4, <1>5, <1>6 DEF IInv

(* The inductive invariant holds for any CPUs, writers, tasks and keys.    *)
THEOREM InvariantCorrect == Spec => []IInv
<1>1. IInv /\ [Next]_vars => IInv'
  BY OwnerSteps, InsideSteps, ListSteps, EventSteps, FileSteps, TypeSteps
     DEF IInv, FilesInv
<1> QED BY IInvInit, <1>1, PTL DEF Spec

(* Every variable keeps its type.                                          *)
THEOREM TypeCorrect == Spec => []TypeOK
<1>1. IInv => TypeOK
  BY DEF IInv
<1> QED BY <1>1, InvariantCorrect, PTL

(* However many CPUs sample at once, no key is in the list twice: the CPU  *)
(* that searched still owns the mutex when it inserts.                     *)
THEOREM KeyedCorrect == Spec => []ListIsKeyed
<1>1. IInv => ListIsKeyed
  BY DEF IInv
<1> QED BY <1>1, InvariantCorrect, PTL

(* No event outlives its probe hit while events can be created, for any    *)
(* number of events: the loops that create and release them agree.         *)
THEOREM EventsCorrect == Spec => []EventsStayInsideProbe
<1>1. IInv => EventsStayInsideProbe
  BY DEF IInv, EventsInLoop, EventsStayInsideProbe
<1> QED BY <1>1, InvariantCorrect, PTL

(* A file holds what its walk has passed, though the list grows meanwhile, *)
(* for any number of writers and any list.                                 *)
THEOREM FilesCorrect == Spec => []FileFollowsList
<1>1. IInv => FileFollowsList
  BY DEF IInv
<1> QED BY <1>1, InvariantCorrect, PTL

(* Only a handler that slept on the mutex can run freed text.              *)
THEOREM UnloadCorrect == Spec => []UnloadIsSafe
<1>1. IInv => UnloadIsSafe
  BY DEF IInv
<1> QED BY <1>1, InvariantCorrect, PTL

-----------------------------------------------------------------------------
(* The mutex while it is held.                                             *)

(* Whoever holds the mutex is between lock and unlock, until an event      *)
(* cannot be created.                                                      *)
HolderInside == \A c \in Cpus : mutex = c => hpc[c] \in Inside \/ failed

LEMMA HolderSteps == IInv /\ HolderInside /\ [Next]_vars => HolderInside'
<1> SUFFICES ASSUME IInv, HolderInside, [Next]_vars PROVE HolderInside'
  OBVIOUS
<1>t. hpc \in HandlerAt /\ mutex \in Cpus \union {Nobody} /\ OwnerInside
  BY DEF IInv, TypeOK, HandlerAt
<1> USE DEF HolderInside, Inside, HandlerAt
<1>1. CASE UNCHANGED <<hpc, mutex, failed>>
  BY <1>1
<1>2. ASSUME NEW c \in Cpus, ProbeStep(c)
      PROVE  HolderInside'
  <2>1. CASE LockProbe(c)
    BY <1>t, <2>1 DEF LockProbe, Goto, history, OwnerInside
  <2>2. CASE Compare(c)
    BY <1>t, <2>2 DEF Compare, Goto, history
  <2>3. CASE CreateEvent(c)
    <3>1. hpc[c] = "create" /\ mutex' = mutex /\ \A d \in Cpus \ {c} : hpc'[d] = hpc[d]
      BY <1>t, <2>3 DEF CreateEvent, Goto
    <3>2. CASE failed' = TRUE
      BY <3>2
    <3>3. CASE failed' # TRUE
      <4>1. UNCHANGED failed /\ hpc'[c] \in {"create", "read"}
        BY <1>t, <2>3, <3>1, <3>3 DEF CreateEvent, Goto
      <4> QED BY <3>1, <4>1
    <3> QED BY <3>2, <3>3
  <2>4. CASE ReadEvent(c)
    BY <1>t, <2>4 DEF ReadEvent, Goto, history
  <2>5. CASE SearchList(c)
    BY <1>t, <2>5 DEF SearchList, Goto, history
  <2>6. CASE InsertEntry(c)
    BY <1>t, <2>6 DEF InsertEntry, Goto, history
  <2>7. CASE UnlockProbe(c)
    BY <1>t, <2>7 DEF UnlockProbe, Goto, history
  <2> QED BY <1>2, <2>1, <2>2, <2>3, <2>4, <2>5, <2>6, <2>7 DEF ProbeStep
<1>3. ASSUME NEW c \in Cpus, NEW p \in Pids, NEW k \in Keys, Hit(c, p, k)
      PROVE  HolderInside'
  BY <1>t, <1>3 DEF Hit, Goto, history
<1>4. CASE \E w \in Writers : \/ \E p \in Pids : StartPid(w, p)
                              \/ StopPid(w) \/ WriterStep(w)
  BY <1>1, <1>4 DEF StartPid, StopPid, WriterStep, AssignTarget, WriteLine,
                    probeVars, history
<1>5. CASE \/ RegisterKprobe \/ CreateEntry \/ UnregisterKprobe \/ RemoveEntry
           \/ FreeList \/ RunFreedText \/ UNCHANGED vars
  BY <1>1, <1>5 DEF RegisterKprobe, CreateEntry, UnregisterKprobe, RemoveEntry,
                    FreeList, RunFreedText, vars, probeVars, history
<1> QED BY <1>2, <1>3, <1>4, <1>5 DEF Next

(* What a command or a handler waits for is always a handler between lock  *)
(* and unlock, never a mutex that was left behind, as long as events can   *)
(* be created.                                                             *)
THEOREM HolderCorrect == Spec => []HolderInside
<1>1. Init => HolderInside
  BY DEF Init, HolderInside
<1>2. IInv /\ HolderInside /\ [Next]_vars => HolderInside'
  BY HolderSteps
<1> QED BY <1>1, <1>2, InvariantCorrect, PTL DEF Spec

-----------------------------------------------------------------------------
(* What the refinement needs besides.                                      *)

(* From the comparison to the update of the list the target stays.         *)
TargetHeld == \A c \in Cpus :
    hpc[c] \in {"create", "read", "search", "insert"} => task[c] = target_pid
SumsAreReal == \A i \in 1..Len(counter_list) : counter_list[i].of # {}
EarlyIsEmpty ==
    stage \in {"out", "probed"} => counter_list = <<>> /\ target_pid = NoPid

ProfileInv == TargetHeld /\ SumsAreReal /\ EarlyIsEmpty

LEMMA TargetSteps == IInv /\ TargetHeld /\ [Next]_vars => TargetHeld'
<1> SUFFICES ASSUME IInv, TargetHeld, [Next]_vars PROVE TargetHeld'
  OBVIOUS
<1>t. /\ hpc \in HandlerAt /\ task \in [Cpus -> Targets] /\ mutex \in Cpus \union {Nobody}
      /\ OwnerInside
  BY DEF IInv, TypeOK, HandlerAt
<1> USE DEF TargetHeld, HandlerAt
<1>1. CASE UNCHANGED <<hpc, task, target_pid>>
  BY <1>1
<1>2. ASSUME NEW c \in Cpus, ProbeStep(c)
      PROVE  TargetHeld'
  BY <1>t, <1>2 DEF ProbeStep, LockProbe, Compare, CreateEvent, ReadEvent,
     SearchList, InsertEntry, UnlockProbe, Goto
<1>3. ASSUME NEW c \in Cpus, NEW p \in Pids, NEW k \in Keys, Hit(c, p, k)
      PROVE  TargetHeld'
  BY <1>t, <1>3 DEF Hit, Goto
<1>4. CASE \E w \in Writers : AssignTarget(w)
  <2>1. mutex = Nobody /\ UNCHANGED <<hpc, task>>
    BY <1>4 DEF AssignTarget, probeVars
  <2>2. \A c \in Cpus : hpc[c] \notin {"create", "read", "search", "insert"}
    BY <1>t, <2>1 DEF OwnerInside, Inside
  <2> QED BY <2>1, <2>2
<1>5. CASE \E w \in Writers : \/ \E p \in Pids : StartPid(w, p)
                              \/ StopPid(w) \/ WriteLine(w)
  BY <1>1, <1>5 DEF StartPid, StopPid, WriteLine, probeVars
<1>6. CASE \/ RegisterKprobe \/ CreateEntry \/ UnregisterKprobe \/ RemoveEntry
           \/ FreeList \/ RunFreedText \/ UNCHANGED vars
  BY <1>1, <1>6 DEF RegisterKprobe, CreateEntry, UnregisterKprobe, RemoveEntry,
                    FreeList, RunFreedText, vars, probeVars
<1> QED BY <1>2, <1>3, <1>4, <1>5, <1>6 DEF Next, WriterStep

(* The two ways a handler changes the list.                                *)
LEMMA ListChanges ==
    ASSUME IInv, TargetHeld, NEW c \in Cpus, ProbeStep(c), counter_list' # counter_list
    PROVE  /\ target_pid \in Pids /\ key[c] \in Keys
           /\ \/ \E j \in 1..Len(counter_list) :
                    /\ counter_list[j].pc = key[c]
                    /\ counter_list' =
                          [counter_list EXCEPT ![j].of = @ \union {target_pid}]
              \/ counter_list' =
                    <<[pc |-> key[c], of |-> {target_pid}]>> \o counter_list
<1>1. TaskIsPid /\ key \in [Cpus -> Keys]
  BY DEF IInv, TypeOK
<1>2. CASE SearchList(c)
  <2>1. target_pid = task[c] /\ task[c] \in Pids
    BY <1>1, <1>2 DEF SearchList, TargetHeld, TaskIsPid
  <2>2. PICK j \in 1..Len(counter_list) :
           /\ counter_list[j].pc = key[c]
           /\ counter_list' = [counter_list EXCEPT ![j].of = @ \union {task[c]}]
    BY <1>2 DEF SearchList
  <2> QED BY <1>1, <2>1, <2>2
<1>3. CASE InsertEntry(c)
  <2>1. target_pid = task[c] /\ task[c] \in Pids
    BY <1>1, <1>3 DEF InsertEntry, TargetHeld, TaskIsPid
  <2> QED BY <1>1, <1>3, <2>1 DEF InsertEntry
<1> QED BY <1>2, <1>3
        DEF ProbeStep, LockProbe, Compare, CreateEvent, ReadEvent, UnlockProbe

LEMMA SumSteps == IInv /\ TargetHeld /\ SumsAreReal /\ [Next]_vars => SumsAreReal'
<1> SUFFICES ASSUME IInv, TargetHeld, SumsAreReal, [Next]_vars PROVE SumsAreReal'
  OBVIOUS
<1>t. counter_list \in Seq(Entry) /\ Len(counter_list) \in Nat
  BY WalkTypes
<1>1. CASE counter_list' = counter_list
  BY <1>1 DEF SumsAreReal
<1>2. ASSUME NEW c \in Cpus, ProbeStep(c), counter_list' # counter_list
      PROVE  SumsAreReal'
  <2>0. target_pid \in Pids /\ key[c] \in Keys
    BY <1>2, ListChanges
  <2>1. ASSUME NEW j \in 1..Len(counter_list),
               counter_list' = [counter_list EXCEPT ![j].of = @ \union {target_pid}]
        PROVE  SumsAreReal'
    <3>1. /\ Len(counter_list') = Len(counter_list)
          /\ \A i \in 1..Len(counter_list) : counter_list'[i].of =
                IF i = j THEN counter_list[i].of \union {target_pid}
                ELSE counter_list[i].of
      BY <1>t, <2>0, <2>1, InEntry
    <3> QED BY <3>1 DEF SumsAreReal
  <2>2. ASSUME counter_list' = <<[pc |-> key[c], of |-> {target_pid}]>> \o counter_list
        PROVE  SumsAreReal'
    <3> DEFINE e == [pc |-> key[c], of |-> {target_pid}]
    <3>1. e \in Entry /\ e.of # {}
      BY <2>0 DEF Entry
    <3> HIDE DEF e
    <3>2. /\ Len(counter_list') = Len(counter_list) + 1 /\ counter_list'[1] = e
          /\ \A i \in 2..Len(counter_list') : counter_list'[i] = counter_list[i - 1]
      BY <1>t, <2>2, <3>1, AtHead DEF e
    <3> QED BY <1>t, <3>1, <3>2 DEF SumsAreReal
  <2> QED BY <1>2, <2>1, <2>2, ListChanges
<1>3. CASE FreeList
  BY <1>3 DEF FreeList, SumsAreReal
<1>4. CASE \E w \in Writers : \/ \E p \in Pids : StartPid(w, p)
                              \/ StopPid(w) \/ WriterStep(w)
  BY <1>1, <1>4 DEF StartPid, StopPid, WriterStep, AssignTarget, WriteLine
<1>5. CASE \/ RegisterKprobe \/ CreateEntry \/ UnregisterKprobe \/ RemoveEntry
           \/ RunFreedText \/ UNCHANGED vars
           \/ \E c \in Cpus, p \in Pids, k \in Keys : Hit(c, p, k)
  BY <1>1, <1>5 DEF RegisterKprobe, CreateEntry, UnregisterKprobe, RemoveEntry,
                    RunFreedText, Hit, vars
<1> QED BY <1>1, <1>2, <1>3, <1>4, <1>5 DEF Next

LEMMA EarlySteps == IInv /\ TargetHeld /\ EarlyIsEmpty /\ [Next]_vars => EarlyIsEmpty'
<1> SUFFICES ASSUME IInv, TargetHeld, EarlyIsEmpty, [Next]_vars PROVE EarlyIsEmpty'
  OBVIOUS
<1> USE DEF EarlyIsEmpty
<1>1. CASE UNCHANGED <<stage, counter_list, target_pid>>
  BY <1>1
<1>2. ASSUME NEW c \in Cpus, ProbeStep(c)
      PROVE  EarlyIsEmpty'
  <2>1. UNCHANGED <<stage, target_pid>>
    BY <1>2 DEF ProbeStep, LockProbe, Compare, CreateEvent, ReadEvent, SearchList,
                InsertEntry, UnlockProbe
  <2>2. CASE counter_list' # counter_list
    BY <1>2, <2>1, <2>2, ListChanges
  <2> QED BY <1>1, <2>1, <2>2
<1>3. CASE \E w \in Writers : \/ \E p \in Pids : StartPid(w, p)
                              \/ StopPid(w) \/ WriterStep(w)
  <2>1. stage \in {"run", "unregistered"} /\ stage' = stage
    BY <1>3 DEF StartPid, StopPid, WriterStep, AssignTarget, WriteLine, IInv, WhoIsInside
  <2> QED BY <2>1
<1>4. CASE RegisterKprobe \/ CreateEntry \/ UnregisterKprobe \/ RemoveEntry \/ FreeList
  BY <1>4 DEF RegisterKprobe, CreateEntry, UnregisterKprobe, RemoveEntry, FreeList
<1>5. CASE RunFreedText \/ UNCHANGED vars
           \/ \E c \in Cpus, p \in Pids, k \in Keys : Hit(c, p, k)
  BY <1>1, <1>5 DEF RunFreedText, Hit, vars
<1> QED BY <1>2, <1>3, <1>4, <1>5 DEF Next

LEMMA ProfileInvCorrect == Spec => []ProfileInv
<1>1. Init => ProfileInv
  BY DEF Init, ProfileInv, TargetHeld, SumsAreReal, EarlyIsEmpty
<1>2. IInv /\ ProfileInv /\ [Next]_vars => ProfileInv'
  BY TargetSteps, SumSteps, EarlySteps DEF ProfileInv
<1> QED BY <1>1, <1>2, InvariantCorrect, PTL DEF Spec

-----------------------------------------------------------------------------
(* Refinement: each step is a step of the profile or leaves it alone.      *)

Sums    == [k \in Keys |-> SumOf(k)]
Reports == [p \in Targets |-> IF p \in shared THEN {} ELSE Reported(p)]

LEMMA InSum ==
    ASSUME NEW k, NEW x
    PROVE  x \in SumOf(k) <=> \E i \in 1..Len(counter_list) :
              counter_list[i].pc = k /\ x \in counter_list[i].of
  BY DEF SumOf

(* The list changes by a sample of the target.                             *)
LEMMA ListSamples ==
    ASSUME IInv, TargetHeld, NEW c \in Cpus, ProbeStep(c), counter_list' # counter_list
    PROVE  /\ target_pid \in Pids /\ key[c] \in Keys
           /\ Sums' = [Sums EXCEPT ![key[c]] = @ \union {target_pid}]
<1>t. counter_list \in Seq(Entry) /\ Len(counter_list) \in Nat
  BY WalkTypes
<1>0. target_pid \in Pids /\ key[c] \in Keys
  BY ListChanges
<1> SUFFICES ASSUME NEW k \in Keys
             PROVE  SumOf(k)' = IF k = key[c] THEN SumOf(k) \union {target_pid} ELSE SumOf(k)
  BY <1>0 DEF Sums
<1> SUFFICES ASSUME NEW x
             PROVE  x \in SumOf(k)' <=> x \in SumOf(k) \/ (k = key[c] /\ x = target_pid)
  OBVIOUS
<1> DEFINE AddedTo(x1, i) == counter_list[i].pc = k /\ x1 \in counter_list[i].of
<1>1. x \in SumOf(k) <=> \E i \in 1..Len(counter_list) : AddedTo(x, i)
  BY DEF SumOf
<1>2. x \in SumOf(k)' <=> \E i \in 1..Len(counter_list') :
         counter_list'[i].pc = k /\ x \in counter_list'[i].of
  BY DEF SumOf
<1>3. ASSUME NEW j \in 1..Len(counter_list), counter_list[j].pc = key[c],
             counter_list' = [counter_list EXCEPT ![j].of = @ \union {target_pid}]
      PROVE  x \in SumOf(k)' <=> x \in SumOf(k) \/ (k = key[c] /\ x = target_pid)
  <2>1. /\ Len(counter_list') = Len(counter_list)
        /\ \A i \in 1..Len(counter_list) : counter_list'[i].pc = counter_list[i].pc
        /\ \A i \in 1..Len(counter_list) : counter_list'[i].of =
              IF i = j THEN counter_list[i].of \union {target_pid}
              ELSE counter_list[i].of
    BY <1>t, <1>0, <1>3, InEntry
  <2>2. \A i \in 1..Len(counter_list) :
           /\ counter_list'[i].pc = counter_list[i].pc
           /\ x \in counter_list'[i].of <=>
                 x \in counter_list[i].of \/ (i = j /\ x = target_pid)
    BY <2>1
  <2> QED BY <1>1, <1>2, <1>3, <2>1, <2>2
<1>4. ASSUME counter_list' = <<[pc |-> key[c], of |-> {target_pid}]>> \o counter_list
      PROVE  x \in SumOf(k)' <=> x \in SumOf(k) \/ (k = key[c] /\ x = target_pid)
  <2> DEFINE e == [pc |-> key[c], of |-> {target_pid}]
  <2>1. e \in Entry /\ e.pc = key[c] /\ (x \in e.of <=> x = target_pid)
    BY <1>0 DEF Entry
  <2> HIDE DEF e
  <2>2. /\ Len(counter_list') = Len(counter_list) + 1 /\ counter_list'[1] = e
        /\ \A i \in 1..Len(counter_list) : counter_list'[i + 1] = counter_list[i]
        /\ \A i \in 2..Len(counter_list') : counter_list'[i] = counter_list[i - 1]
    BY <1>t, <1>4, <2>1, AtHead DEF e
  <2>3. ASSUME x \in SumOf(k)' PROVE x \in SumOf(k) \/ (k = key[c] /\ x = target_pid)
    <3>1. PICK i \in 1..Len(counter_list') :
             counter_list'[i].pc = k /\ x \in counter_list'[i].of
      BY <1>2, <2>3
    <3>2. CASE i = 1
      BY <2>1, <2>2, <3>1, <3>2
    <3>3. CASE i # 1
      <4>1. i - 1 \in 1..Len(counter_list) /\ AddedTo(x, i - 1)
        BY <1>t, <2>2, <3>1, <3>3
      <4> QED BY <1>1, <4>1
    <3> QED BY <3>2, <3>3
  <2>4. ASSUME x \in SumOf(k) PROVE x \in SumOf(k)'
    <3>1. PICK i \in 1..Len(counter_list) : AddedTo(x, i)
      BY <1>1, <2>4
    <3>2. i + 1 \in 1..Len(counter_list') /\ counter_list'[i + 1] = counter_list[i]
      BY <1>t, <2>2, <3>1
    <3> QED BY <1>2, <3>1, <3>2
  <2>5. ASSUME k = key[c], x = target_pid PROVE x \in SumOf(k)'
    <3>1. 1 \in 1..Len(counter_list')
      BY <1>t, <2>2
    <3> QED BY <1>2, <2>1, <2>2, <2>5, <3>1
  <2> QED BY <2>3, <2>4, <2>5
<1> QED BY <1>3, <1>4, ListChanges

LEMMA ListedAddresses ==
    ASSUME IInv, SumsAreReal
    PROVE  {k \in Keys : Sums[k] # {}} = {counter_list[i].pc : i \in 1..Len(counter_list)}
<1>1. \A i \in 1..Len(counter_list) : counter_list[i].pc \in Keys
  <2>1. \A i \in 1..Len(counter_list) : counter_list[i] \in Entry
    BY WalkTypes, ElementOfSeq
  <2> QED BY <2>1 DEF Entry
<1>2. ASSUME NEW k \in Keys
      PROVE  Sums[k] # {} <=> \E i \in 1..Len(counter_list) : counter_list[i].pc = k
  <2>1. Sums[k] = SumOf(k)
    BY DEF Sums
  <2>2. SumOf(k) # {} <=> \E x : \E i \in 1..Len(counter_list) :
           counter_list[i].pc = k /\ x \in counter_list[i].of
    <3>1. SumOf(k) # {} <=> \E x : x \in SumOf(k)
      OBVIOUS
    <3>2. \A x : x \in SumOf(k) <=> \E i \in 1..Len(counter_list) :
             counter_list[i].pc = k /\ x \in counter_list[i].of
      BY InSum
    <3> QED BY <3>1, <3>2
  <2>3. \A i \in 1..Len(counter_list) : \E x : x \in counter_list[i].of
    BY DEF SumsAreReal
  <2> QED BY <2>1, <2>2, <2>3
<1> QED BY <1>1, <1>2

(* The list grows at its head, which no walk has before it.                *)
LEMMA HandlerKeepsReports ==
    ASSUME IInv, NEW c \in Cpus, ProbeStep(c)
    PROVE  Reports' = Reports
<1>t. UNCHANGED <<wpc, warg, wleft, wpos, files, shared>>
  BY DEF ProbeStep, LockProbe, Compare, CreateEvent, ReadEvent, SearchList,
         InsertEntry, UnlockProbe, writerVars, history
<1>1. PICK d \in {0, 1} : /\ Len(counter_list') = Len(counter_list) + d
                          /\ \A i \in 1..Len(counter_list) :
                                counter_list'[i + d].pc = counter_list[i].pc
  BY ListGrows
<1>2. ASSUME NEW w \in Writers, wpc[w] = "lines"
      PROVE  StillToWrite(w)' = StillToWrite(w)
  <2> DEFINE n == Len(counter_list)
             first == n - wleft[w] + 1
  <2>1. n \in Nat /\ wleft[w] \in Nat /\ wleft[w] <= n
    BY <1>2, WalkTypes DEF WalkInList
  <2>2. StillToWrite(w) = {counter_list[i].pc : i \in first..n}
    BY DEF StillToWrite
  <2>3. StillToWrite(w)' = {counter_list'[i].pc : i \in first + d..n + d}
    <3>1. Len(counter_list') - wleft'[w] + 1 = first + d
      BY <1>t, <1>1, <2>1
    <3> QED BY <1>1, <3>1 DEF StillToWrite
  <2>4. \A i \in first..n : i + d \in first + d..n + d
                           /\ counter_list'[i + d].pc = counter_list[i].pc
    BY <1>1, <2>1
  <2>5. \A i \in first + d..n + d : i - d \in first..n
                           /\ counter_list'[i].pc = counter_list[i - d].pc
    <3> SUFFICES ASSUME NEW i \in first + d..n + d
                 PROVE  i - d \in first..n /\ counter_list'[i].pc = counter_list[i - d].pc
      OBVIOUS
    <3>1. i - d \in first..n /\ (i - d) + d = i
      BY <2>1
    <3> HIDE DEF n, first
    <3> QED BY <2>4, <3>1
  <2> HIDE DEF n, first
  <2> QED BY <2>2, <2>3, <2>4, <2>5
<1>3. ASSUME NEW p \in Targets PROVE Reported(p)' = Reported(p)
  BY <1>t, <1>2 DEF Reported
<1> QED BY <1>t, <1>3 DEF Reports

(* A line moves from what is still to write to what is written.            *)
LEMMA LineKeepsReports ==
    ASSUME IInv, NEW w \in Writers, WriteLine(w)
    PROVE  Reports' = Reports
<1>t. /\ UNCHANGED <<counter_list, shared>> /\ wpc[w] = "lines"
      /\ \A v \in Writers \ {w} : /\ wpc'[v] = wpc[v] /\ warg'[v] = warg[v]
                                   /\ wleft'[v] = wleft[v] /\ wpos'[v] = wpos[v]
  BY WalkTypes DEF WriteLine, WGoto, history
<1> SUFFICES ASSUME NEW p \in Targets, p \notin shared
             PROVE  Reported(p)' = Reported(p)
  BY <1>t DEF Reports
<1> DEFINE n == Len(counter_list)
           Walks(v) == wpc[v] = "lines" /\ warg[v] = p
           Lines == {files[p][i] : i \in 1..Len(files[p])}
<1>0. n \in Nat /\ wleft[w] \in Nat /\ wpos[w] \in Nat /\ wleft[w] + wpos[w] <= n
  BY <1>t, WalkTypes DEF WalkInList
<1>1. \A v \in Writers \ {w} : Walks(v)' = Walks(v) /\ StillToWrite(v)' = StillToWrite(v)
  BY <1>t DEF StillToWrite
<1>2. CASE ~(wleft[w] > 0)
  <2>1. UNCHANGED <<files, wleft>> /\ ~Walks(w)'
    BY <1>2, WalkTypes DEF WriteLine, WGoto
  <2>2. StillToWrite(w) = {}
    BY <1>0, <1>2 DEF StillToWrite
  <2> HIDE DEF Walks
  <2>3. UNION {StillToWrite(v) : v \in {v \in Writers : Walks(v)}} =
        UNION {StillToWrite(v)' : v \in {v \in Writers : Walks(v)'}}
    BY <1>1, <2>1, <2>2
  <2> USE DEF Walks
  <2> QED BY <2>1, <2>3 DEF Reported
<1>3. CASE wleft[w] > 0 /\ warg[w] # p
  <2>1. /\ files' = [files EXCEPT ![warg[w]] = PutLine(@, wpos[w] + 1, Reached(w).pc)]
        /\ UNCHANGED <<wpc, warg>>
    BY <1>3 DEF WriteLine
  <2>2. files'[p] = files[p]
    BY <1>3, <2>1, WalkTypes
  <2>3. ~Walks(w) /\ ~Walks(w)'
    BY <1>3, <2>1
  <2> HIDE DEF Walks
  <2>4. UNION {StillToWrite(v) : v \in {v \in Writers : Walks(v)}} =
        UNION {StillToWrite(v)' : v \in {v \in Writers : Walks(v)'}}
    BY <1>1, <2>3
  <2> USE DEF Walks
  <2> QED BY <2>2, <2>4 DEF Reported
<1>4. CASE wleft[w] > 0 /\ warg[w] = p
  <2> DEFINE m == wpos[w]
             first == First(w)
             rest == n - wleft[w]
  <2>1. wpos'[w] = m + 1 /\ wleft'[w] = wleft[w] - 1 /\ UNCHANGED <<wpc, warg>>
    BY <1>4, WalkTypes DEF WriteLine
  <2>2. \A v \in Writers : Walks(v) <=> v = w
    BY <1>t, <1>4, WalkTypes DEF OneWalkPerFile
  <2>3. \A v \in Writers : Walks(v)' <=> v = w
    BY <2>1, <2>2
  <2>4. files[p] = Passed(w) /\ files'[p] = Passed(w)'
    <3>1. FilesInv'
      BY LineContinuesWalk
    <3>2. wpc'[w] = "lines" /\ warg'[w] = p /\ p \notin shared'
      BY <1>t, <1>4, <2>1
    <3> QED BY <1>t, <1>4, <3>1, <3>2, WalkTypes
            DEF FilesInv, FileFollowsList, Passed, First
  <2>5. /\ first \in Nat /\ rest = first + m /\ rest + 1 <= n
        /\ First(w)' = first
    BY <1>t, <1>0, <1>4, <2>1 DEF First
  <2>6. Lines = {counter_list[i].pc : i \in first + 1..rest}
    <3>1. Len(files[p]) = m /\ \A i \in 1..m : files[p][i] = counter_list[first + i].pc
      <4>1. files[p] = [i \in 1..m |-> counter_list[first + i].pc]
        BY <2>4 DEF Passed
      <4>2. DOMAIN files[p] = 1..Len(files[p]) /\ Len(files[p]) \in Nat
        BY WalkTypes, LenProperties
      <4>3. DOMAIN files[p] = 1..m
        BY <4>1
      <4> HIDE DEF m
      <4>4. Len(files[p]) = m
        BY <1>0, <4>2, <4>3 DEF m
      <4> QED BY <4>1, <4>4
    <3> HIDE DEF first, m, rest
    <3>2. \A i \in 1..m : first + i \in first + 1..rest
      BY <1>0, <2>5 DEF m
    <3>3. \A i \in first + 1..rest : i - first \in 1..m /\ first + (i - first) = i
      BY <1>0, <2>5 DEF m
    <3> QED BY <3>1, <3>2, <3>3
  <2>7. Lines' = {counter_list[i].pc : i \in first + 1..rest + 1}
    <3>1. Len(files'[p]) = m + 1
          /\ \A i \in 1..m + 1 : files'[p][i] = counter_list[first + i].pc
      <4>1. files'[p] = [i \in 1..m + 1 |-> counter_list[first + i].pc]
        BY <1>t, <2>1, <2>4, <2>5 DEF Passed
      <4>2. m + 1 \in Nat
        BY <1>0
      <4> HIDE DEF m, first
      <4> QED BY <4>1, <4>2
    <3> HIDE DEF first, m, rest
    <3>2. \A i \in 1..m + 1 : first + i \in first + 1..rest + 1
      BY <1>0, <2>5 DEF m
    <3>3. \A i \in first + 1..rest + 1 : i - first \in 1..m + 1 /\ first + (i - first) = i
      BY <1>0, <2>5 DEF m
    <3> QED BY <3>1, <3>2, <3>3
  <2>8. /\ StillToWrite(w) = {counter_list[i].pc : i \in rest + 1..n}
        /\ StillToWrite(w)' = {counter_list[i].pc : i \in rest + 2..n}
    <3>1. n - wleft'[w] + 1 = rest + 2
      BY <1>0, <2>1
    <3> QED BY <1>t, <3>1 DEF StillToWrite
  <2>9. Reported(p) = Lines \union StillToWrite(w)
        /\ Reported(p)' = Lines' \union StillToWrite(w)'
    <3>1. {v \in Writers : Walks(v)} = {w} /\ {v \in Writers : Walks(v)'} = {w}
      BY <2>2, <2>3
    <3>2. Reported(p) = Lines \union UNION {StillToWrite(v) : v \in {v \in Writers : Walks(v)}}
      BY DEF Reported
    <3>3. Reported(p)' =
             Lines' \union UNION {StillToWrite(v)' : v \in {v \in Writers : Walks(v)'}}
      BY DEF Reported
    <3> QED BY <3>1, <3>2, <3>3
  <2>10. /\ (first + 1..rest) \union (rest + 1..n) = first + 1..n
         /\ (first + 1..rest + 1) \union (rest + 2..n) = first + 1..n
    <3>1. n \in Nat /\ rest \in Nat /\ first <= rest /\ rest + 1 <= n /\ first \in Nat
      BY <1>0, <1>4, <2>5
    <3> HIDE DEF n, first, rest
    <3>2. ASSUME NEW i \in Int
          PROVE  /\ i \in first + 1..rest \/ i \in rest + 1..n <=> i \in first + 1..n
                 /\ i \in first + 1..rest + 1 \/ i \in rest + 2..n <=> i \in first + 1..n
      BY <3>1
    <3>3. /\ first + 1..rest \subseteq Int /\ rest + 1..n \subseteq Int
          /\ first + 1..n \subseteq Int /\ first + 1..rest + 1 \subseteq Int
          /\ rest + 2..n \subseteq Int
      BY <3>1
    <3> QED BY <3>2, <3>3, Zenon
  <2> HIDE DEF first, rest, n, Lines
  <2>11. /\ Reported(p) = {counter_list[i].pc : i \in first + 1..n}
         /\ Reported(p)' = {counter_list[i].pc : i \in first + 1..n}
    BY <2>6, <2>7, <2>8, <2>9, <2>10
  <2> QED BY <2>11
<1> QED BY <1>2, <1>3, <1>4

(* Opening the file fixes what will be reported: the walk has all before it. *)
LEMMA StopOpensReport ==
    ASSUME IInv, SumsAreReal, NEW w \in Writers, StopPid(w), Present
    PROVE  Profile!Next \/ UNCHANGED Profile!vars
<1>t. UNCHANGED <<stage, counter_list, target_pid>> /\ wpc[w] = "idle"
      /\ \A v \in Writers \ {w} : /\ wpc'[v] = wpc[v] /\ warg'[v] = warg[v]
                                   /\ wleft'[v] = wleft[v]
  BY WalkTypes DEF StopPid, WGoto
<1>s. Sums' = Sums
  BY <1>t DEF Sums, SumOf
<1>1. CASE wpc' = [wpc EXCEPT ![w] = "clear"]
  <2>1. UNCHANGED <<warg, files, wleft, shared>> /\ wpc'[w] = "clear"
    BY <1>1, WalkTypes DEF StopPid, WGoto
  <2>2. \A v \in Writers : (wpc'[v] = "lines" <=> wpc[v] = "lines")
    BY <1>t, <2>1
  <2>3. BeingWritten' = BeingWritten
    BY <2>1, <2>2 DEF BeingWritten
  <2>4. \A p \in Targets : Reported(p)' = Reported(p)
    BY <1>t, <2>1, <2>2 DEF Reported, StillToWrite
  <2>5. Reports' = Reports
    BY <2>1, <2>4 DEF Reports
  <2> QED BY <1>t, <1>s, <2>1, <2>3, <2>5 DEF Profile!vars, Sums, Reports
<1>2. CASE wpc' = [wpc EXCEPT ![w] = "lines"]
  <2> DEFINE t == target_pid
             Walks(v, p) == wpc[v] = "lines" /\ warg[v] = p
  <2>1. /\ wpc'[w] = "lines" /\ warg'[w] = t /\ t \in Targets
        /\ files' = [files EXCEPT ![t] = <<>>]
        /\ wleft'[w] = Len(counter_list) /\ Len(counter_list) \in Nat
        /\ shared' = IF t \in BeingWritten THEN shared \union {t} ELSE shared \ {t}
    BY <1>2, WalkTypes DEF StopPid, WGoto
  <2>2. BeingWritten' = BeingWritten \union {t}
    BY <1>t, <2>1 DEF BeingWritten
  <2>3. ASSUME NEW p \in Targets, p # t PROVE Reported(p)' = Reported(p)
    <3>1. files'[p] = files[p]
      BY <2>1, <2>3, WalkTypes
    <3>2. \A v \in Writers : Walks(v, p)' <=> Walks(v, p)
      BY <1>t, <2>1, <2>3
    <3>3. \A v \in Writers : Walks(v, p) => StillToWrite(v)' = StillToWrite(v)
      BY <1>t DEF StillToWrite
    <3> HIDE DEF Walks
    <3>4. UNION {StillToWrite(v) : v \in {v \in Writers : Walks(v, p)}} =
          UNION {StillToWrite(v)' : v \in {v \in Writers : Walks(v, p)'}}
      BY <3>2, <3>3
    <3> USE DEF Walks
    <3> QED BY <3>1, <3>4 DEF Reported
  <2>4. CASE t \in BeingWritten
    <3>1. Reports' = [Reports EXCEPT ![t] = {}]
      BY <2>1, <2>3, <2>4 DEF Reports
    <3>2. Profile!OpenReport
      BY <1>t, <1>s, <2>1, <2>2, <2>4, <3>1 DEF Profile!OpenReport, Sums, Reports
    <3> QED BY <3>2 DEF Profile!Next, Present
  <2>5. CASE t \notin BeingWritten
    <3>1. Reported(t)' = {counter_list[i].pc : i \in 1..Len(counter_list)}
      <4>1. \A v \in Writers : Walks(v, t)' <=> v = w
        BY <1>t, <2>1, <2>5 DEF BeingWritten
      <4>2. {v \in Writers : Walks(v, t)'} = {w}
        BY <4>1
      <4>3. Reported(t)' = {files'[t][i] : i \in 1..Len(files'[t])} \union
               UNION {StillToWrite(v)' : v \in {v \in Writers : Walks(v, t)'}}
        BY <1>t DEF Reported
      <4>4. files'[t] = <<>> /\ {files'[t][i] : i \in 1..Len(files'[t])} = {}
        BY <2>1, WalkTypes
      <4>5. StillToWrite(w)' = {counter_list[i].pc : i \in 1..Len(counter_list)}
        <5>1. Len(counter_list) - wleft'[w] + 1 = 1
          BY <2>1
        <5> QED BY <1>t, <5>1 DEF StillToWrite
      <4> QED BY <4>2, <4>3, <4>4, <4>5
    <3>2. Reported(t)' = {k \in Keys : Sums[k] # {}}
      BY <3>1, ListedAddresses
    <3>3. Reports' = [Reports EXCEPT ![t] = {k \in Keys : Sums[k] # {}}]
      BY <1>t, <2>1, <2>3, <2>5, <3>2 DEF Reports
    <3>4. Profile!OpenReport
      BY <1>t, <1>s, <2>1, <2>2, <2>5, <3>3
         DEF Profile!OpenReport, Profile!Listed, Sums, Reports
    <3> QED BY <3>4 DEF Profile!Next, Present
  <2> QED BY <2>4, <2>5
<1> QED BY <1>1, <1>2 DEF StopPid, WGoto

LEMMA LineClosesReport ==
    ASSUME IInv, NEW w \in Writers, WriteLine(w), Present
    PROVE  Profile!Next \/ UNCHANGED Profile!vars
<1>1. Reports' = Reports
  BY LineKeepsReports
<1>2. UNCHANGED <<stage, counter_list, target_pid, shared>> /\ wpc[w] = "lines"
  BY DEF WriteLine, history
<1>3. Sums' = Sums
  BY <1>2 DEF Sums, SumOf
<1>4. CASE BeingWritten' = BeingWritten
  BY <1>1, <1>2, <1>3, <1>4 DEF Profile!vars, Sums, Reports
<1>5. CASE BeingWritten' # BeingWritten
  <2>1. wpc' = [wpc EXCEPT ![w] = "clear"] /\ warg' = [warg EXCEPT ![w] = NoPid]
    BY <1>5 DEF WriteLine, WGoto, BeingWritten
  <2>2. /\ wpc'[w] # "lines" /\ warg[w] \in Targets /\ warg[w] \in BeingWritten
        /\ \A v \in Writers \ {w} : wpc'[v] = wpc[v] /\ warg'[v] = warg[v]
    BY <1>2, <2>1, WalkTypes DEF BeingWritten
  <2>3. BeingWritten' = BeingWritten \ {warg[w]}
    BY <1>2, <1>5, <2>2 DEF BeingWritten
  <2>4. Profile!CloseReport(warg[w])
    BY <1>1, <1>2, <1>3, <2>2, <2>3 DEF Profile!CloseReport, Sums, Reports
  <2> QED BY <2>2, <2>4 DEF Profile!Next, Profile!Targets, Targets, Present
<1> QED BY <1>4, <1>5

(* Until the list is freed only handlers change sums, and nothing but      *)
(* stops and their lines changes reports.                                  *)
LEMMA CommandsRetarget ==
    ASSUME IInv, Present, NEW w \in Writers,
           AssignTarget(w) \/ \E p \in Pids : StartPid(w, p)
    PROVE  Profile!Next \/ UNCHANGED Profile!vars
<1>1. /\ UNCHANGED <<stage, counter_list, files, wleft, shared>>
      /\ wpc[w] # "lines" /\ wpc'[w] # "lines"
      /\ \A v \in Writers \ {w} : wpc'[v] = wpc[v] /\ warg'[v] = warg[v]
  BY WalkTypes DEF AssignTarget, StartPid, WGoto, history
<1>2. Sums' = Sums
  BY <1>1 DEF Sums, SumOf
<1>3. \A v \in Writers : /\ wpc'[v] = "lines" <=> wpc[v] = "lines"
                         /\ wpc[v] = "lines" => warg'[v] = warg[v]
  BY <1>1
<1>4. BeingWritten' = BeingWritten
  BY <1>3 DEF BeingWritten
<1>5. \A p \in Targets : Reported(p)' = Reported(p)
  <2>1. \A v \in Writers : StillToWrite(v)' = StillToWrite(v)
    BY <1>1 DEF StillToWrite
  <2>2. \A p \in Targets : {v \in Writers : wpc'[v] = "lines" /\ warg'[v] = p}
                         = {v \in Writers : wpc[v] = "lines" /\ warg[v] = p}
    BY <1>3
  <2> QED BY <1>1, <2>1, <2>2 DEF Reported
<1>6. Reports' = Reports
  BY <1>1, <1>5 DEF Reports
<1>7. target_pid' \in Targets
  BY WalkTypes DEF AssignTarget, StartPid, Targets
<1>8. Profile!Retarget(target_pid')
  BY <1>1, <1>2, <1>4, <1>6 DEF Profile!Retarget, Sums, Reports
<1> QED BY <1>7, <1>8 DEF Profile!Next, Profile!Targets, Targets, Present

LEMMA UnloadForgets ==
    ASSUME IInv, EarlyIsEmpty,
           RegisterKprobe \/ CreateEntry \/ UnregisterKprobe \/ RemoveEntry \/ FreeList
    PROVE  Profile!Next \/ UNCHANGED Profile!vars
<1>1. /\ UNCHANGED <<target_pid, files, wpc, warg, wleft, shared>> /\ stage # "gone"
      /\ counter_list' = counter_list \/ FreeList
  BY DEF RegisterKprobe, CreateEntry, UnregisterKprobe, RemoveEntry, FreeList,
         writerVars, history
<1>2. BeingWritten' = BeingWritten
  BY <1>1 DEF BeingWritten
<1>3. CASE stage' # "gone"
  <2>1. UNCHANGED counter_list
    BY <1>1, <1>3 DEF FreeList
  <2>2. Sums' = Sums /\ Reports' = Reports
    BY <1>1, <2>1 DEF Sums, SumOf, Reports, Reported, StillToWrite
  <2> QED BY <1>1, <1>2, <1>3, <2>2 DEF Profile!vars, Sums, Reports
<1>4. CASE stage' = "gone"
  <2>1. counter_list' = <<>> /\ stage \notin {"run", "unregistered"}
    BY <1>4 DEF RegisterKprobe, CreateEntry, UnregisterKprobe, RemoveEntry, FreeList,
                EarlyIsEmpty
  <2>2. \A w \in Writers : wpc[w] # "lines"
    BY <2>1 DEF IInv, WhoIsInside
  <2>3. BeingWritten = {}
    BY <2>2 DEF BeingWritten
  <2>4. Sums' = [k \in Keys |-> {}]
    <3>1. \A k \in Keys : SumOf(k)' = {}
      BY <2>1 DEF SumOf
    <3> QED BY <3>1 DEF Sums
  <2>5. Reports' = Reports
    BY <1>1, <2>2 DEF Reports, Reported
  <2>6. Profile!Unload
    BY <1>1, <1>2, <1>4, <2>3, <2>4, <2>5 DEF Profile!Unload, Sums, Reports
  <2> QED BY <1>1, <2>6 DEF Profile!Next
<1> QED BY <1>3, <1>4

LEMMA StepRefines ==
    IInv /\ ProfileInv /\ [Next]_vars => [Profile!Next]_(Profile!vars)
<1> SUFFICES ASSUME IInv, ProfileInv, [Next]_vars
             PROVE  Profile!Next \/ UNCHANGED Profile!vars
  OBVIOUS
<1>1. CASE UNCHANGED <<stage, target_pid, counter_list, writerVars, files, shared>>
  <2>1. Sums' = Sums /\ Reports' = Reports /\ BeingWritten' = BeingWritten
    BY <1>1 DEF writerVars, Sums, SumOf, Reports, Reported, StillToWrite, BeingWritten
  <2> QED BY <1>1, <2>1 DEF Profile!vars, Sums, Reports
<1>2. ASSUME NEW c \in Cpus, Present, ProbeStep(c)
      PROVE  Profile!Next \/ UNCHANGED Profile!vars
  <2>1. UNCHANGED <<stage, target_pid, writerVars, files, shared>>
    BY <1>2 DEF ProbeStep, LockProbe, Compare, CreateEvent, ReadEvent, SearchList,
                InsertEntry, UnlockProbe, history
  <2>2. CASE counter_list' # counter_list
    <3>1. /\ target_pid \in Pids /\ key[c] \in Keys
          /\ Sums' = [Sums EXCEPT ![key[c]] = @ \union {target_pid}]
      BY <1>2, <2>2, ListSamples DEF ProfileInv
    <3>2. Reports' = Reports
      BY <1>2, HandlerKeepsReports
    <3>3. BeingWritten' = BeingWritten
      BY <2>1 DEF BeingWritten, writerVars
    <3>4. Profile!Sample(key[c])
      BY <2>1, <3>1, <3>2, <3>3 DEF Profile!Sample, Sums, Reports
    <3> QED BY <1>2, <3>1, <3>4 DEF Profile!Next, Present
  <2> QED BY <1>1, <2>1, <2>2
<1>3. CASE \E w \in Writers : Present /\ WriterStep(w)
  BY <1>3, CommandsRetarget, LineClosesReport DEF WriterStep
<1>4. CASE \E w \in Writers : StopPid(w) \/ \E p \in Pids : StartPid(w, p)
  <2>1. Present
    BY <1>4 DEF StopPid, StartPid, Present
  <2> QED BY <1>4, <2>1, StopOpensReport, CommandsRetarget DEF ProfileInv
<1>5. CASE RegisterKprobe \/ CreateEntry \/ UnregisterKprobe \/ RemoveEntry \/ FreeList
  BY <1>5, UnloadForgets DEF ProfileInv
<1>6. CASE RunFreedText \/ UNCHANGED vars
           \/ \E c \in Cpus, p \in Pids, k \in Keys : Hit(c, p, k)
  BY <1>1, <1>6 DEF RunFreedText, Hit, vars, history
<1> QED BY <1>2, <1>3, <1>4, <1>5, <1>6 DEF Next

(* However many CPUs hit the probe while commands retarget and report, the *)
(* module implements one map of sums and reports of single moments: every  *)
(* step is a step of AtomicProfile or leaves its state alone.              *)
THEOREM ProfileCorrect == Spec => ActsAsProfile
<1>1. Init => Profile!Init
  <2> SUFFICES ASSUME Init PROVE Profile!Init
    OBVIOUS
  <2>1. counter_list = <<>> /\ BeingWritten = {} /\ shared = {}
    BY DEF Init, BeingWritten
  <2>2. \A k \in Keys : SumOf(k) = {}
    BY <2>1 DEF SumOf
  <2>3. \A p \in Targets : Reported(p) = {}
    <3>1. \A p \in Targets : files[p] = <<>>
      BY DEF Init
    <3>2. \A w \in Writers : wpc[w] # "lines"
      BY DEF Init
    <3> QED BY <3>1, <3>2 DEF Reported
  <2> QED BY <2>1, <2>2, <2>3 DEF Init, Profile!Init, Profile!Targets, Targets
<1> QED BY <1>1, StepRefines, InvariantCorrect, ProfileInvCorrect, PTL
        DEF Spec, ActsAsProfile, Profile!Spec
=============================================================================
