------------------------ MODULE CounterSamplingProofs ------------------------
(***************************************************************************)
(* Theorems about CounterSampling for any CPUs, tasks, numbers of events,  *)
(* hardware counters and widths.  The inductive invariant says what a      *)
(* counter and its previous value differ by: the ticks not yet read.       *)
(***************************************************************************)
EXTENDS CounterSampling, TLAPS

USE CpusAssumption, TasksAssumption, SizesAssumption

-----------------------------------------------------------------------------
(* Arithmetic modulo Width.                                                *)

LEMMA Residue ==
    /\ \A n \in Nat : n % Width \in 0..(Width - 1)
    /\ \A k \in Int, m \in 0..(Width - 1) : (Width * k + m) % Width = m
<1>1. \A n \in Nat : n % Width \in 0..(Width - 1)
  OBVIOUS
<1>2. \A k \in Int, m \in 0..(Width - 1) : (Width * k + m) % Width = m
  OBVIOUS
<1> QED BY <1>1, <1>2

LEMMA Sum ==
    ASSUME NEW p \in 0..(Width - 1), NEW u \in 0..(Width - 1)
    PROVE  (p + u) % Width = IF p + u < Width THEN p + u ELSE p + u - Width
<1>1. CASE p + u < Width
  <2>1. p + u = Width * 0 + (p + u) /\ p + u \in 0..(Width - 1) /\ 0 \in Int
    BY <1>1
  <2>2. (Width * 0 + (p + u)) % Width = p + u
    BY <2>1, Residue
  <2> QED BY <1>1, <2>1, <2>2
<1>2. CASE ~(p + u < Width)
  <2> DEFINE m == p + u - Width
  <2>1. p + u = Width * 1 + m /\ m \in 0..(Width - 1) /\ 1 \in Int
    BY <1>2
  <2>2. m = p + u - Width
    OBVIOUS
  <2> HIDE DEF m
  <2>3. (Width * 1 + m) % Width = m
    BY <2>1, Residue
  <2> QED BY <1>2, <2>1, <2>2, <2>3
<1> QED BY <1>1, <1>2

(* The u64 difference is what was counted since, also across a wrap.       *)
LEMMA DeltaIsUnread ==
    ASSUME NEW p \in 0..(Width - 1), NEW u \in 0..(Width - 1)
    PROVE  Delta((p + u) % Width, p) = u
<1>1. CASE p + u < Width
  <2>0. (p + u) % Width = p + u
    BY <1>1, Sum
  <2>1. ((p + u) % Width) - p = Width * 0 + u
    BY <2>0
  <2>2. (Width * 0 + u) % Width = u
    BY Residue
  <2> QED BY <2>1, <2>2 DEF Delta
<1>2. CASE ~(p + u < Width)
  <2>0. (p + u) % Width = p + u - Width
    BY <1>2, Sum
  <2>1. ((p + u) % Width) - p = Width * (-1) + u /\ -1 \in Int
    BY <2>0
  <2>2. (Width * (-1) + u) % Width = u
    BY <2>1, Residue
  <2> QED BY <2>1, <2>2 DEF Delta
<1> QED BY <1>1, <1>2

LEMMA OneMore ==
    ASSUME NEW p \in 0..(Width - 1), NEW u \in 0..(Width - 2)
    PROVE  (((p + u) % Width) + 1) % Width = (p + (u + 1)) % Width
<1>1. u + 1 \in 0..(Width - 1) /\ 1 \in 0..(Width - 1) /\ u \in 0..(Width - 1)
  OBVIOUS
<1>2. (p + u) % Width = IF p + u < Width THEN p + u ELSE p + u - Width
  BY <1>1, Sum
<1>3. (p + (u + 1)) % Width =
         IF p + (u + 1) < Width THEN p + (u + 1) ELSE p + (u + 1) - Width
  BY <1>1, Sum
<1> DEFINE r == (p + u) % Width
<1>4. r \in 0..(Width - 1)
  BY <1>1, <1>2
<1>5. (r + 1) % Width = IF r + 1 < Width THEN r + 1 ELSE r + 1 - Width
  <2> HIDE DEF r
  <2> QED BY <1>1, <1>4, Sum
<1>6. r = IF p + u < Width THEN p + u ELSE p + u - Width
  BY <1>2
<1> HIDE DEF r
<1>7. (r + 1) % Width = (p + (u + 1)) % Width
  BY <1>1, <1>3, <1>4, <1>5, <1>6
<1> QED BY <1>7 DEF r

-----------------------------------------------------------------------------
CountIsAhead == \A i \in Indices :
    unread[i] < Width /\ count[i] = (prev[i] + unread[i]) % Width
NewIsZero == \A i \in Indices : i > created => prev[i] = 0
Phases ==
    /\ session = "create" => created < NumEvents
    /\ session = "on" => created = NumEvents
    /\ reading # 0 => session = "on"
Pinned ==
    ~strayed => /\ \A c \in Cpus \ {cpu} : on[c] # target
                /\ \A i \in Indices : ofTarget[i] <= ticked[i]

CInv == TypeOK /\ CountIsAhead /\ NewIsZero /\ Phases /\ Pinned /\ NothingLostOrDoubled

LEMMA ZeroIsOf == Zero \in [Indices -> Nat] /\ Zero \in [Indices -> 0..(Width - 1)]
  BY DEF Zero, Indices

LEMMA CInvInit == Init => CInv
<1> SUFFICES ASSUME Init PROVE CInv
  OBVIOUS
<1>1. TypeOK
  <2>1. /\ on \in [Cpus -> Tasks \union {Idle}] /\ session = "off" /\ target \in Tasks
        /\ cpu \in Cpus /\ created = 0 /\ loaded = {} /\ reading = 0
    BY DEF Init
  <2>2. /\ count = Zero /\ prev = Zero /\ reported = Zero /\ ticked = Zero
        /\ missed = Zero /\ ofTarget = Zero /\ unread = Zero
    BY DEF Init
  <2>3. strayed \in BOOLEAN
    BY Zenon DEF Init
  <2> QED BY <2>1, <2>2, <2>3, ZeroIsOf DEF TypeOK
<1>2. CountIsAhead
  <2>1. 0 % Width = 0
    OBVIOUS
  <2> QED BY <2>1 DEF Init, CountIsAhead, Zero
<1>3. NewIsZero /\ Phases /\ Pinned /\ NothingLostOrDoubled
  BY DEF Init, NewIsZero, Phases, Pinned, NothingLostOrDoubled, Zero
<1> QED BY <1>1, <1>2, <1>3 DEF CInv

(* The machine. *)
LEMMA SwitchKeeps ==
    ASSUME CInv, NEW c \in Cpus, NEW t \in Tasks \union {Idle}, Switch(c, t)
    PROVE  CInv'
<1>1. /\ UNCHANGED <<session, target, cpu, created, loaded, count, prev, reading,
                     reported, ticked, missed, ofTarget, unread>>
      /\ on' = [on EXCEPT ![c] = t]
  BY DEF Switch, sessionVars, readerVars, historyVars
<1>2. strayed' \in BOOLEAN
  BY Zenon DEF Switch
<1>3. ~strayed' => ~strayed /\ ~(t = target /\ c # cpu)
  BY Zenon DEF Switch
<1>4. TypeOK'
  BY <1>1, <1>2 DEF CInv, TypeOK
<1>5. Pinned'
  BY <1>1, <1>3 DEF CInv, TypeOK, Pinned
<1> QED BY <1>1, <1>4, <1>5
        DEF CInv, CountIsAhead, NewIsZero, Phases, NothingLostOrDoubled

LEMMA TickKeeps ==
    ASSUME CInv, NEW c \in Cpus, NEW i \in Indices, Tick(c, i)
    PROVE  CInv'
<1>t. /\ count \in [Indices -> 0..(Width - 1)] /\ prev \in [Indices -> 0..(Width - 1)]
      /\ reported \in [Indices -> Nat] /\ ticked \in [Indices -> Nat]
      /\ missed \in [Indices -> Nat] /\ ofTarget \in [Indices -> Nat]
      /\ unread \in [Indices -> Nat] /\ on \in [Cpus -> Tasks \union {Idle}]
  BY DEF CInv, TypeOK
<1>1. /\ UNCHANGED <<on, session, target, cpu, created, loaded, prev, reading,
                     reported, strayed>>
      /\ unread[i] < Width - 1
      /\ ofTarget' = [ofTarget EXCEPT ![i] = @ + IF on[c] = target THEN 1 ELSE 0]
  BY DEF Tick, schedVars, sessionVars, readerVars
<1>2. CASE c # cpu
  <2>1. UNCHANGED <<count, unread, ticked, missed>>
    BY <1>2 DEF Tick
  <2>2. ofTarget' \in [Indices -> Nat] /\ (~strayed => ofTarget' = ofTarget)
    BY <1>t, <1>1, <1>2 DEF CInv, Pinned
  <2>3. TypeOK'
    BY <1>1, <2>1, <2>2 DEF CInv, TypeOK
  <2> QED BY <1>1, <2>1, <2>2, <2>3
          DEF CInv, CountIsAhead, NewIsZero, Phases, Pinned, NothingLostOrDoubled
<1>3. CASE c = cpu
  <2>1. /\ ticked' = [ticked EXCEPT ![i] = @ + 1]
        /\ \/ /\ count' = [count EXCEPT ![i] = (@ + 1) % Width]
              /\ unread' = [unread EXCEPT ![i] = @ + 1] /\ UNCHANGED missed
           \/ missed' = [missed EXCEPT ![i] = @ + 1] /\ UNCHANGED <<count, unread>>
    BY <1>3 DEF Tick
  <2>2. (count[i] + 1) % Width \in 0..(Width - 1)
    <3>1. count[i] + 1 \in Nat
      BY <1>t
    <3> QED BY <3>1, Residue
  <2>3. /\ ticked' \in [Indices -> Nat] /\ missed' \in [Indices -> Nat]
        /\ ofTarget' \in [Indices -> Nat] /\ unread' \in [Indices -> Nat]
    BY <1>t, <1>1, <2>1
  <2>4. count' \in [Indices -> 0..(Width - 1)]
    BY <1>t, <2>1, <2>2
  <2>5. TypeOK'
    BY <1>1, <2>3, <2>4 DEF CInv, TypeOK
  <2>6. CountIsAhead'
    <3>1. CASE UNCHANGED <<count, unread>>
      BY <1>1, <3>1 DEF CInv, CountIsAhead
    <3>2. CASE count' = [count EXCEPT ![i] = (@ + 1) % Width]
               /\ unread' = [unread EXCEPT ![i] = @ + 1]
      <4>1. prev[i] \in 0..(Width - 1) /\ unread[i] \in 0..(Width - 2)
            /\ count[i] = (prev[i] + unread[i]) % Width
        BY <1>t, <1>1 DEF CInv, CountIsAhead
      <4>2. (count[i] + 1) % Width = (prev[i] + (unread[i] + 1)) % Width
        BY <4>1, OneMore
      <4>3. \A j \in Indices \ {i} : count'[j] = count[j] /\ unread'[j] = unread[j]
        BY <1>t, <3>2
      <4>4. count'[i] = (prev'[i] + unread'[i]) % Width /\ unread'[i] < Width
        BY <1>t, <1>1, <3>2, <4>1, <4>2
      <4> QED BY <1>1, <4>3, <4>4 DEF CInv, CountIsAhead
    <3> QED BY <2>1, <3>1, <3>2
  <2>7. Pinned'
    BY <1>t, <1>1, <2>1 DEF CInv, Pinned
  <2>8. NothingLostOrDoubled'
    BY <1>t, <1>1, <2>1 DEF CInv, NothingLostOrDoubled
  <2> QED BY <1>1, <2>5, <2>6, <2>7, <2>8 DEF CInv, NewIsZero, Phases
<1> QED BY <1>2, <1>3

LEMMA RotateKeeps == CInv /\ Rotate => CInv'
<1> SUFFICES ASSUME CInv, Rotate PROVE CInv'
  OBVIOUS
<1>1. loaded' \subseteq 1..created
  BY DEF Rotate, Loadable
<1>2. UNCHANGED <<on, session, target, cpu, created, count, prev, reading,
                  reported, ticked, missed, ofTarget, unread, strayed>>
  BY DEF Rotate, schedVars, sessionVars, readerVars, historyVars
<1> QED BY <1>1, <1>2 DEF CInv, TypeOK, CountIsAhead, NewIsZero, Phases, Pinned,
                          NothingLostOrDoubled

-----------------------------------------------------------------------------
(* The module. *)
LEMMA StartKeeps ==
    ASSUME CInv, NEW t \in Tasks, NEW w \in Tasks, NEW c \in Cpus, StartSession(t, c, w)
    PROVE  CInv'
<1>1. /\ session = "off" /\ session' = "create" /\ target' = t /\ cpu' = c
      /\ created' = 0 /\ loaded' = {} /\ count' = Zero /\ prev' = Zero
      /\ reported' = Zero /\ ticked' = Zero /\ missed' = Zero /\ ofTarget' = Zero
      /\ unread' = Zero /\ on' = on /\ reading' = reading
  BY DEF StartSession, schedVars
<1>2. strayed' \in BOOLEAN /\ (~strayed' => \A d \in Cpus \ {c} : on[d] # t)
  BY Zenon DEF StartSession
<1>3. TypeOK'
  BY <1>1, <1>2, ZeroIsOf DEF CInv, TypeOK
<1>4. CountIsAhead'
  <2>1. 0 % Width = 0
    OBVIOUS
  <2> QED BY <1>1, <2>1 DEF CountIsAhead, Zero
<1>5. NewIsZero' /\ Phases' /\ NothingLostOrDoubled'
  BY <1>1 DEF CInv, NewIsZero, Phases, NothingLostOrDoubled, Zero
<1>6. Pinned'
  BY <1>1, <1>2 DEF Pinned, Zero
<1> QED BY <1>3, <1>4, <1>5, <1>6 DEF CInv

LEMMA CreateKeeps == CInv /\ CreateEvent => CInv'
<1> SUFFICES ASSUME CInv, CreateEvent PROVE CInv'
  OBVIOUS
<1>1. /\ session = "create" /\ created' = created + 1 /\ created \in 0..NumEvents
      /\ created < NumEvents /\ loaded' \subseteq 1..created' /\ reading = 0
      /\ session' = IF created' = NumEvents THEN "on" ELSE "create"
      /\ prev' = [prev EXCEPT ![created'] = 0]
      /\ UNCHANGED <<on, target, cpu, count, reading, reported, ticked, missed,
                     ofTarget, unread, strayed>>
  BY DEF CreateEvent, CInv, TypeOK, Phases, Loadable, schedVars, historyVars
<1>2. prev' = prev
  <2>1. created' \in Indices /\ created' > created
    BY <1>1 DEF Indices
  <2>2. prev[created'] = 0 /\ prev \in [Indices -> 0..(Width - 1)]
    BY <2>1 DEF CInv, NewIsZero, TypeOK
  <2> QED BY <1>1, <2>1, <2>2
<1>3. TypeOK'
  <2>1. created' \in 0..NumEvents /\ session' \in {"create", "on"}
    BY <1>1
  <2> QED BY <1>1, <1>2, <2>1 DEF CInv, TypeOK
<1>4. Phases' /\ NewIsZero'
  BY <1>1, <1>2 DEF CInv, Phases, NewIsZero, Indices
<1> QED BY <1>1, <1>2, <1>3, <1>4 DEF CInv, CountIsAhead, Pinned, NothingLostOrDoubled

LEMMA ReadKeeps == CInv /\ ReadCounter => CInv'
<1> SUFFICES ASSUME CInv, ReadCounter PROVE CInv'
  OBVIOUS
<1> DEFINE i == reading
<1>1. /\ i # 0 /\ i \in Indices /\ session = "on"
      /\ prev' = [prev EXCEPT ![i] = count[i]]
      /\ unread' = [unread EXCEPT ![i] = 0]
      /\ reading' \in 0..NumEvents
      /\ UNCHANGED <<on, session, target, cpu, created, loaded, count, ticked,
                     missed, ofTarget, strayed>>
  BY DEF ReadCounter, CInv, TypeOK, Phases, Indices, schedVars, sessionVars, historyVars
<1>2. reported' = [reported EXCEPT ![i] = @ + unread[i]]
  <2>1. prev[i] \in 0..(Width - 1) /\ unread[i] \in 0..(Width - 1)
        /\ count[i] = (prev[i] + unread[i]) % Width
    BY <1>1 DEF CInv, TypeOK, CountIsAhead
  <2>2. Delta(count[i], prev[i]) = unread[i]
    BY <2>1, DeltaIsUnread
  <2>3. reported' = [reported EXCEPT ![i] = @ + Delta(count[i], prev[i])]
    BY DEF ReadCounter
  <2> QED BY <2>2, <2>3
<1>t. /\ count \in [Indices -> 0..(Width - 1)] /\ prev \in [Indices -> 0..(Width - 1)]
      /\ reported \in [Indices -> Nat] /\ ticked \in [Indices -> Nat]
      /\ missed \in [Indices -> Nat] /\ unread \in [Indices -> Nat]
  BY DEF CInv, TypeOK
<1>3. TypeOK'
  <2>1. /\ prev' \in [Indices -> 0..(Width - 1)] /\ unread' \in [Indices -> Nat]
        /\ reported' \in [Indices -> Nat]
    BY <1>t, <1>1, <1>2
  <2> QED BY <1>1, <2>1 DEF CInv, TypeOK
<1>4. CountIsAhead'
  <2>1. prev'[i] = count[i] /\ unread'[i] = 0 /\ count[i] \in 0..(Width - 1)
        /\ 0 \in 0..(Width - 1)
    BY <1>t, <1>1
  <2>2. count[i] + 0 < Width /\ (count[i] + 0) % Width = count[i]
    <3>1. count[i] + 0 < Width
      BY <2>1
    <3>2. (count[i] + 0) % Width = count[i] + 0
      BY <2>1, <3>1, Sum
    <3> QED BY <2>1, <3>1, <3>2
  <2>3. \A j \in Indices \ {i} : prev'[j] = prev[j] /\ unread'[j] = unread[j]
    BY <1>t, <1>1
  <2>4. count'[i] = (prev'[i] + unread'[i]) % Width /\ unread'[i] < Width
    BY <1>1, <2>1, <2>2
  <2> QED BY <1>1, <2>3, <2>4 DEF CInv, CountIsAhead
<1>5. NothingLostOrDoubled'
  BY <1>t, <1>1, <1>2 DEF CInv, NothingLostOrDoubled
<1>6. NewIsZero'
  <2>1. created = NumEvents
    BY <1>1 DEF CInv, Phases
  <2> QED BY <1>t, <1>1, <2>1 DEF CInv, NewIsZero, Indices
<1> QED BY <1>1, <1>3, <1>4, <1>5, <1>6 DEF CInv, Phases, Pinned

LEMMA CInvSteps == CInv /\ [Next]_vars => CInv'
<1> SUFFICES ASSUME CInv, [Next]_vars PROVE CInv'
  OBVIOUS
<1>1. CASE BeginSample \/ EndSession
  <2>1. /\ session' \in {"on", "off"} /\ reading' \in 0..NumEvents
        /\ session = "on" /\ (reading' # 0 => session' = "on")
        /\ UNCHANGED <<on, target, cpu, created, loaded, count, prev, reported, ticked,
                       missed, ofTarget, unread, strayed>>
    BY <1>1 DEF BeginSample, EndSession, schedVars, sessionVars, readerVars, historyVars
  <2>2. TypeOK'
    BY <2>1 DEF CInv, TypeOK
  <2>3. Phases'
    BY <2>1 DEF CInv, Phases
  <2> QED BY <2>1, <2>2, <2>3 DEF CInv, CountIsAhead, NewIsZero, Pinned, NothingLostOrDoubled
<1>2. CASE UNCHANGED vars
  BY <1>2 DEF vars, CInv, TypeOK, CountIsAhead, NewIsZero, Phases, Pinned,
              NothingLostOrDoubled, schedVars, sessionVars, readerVars, historyVars
<1> QED BY <1>1, <1>2, SwitchKeeps, TickKeeps, RotateKeeps, StartKeeps, CreateKeeps,
           ReadKeeps DEF Next

(* The inductive invariant: a counter is ahead of its previous value by    *)
(* the ticks not yet read, and a target that has not strayed runs nowhere  *)
(* but on the session's CPU.                                               *)
THEOREM InvariantCorrect == Spec => []CInv
  BY CInvInit, CInvSteps, PTL DEF Spec

(* Every variable keeps its type.                                          *)
THEOREM TypeCorrect == Spec => []TypeOK
<1>1. CInv => TypeOK
  BY DEF CInv
<1> QED BY <1>1, InvariantCorrect, PTL

(* The u64 differences lose nothing and count nothing twice, for any width *)
(* of the counters and however samples, ticks and rotation interleave.     *)
THEOREM CountsCorrect == Spec => []NothingLostOrDoubled
<1>1. CInv => NothingLostOrDoubled
  BY DEF CInv
<1> QED BY <1>1, InvariantCorrect, PTL

(* What is printed bounds the ticks of a target that stays on its CPU, for *)
(* any other load of this CPU.                                             *)
THEOREM PinnedCorrect == Spec => []CoversPinnedTarget
<1>1. CInv => CoversPinnedTarget
  <2> SUFFICES ASSUME CInv, ~strayed, NEW i \in Indices
               PROVE  reported[i] + unread[i] >= ofTarget[i] - missed[i]
    BY DEF CoversPinnedTarget
  <2>1. ofTarget[i] <= ticked[i] /\ reported[i] + unread[i] + missed[i] = ticked[i]
    BY DEF CInv, Pinned, NothingLostOrDoubled
  <2>2. {reported[i], unread[i], missed[i], ticked[i], ofTarget[i]} \subseteq Nat
    BY DEF CInv, TypeOK
  <2> QED BY <2>1, <2>2
<1> QED BY <1>1, InvariantCorrect, PTL
=============================================================================
