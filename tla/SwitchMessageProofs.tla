------------------------- MODULE SwitchMessageProofs -------------------------
(***************************************************************************)
(* Proofs about SwitchMessage for any number of CPUs, processes and pieces *)
(* of a message: buffer_lock protects the buffer, the buffer is whole      *)
(* whenever nobody formats, and the file acts as one register.  The same   *)
(* holds under the sampling timer of SampledSwitch, whose interrupt can    *)
(* close a circle of waiting; what closes it, and that nothing else stops  *)
(* a sample, are the last theorems.                                        *)
(***************************************************************************)
EXTENDS SampledSwitch, FiniteSetTheorems, SequenceTheorems, TLAPS

USE ProcsAssumption, CpusAssumption, PiecesAssumption

(* A process in the kernel is on one CPU, outside the probe. *)
InKernelRuns ==
    /\ \A p \in Procs : ppc[p] # "user" =>
          \E c \in Cpus : on[c] = p /\ hpc[c] = "out"
    /\ \A c, d \in Cpus : on[c] = on[d] /\ on[c] # Idle => c = d

(* Only written pids are announced. *)
AnnouncedWasWritten ==
    /\ target_pid \in written \union {NoPid}
    /\ \A i \in 1..Pieces : buffer[i] \in written \union {NoPid}
    /\ \A c \in Cpus : hpc[c] = "lock" => target_pid \in written
    /\ \A c \in Cpus : Formatting(c) => hpid[c] \in written

(* While a CPU formats, the buffer is new up to its position and old from  *)
(* there on.                                                               *)
PrefixIsNew ==
    \A c \in Cpus :
        /\ ~Formatting(c) => hpos[c] = 0
        /\ Formatting(c) =>
              /\ \A i \in 1..Pieces : i <= hpos[c] => buffer[i] = hpid[c]
              /\ \A i, j \in 1..Pieces :
                    i > hpos[c] /\ j > hpos[c] => buffer[i] = buffer[j]

(* What a call has copied so far is pieces of the message in the buffer. *)
CopyIsOfBuffer ==
    \A p \in Procs :
        /\ ppos[p] + Len(part[p]) <= Pieces
        /\ ppc[p] # "copy" => part[p] = <<>>
        /\ ppc[p] = "copy" => \A i \in 1..Len(part[p]) : part[p][i] = buffer[1]

IInv ==
    /\ TypeOK
    /\ InKernelRuns
    /\ AnnouncedWasWritten
    /\ LockProtectsBuffer
    /\ BufferIsWhole
    /\ PrefixIsNew
    /\ CopyIsOfBuffer

-----------------------------------------------------------------------------
LEMMA InitIInv == Init => IInv
  BY DEF Init, IInv, TypeOK, InKernelRuns, AnnouncedWasWritten,
     LockProtectsBuffer, BufferIsWhole, PrefixIsNew, CopyIsOfBuffer,
     Formatting, Copying

(* Never more pieces are available than a message has, and none while the  *)
(* buffer is empty.                                                        *)
LEMMA AvailableIsBounded ==
    ASSUME TypeOK
    PROVE  /\ Available \in Nat /\ Available <= Pieces
           /\ (\A i \in 1..Pieces : buffer[i] = NoPid) => Available = 0
<1> DEFINE S == {i \in 1..Pieces : buffer[i] # NoPid}
<1>1. IsFiniteSet(1..Pieces) /\ Cardinality(1..Pieces) = Pieces
  BY FS_Interval
<1>2. IsFiniteSet(S) /\ Cardinality(S) <= Pieces
  BY <1>1, FS_Subset
<1>3. Cardinality(S) \in Nat
  BY <1>2, FS_CardinalityType
<1>4. ASSUME \A i \in 1..Pieces : buffer[i] = NoPid
      PROVE  Cardinality(S) = 0
  BY <1>4, FS_EmptySet, S = {}
<1> QED BY <1>2, <1>3, <1>4 DEF Available

-----------------------------------------------------------------------------
(* The steps of hello_switch. *)

LEMMA SwitchKeeps ==
    ASSUME NEW c \in Cpus, NEW p \in Procs \union {Idle}, IInv, Switch(c, p)
    PROVE  IInv'
<1> USE DEF IInv, Switch, probeVars, readerVars
<1>1. TypeOK'
  BY DEF TypeOK
<1>2. InKernelRuns'
  BY DEF TypeOK, InKernelRuns
<1>3. AnnouncedWasWritten'
  BY DEF TypeOK, AnnouncedWasWritten, Formatting
<1>4. LockProtectsBuffer'
  BY DEF TypeOK, LockProtectsBuffer, Formatting, Copying, InKernelRuns
<1>5. BufferIsWhole'
  BY DEF TypeOK, BufferIsWhole, Formatting
<1>6. PrefixIsNew'
  BY DEF TypeOK, PrefixIsNew, Formatting
<1>7. CopyIsOfBuffer'
  BY DEF TypeOK, CopyIsOfBuffer
<1> QED BY <1>1, <1>2, <1>3, <1>4, <1>5, <1>6, <1>7

LEMMA CompareKeeps ==
    ASSUME NEW c \in Cpus, IInv, Compare(c)
    PROVE  IInv'
<1> USE DEF IInv, Compare, readerVars
<1>1. TypeOK'
  BY DEF TypeOK
<1>2. InKernelRuns'
  BY DEF TypeOK, InKernelRuns
<1>3. AnnouncedWasWritten'
  BY DEF TypeOK, AnnouncedWasWritten, Formatting
<1>4. LockProtectsBuffer'
  <2>1. on[c] # Idle => ppc[on[c]] = "user"
    BY DEF TypeOK, InKernelRuns
  <2> QED BY <2>1 DEF TypeOK, LockProtectsBuffer, Formatting, Copying
<1>5. BufferIsWhole'
  BY DEF TypeOK, BufferIsWhole, Formatting
<1>6. PrefixIsNew'
  BY DEF TypeOK, PrefixIsNew, Formatting
<1>7. CopyIsOfBuffer'
  BY DEF TypeOK, CopyIsOfBuffer
<1> QED BY <1>1, <1>2, <1>3, <1>4, <1>5, <1>6, <1>7

LEMMA LockToFormatKeeps ==
    ASSUME NEW c \in Cpus, IInv, LockToFormat(c)
    PROVE  IInv'
<1> USE DEF IInv, LockToFormat, readerVars
<1>1. TypeOK'
  BY DEF TypeOK
<1>2. InKernelRuns'
  BY DEF TypeOK, InKernelRuns
<1>3. AnnouncedWasWritten'
  BY DEF TypeOK, AnnouncedWasWritten, Formatting
<1>4. LockProtectsBuffer'
  BY DEF TypeOK, LockProtectsBuffer, Formatting, Copying
<1>5. BufferIsWhole'
  BY DEF TypeOK, BufferIsWhole, Formatting
<1>6. PrefixIsNew'
  BY DEF TypeOK, PrefixIsNew, Formatting, BufferIsWhole, LockProtectsBuffer
<1>7. CopyIsOfBuffer'
  BY DEF TypeOK, CopyIsOfBuffer
<1> QED BY <1>1, <1>2, <1>3, <1>4, <1>5, <1>6, <1>7

LEMMA FormatKeeps ==
    ASSUME NEW c \in Cpus, IInv, Format(c)
    PROVE  IInv'
<1> USE DEF IInv, Format, readerVars
<1>0. lock = c /\ Formatting(c) /\ \A p \in Procs : ppc[p] # "copy"
  <2>1. lock = c /\ Formatting(c)
    BY DEF LockProtectsBuffer, Formatting
  <2>2. ASSUME NEW p \in Procs, ppc[p] = "copy" PROVE FALSE
    <3>1. PICK d \in Cpus : on[d] = p /\ hpc[d] = "out"
      BY <2>2 DEF InKernelRuns
    <3> QED BY <2>1, <2>2, <3>1 DEF LockProtectsBuffer, Formatting, Copying
  <2> QED BY <2>1, <2>2
<1>1. TypeOK'
  <2>1. CASE hpos[c] < Pieces
    <3>1. hpos[c] + 1 \in 1..Pieces /\ hpid[c] \in Procs \union {NoPid}
      BY <2>1 DEF TypeOK
    <3>2. hpos' \in [Cpus -> 0..Pieces]
      <4>1. hpos' = [hpos EXCEPT ![c] = hpos[c] + 1]
        BY <2>1
      <4>2. hpos[c] + 1 \in 0..Pieces /\ hpos \in [Cpus -> 0..Pieces]
        BY <3>1 DEF TypeOK
      <4> HIDE DEF IInv, Format
      <4> QED BY <4>1, <4>2
    <3>3. buffer' \in [1..Pieces -> Procs \union {NoPid}]
      BY <2>1, <3>1 DEF TypeOK
    <3> QED BY <2>1, <3>2, <3>3 DEF TypeOK
  <2>2. CASE ~(hpos[c] < Pieces)
    <3>1. 0 \in 0..Pieces
      OBVIOUS
    <3>2. hpos' \in [Cpus -> 0..Pieces]
      BY <2>2, <3>1 DEF TypeOK
    <3> QED BY <2>2, <3>2 DEF TypeOK
  <2> QED BY <2>1, <2>2
<1>2. InKernelRuns'
  BY DEF TypeOK, InKernelRuns
<1>3. AnnouncedWasWritten'
  BY DEF TypeOK, AnnouncedWasWritten, Formatting
<1>4. LockProtectsBuffer'
  BY <1>0 DEF TypeOK, LockProtectsBuffer, Formatting, Copying
<1>5. BufferIsWhole'
  BY <1>0 DEF TypeOK, BufferIsWhole, Formatting, PrefixIsNew
<1>6. PrefixIsNew'
  <2>1. \A d \in Cpus : d # c => ~Formatting(d)
    BY <1>0 DEF LockProtectsBuffer
  <2>2. \A d \in Cpus : d # c => hpos'[d] = 0 /\ ~Formatting(d)'
    BY <2>1 DEF TypeOK, PrefixIsNew, Formatting
  <2>3. CASE hpos[c] < Pieces
    <3>1. hpos'[c] = hpos[c] + 1 /\ hpid'[c] = hpid[c] /\ Formatting(c)'
      BY <1>0, <2>3 DEF TypeOK, Formatting
    <3>2. \A i \in 1..Pieces :
             buffer'[i] = IF i = hpos[c] + 1 THEN hpid[c] ELSE buffer[i]
      BY <2>3 DEF TypeOK
    <3>3. hpos[c] \in 0..Pieces
      BY DEF TypeOK
    <3> QED BY <1>0, <2>2, <3>1, <3>2, <3>3 DEF PrefixIsNew
  <2>4. CASE ~(hpos[c] < Pieces)
    BY <2>2, <2>4 DEF TypeOK, PrefixIsNew, Formatting
  <2> QED BY <2>3, <2>4
<1>7. CopyIsOfBuffer'
  BY <1>0 DEF TypeOK, CopyIsOfBuffer
<1> QED BY <1>1, <1>2, <1>3, <1>4, <1>5, <1>6, <1>7

-----------------------------------------------------------------------------
(* The calls of processes. *)

LEMMA WritePidKeeps ==
    ASSUME NEW c \in Cpus, NEW p \in Procs, NEW q \in Procs, IInv, WritePid(c, p, q)
    PROVE  IInv'
<1> USE DEF IInv, Runs, WritePid, probeVars, readerVars
<1>1. TypeOK'
  BY DEF TypeOK
<1>2. InKernelRuns'
  BY DEF TypeOK, InKernelRuns
<1>3. AnnouncedWasWritten'
  BY DEF TypeOK, AnnouncedWasWritten, Formatting
<1>4. LockProtectsBuffer'
  BY DEF TypeOK, LockProtectsBuffer, Formatting, Copying
<1>5. BufferIsWhole'
  BY DEF BufferIsWhole, Formatting
<1>6. PrefixIsNew'
  BY DEF PrefixIsNew, Formatting
<1>7. CopyIsOfBuffer'
  BY DEF TypeOK, CopyIsOfBuffer
<1> QED BY <1>1, <1>2, <1>3, <1>4, <1>5, <1>6, <1>7

LEMMA ReopenKeeps ==
    ASSUME NEW c \in Cpus, NEW p \in Procs, IInv, Reopen(c, p)
    PROVE  IInv'
<1> USE DEF IInv, Runs, Reopen, probeVars
<1>1. TypeOK'
  BY DEF TypeOK
<1>2. InKernelRuns'
  BY DEF TypeOK, InKernelRuns
<1>3. AnnouncedWasWritten'
  BY DEF TypeOK, AnnouncedWasWritten, Formatting
<1>4. LockProtectsBuffer'
  BY DEF TypeOK, LockProtectsBuffer, Formatting, Copying
<1>5. BufferIsWhole'
  BY DEF BufferIsWhole, Formatting
<1>6. PrefixIsNew'
  BY DEF PrefixIsNew, Formatting
<1>7. CopyIsOfBuffer'
  BY DEF TypeOK, CopyIsOfBuffer
<1> QED BY <1>1, <1>2, <1>3, <1>4, <1>5, <1>6, <1>7

LEMMA BeginReadKeeps ==
    ASSUME NEW c \in Cpus, NEW p \in Procs, NEW n \in 1..Pieces, IInv, BeginRead(c, p, n)
    PROVE  IInv'
<1> USE DEF IInv, Runs, BeginRead, probeVars
<1>1. TypeOK'
  BY DEF TypeOK
<1>2. InKernelRuns'
  BY DEF TypeOK, InKernelRuns
<1>3. AnnouncedWasWritten'
  BY DEF TypeOK, AnnouncedWasWritten, Formatting
<1>4. LockProtectsBuffer'
  BY DEF TypeOK, LockProtectsBuffer, Formatting, Copying
<1>5. BufferIsWhole'
  BY DEF BufferIsWhole, Formatting
<1>6. PrefixIsNew'
  BY DEF PrefixIsNew, Formatting
<1>7. CopyIsOfBuffer'
  BY DEF TypeOK, CopyIsOfBuffer
<1> QED BY <1>1, <1>2, <1>3, <1>4, <1>5, <1>6, <1>7

LEMMA LockToReadKeeps ==
    ASSUME NEW c \in Cpus, NEW p \in Procs, IInv, LockToRead(c, p)
    PROVE  IInv'
<1> USE DEF IInv, Runs, LockToRead, probeVars
<1>1. TypeOK'
  BY DEF TypeOK
<1>2. InKernelRuns'
  BY DEF TypeOK, InKernelRuns
<1>3. AnnouncedWasWritten'
  BY DEF TypeOK, AnnouncedWasWritten, Formatting
<1>4. LockProtectsBuffer'
  <2>1. \A d \in Cpus : d # c => on[d] # p
    BY DEF TypeOK, InKernelRuns
  <2> QED BY <2>1 DEF TypeOK, LockProtectsBuffer, Formatting, Copying
<1>5. BufferIsWhole'
  BY DEF BufferIsWhole, Formatting
<1>6. PrefixIsNew'
  BY DEF PrefixIsNew, Formatting
<1>7. CopyIsOfBuffer'
  BY DEF TypeOK, CopyIsOfBuffer
<1> QED BY <1>1, <1>2, <1>3, <1>4, <1>5, <1>6, <1>7

LEMMA CopyPieceKeeps ==
    ASSUME NEW c \in Cpus, NEW p \in Procs, IInv, CopyPiece(c, p)
    PROVE  IInv'
<1> USE DEF IInv, Runs, CopyPiece, probeVars
<1>0. /\ buffer[1] \in Procs
      /\ \A i \in 1..Pieces : buffer[i] = buffer[1]
      /\ ppos[p] + Len(part[p]) + 1 \in 1..Pieces
  <2>1. lock = c
    BY DEF LockProtectsBuffer, Copying
  <2>2. \A d \in Cpus : ~Formatting(d)
    BY <2>1 DEF LockProtectsBuffer, Formatting
  <2>3. \A i \in 1..Pieces : buffer[i] = buffer[1]
    BY <2>2 DEF BufferIsWhole
  <2>4. ppos[p] \in 0..Pieces /\ Len(part[p]) \in Nat /\ Available \in Nat
    BY AvailableIsBounded DEF TypeOK
  <2>5. Available > 0 /\ ppos[p] + Len(part[p]) + 1 <= Pieces
    BY <2>4, AvailableIsBounded
  <2>6. buffer[1] # NoPid
    BY <2>3, <2>5, AvailableIsBounded
  <2> QED BY <2>3, <2>4, <2>5, <2>6 DEF TypeOK
<1>01. part' = [part EXCEPT ![p] = Append(part[p], buffer[1])]
  BY <1>0
<1>02. /\ part[p] \in Seq(Procs) /\ Len(part[p]) \in Nat
       /\ Append(part[p], buffer[1]) \in Seq(Procs)
       /\ Len(Append(part[p], buffer[1])) = Len(part[p]) + 1
       /\ \A i \in 1..Len(part[p]) + 1 : Append(part[p], buffer[1])[i] =
             IF i = Len(part[p]) + 1 THEN buffer[1] ELSE part[p][i]
  BY <1>0, AppendProperties DEF TypeOK
<1>1. TypeOK'
  <2>1. part' \in [Procs -> Seq(Procs)]
    BY <1>01, <1>02 DEF TypeOK
  <2>2. want[p] - 1 \in 0..Pieces
    BY DEF TypeOK
  <2>3. want' \in [Procs -> 0..Pieces]
    BY <2>2 DEF TypeOK
  <2> QED BY <2>1, <2>3 DEF TypeOK
<1>2. InKernelRuns'
  BY DEF TypeOK, InKernelRuns
<1>3. AnnouncedWasWritten'
  BY DEF TypeOK, AnnouncedWasWritten, Formatting
<1>4. LockProtectsBuffer'
  BY DEF TypeOK, LockProtectsBuffer, Formatting, Copying
<1>5. BufferIsWhole'
  BY DEF BufferIsWhole, Formatting
<1>6. PrefixIsNew'
  BY DEF PrefixIsNew, Formatting
<1>7. CopyIsOfBuffer'
  <2>1. part'[p] = Append(part[p], buffer[1])
    BY <1>01 DEF TypeOK
  <2>2. \A q \in Procs : q # p => part'[q] = part[q]
    BY <1>01 DEF TypeOK
  <2>3. ppos[p] + (Len(part[p]) + 1) <= Pieces
    BY <1>0, <1>02 DEF TypeOK
  <2>4. \A i \in 1..Len(part'[p]) : part'[p][i] = buffer[1]
    BY <1>02, <2>1 DEF CopyIsOfBuffer
  <2> QED BY <1>02, <2>1, <2>2, <2>3, <2>4 DEF CopyIsOfBuffer
<1> QED BY <1>1, <1>2, <1>3, <1>4, <1>5, <1>6, <1>7

LEMMA EndReadKeeps ==
    ASSUME NEW c \in Cpus, NEW p \in Procs, IInv, EndRead(c, p)
    PROVE  IInv'
<1> USE DEF IInv, Runs, EndRead, probeVars
<1>0. /\ ppos[p] + Len(part[p]) \in 0..Pieces
      /\ <<>> \in Seq(Procs) /\ Len(<<>>) = 0
  BY DEF TypeOK, CopyIsOfBuffer
<1>1. TypeOK'
  BY <1>0 DEF TypeOK
<1>2. InKernelRuns'
  BY DEF TypeOK, InKernelRuns
<1>3. AnnouncedWasWritten'
  BY DEF TypeOK, AnnouncedWasWritten, Formatting
<1>4. LockProtectsBuffer'
  <2>1. lock = c /\ \A d \in Cpus : d # c => on[d] # p
    BY DEF TypeOK, InKernelRuns, LockProtectsBuffer, Copying
  <2> QED BY <2>1 DEF TypeOK, LockProtectsBuffer, Formatting, Copying
<1>5. BufferIsWhole'
  BY DEF BufferIsWhole, Formatting
<1>6. PrefixIsNew'
  BY DEF PrefixIsNew, Formatting
<1>7. CopyIsOfBuffer'
  BY <1>0 DEF TypeOK, CopyIsOfBuffer
<1> QED BY <1>1, <1>2, <1>3, <1>4, <1>5, <1>6, <1>7

-----------------------------------------------------------------------------
LEMMA StepKeepsIInv == IInv /\ [Next]_vars => IInv'
<1> SUFFICES ASSUME IInv, [Next]_vars PROVE IInv'
  OBVIOUS
<1>1. CASE UNCHANGED vars
  BY <1>1 DEF vars, probeVars, readerVars, IInv, TypeOK, InKernelRuns,
     AnnouncedWasWritten, LockProtectsBuffer, BufferIsWhole, PrefixIsNew,
     CopyIsOfBuffer, Formatting, Copying
<1>2. CASE Next
  <2> PICK c \in Cpus : CpuStep(c)
    BY <1>2 DEF Next
  <2>1. CASE \E p \in Procs \union {Idle} : Switch(c, p)
    BY <2>1, SwitchKeeps
  <2>2. CASE Probe(c)
    BY <2>2, CompareKeeps, LockToFormatKeeps, FormatKeeps DEF Probe
  <2>3. ASSUME NEW p \in Procs,
               \/ \E q \in Procs : WritePid(c, p, q)
               \/ Reopen(c, p)
               \/ \E n \in 1..Pieces : BeginRead(c, p, n)
        PROVE  IInv'
    BY <2>3, WritePidKeeps, ReopenKeeps, BeginReadKeeps
  <2>4. ASSUME NEW p \in Procs, ReadStep(c, p)
        PROVE  IInv'
    BY <2>4, LockToReadKeeps, CopyPieceKeeps, EndReadKeeps DEF ReadStep
  <2> QED BY <2>1, <2>2, <2>3, <2>4 DEF CpuStep
<1> QED BY <1>1, <1>2

(* In every reachable state the types, the lock, the buffer and what calls *)
(* have copied fit together as IInv says.                                  *)
THEOREM InvariantCorrect == Spec => []IInv
<1>1. Init => IInv
  BY InitIInv
<1>2. IInv /\ [Next]_vars => IInv'
  BY StepKeepsIInv
<1> QED BY <1>1, <1>2, PTL DEF Spec

(* Every variable keeps its type: no piece is written or copied beyond the *)
(* end of the message, however short and long reads mix.                   *)
THEOREM TypeCorrect == Spec => []TypeOK
<1>1. IInv => TypeOK
  BY DEF IInv
<1> QED BY <1>1, InvariantCorrect, PTL

(* buffer_lock is held by exactly the CPU that formats in hello_switch or  *)
(* copies in message_read, however many CPUs switch and read.              *)
THEOREM LockCorrect == Spec => []LockProtectsBuffer
<1>1. IInv => LockProtectsBuffer
  BY DEF IInv
<1> QED BY <1>1, InvariantCorrect, PTL

(* Outside hello_switch's snprintf the buffer is one whole announcement or *)
(* empty, into however many pieces formatting and copying fall.            *)
THEOREM WholeCorrect == Spec => []BufferIsWhole
<1>1. IInv => BufferIsWhole
  BY DEF IInv
<1> QED BY <1>1, InvariantCorrect, PTL

-----------------------------------------------------------------------------
(* Refinement: each step is a step of the register or leaves it alone.     *)

LEMMA FormatAnnounces ==
    ASSUME NEW c \in Cpus, IInv, Format(c)
    PROVE  Register!Next \/ UNCHANGED Register!vars
<1> USE DEF Format, readerVars, Register!Next, Register!Announce, Register!vars
<1>1. CASE hpos[c] = 0
  <2>1. hpid[c] \in written /\ hpid[c] \in Procs
    BY DEF IInv, TypeOK, AnnouncedWasWritten, Formatting
  <2>2. buffer'[1] = hpid[c]
    BY <1>1 DEF IInv, TypeOK
  <2>3. Register!Announce(hpid[c])
    BY <2>1, <2>2
  <2> QED BY <2>1, <2>3
<1>2. CASE hpos[c] # 0
  <2>1. hpos[c] \in 0..Pieces
    BY DEF IInv, TypeOK
  <2>2. buffer'[1] = buffer[1]
    BY <1>2, <2>1 DEF IInv, TypeOK
  <2> QED BY <2>2
<1> QED BY <1>1, <1>2

LEMMA EndReadFetches ==
    ASSUME NEW c \in Cpus, NEW p \in Procs, IInv, EndRead(c, p)
    PROVE  Register!Next
<1> DEFINE n == Len(part[p])
<1>1. part[p] \in Seq(Procs) /\ n \in 0..Pieces
  BY DEF IInv, TypeOK, CopyIsOfBuffer
<1>2. \A i \in 1..n : part[p][i] = buffer[1]
  BY DEF IInv, CopyIsOfBuffer, EndRead
<1>3. part[p] = [i \in 1..n |-> buffer[1]]
  BY <1>1, <1>2
<1>4. ASSUME buffer[1] = NoPid PROVE n = 0
  <2>1. SUFFICES ASSUME n # 0 PROVE FALSE
    OBVIOUS
  <2>2. part[p][1] \in Procs /\ part[p][1] = buffer[1]
    BY <1>1, <1>2, <2>1
  <2> QED BY <1>4, <2>2
<1>5. got' = [got EXCEPT ![p] = [i \in 1..n |-> buffer[1]]]
  BY <1>3 DEF EndRead
<1>6. UNCHANGED <<written, buffer>>
  BY DEF EndRead
<1>7. Register!Fetch(p)
  BY <1>1, <1>4, <1>5, <1>6 DEF Register!Fetch
<1> QED BY <1>7 DEF Register!Next

LEMMA StepRefines ==
    IInv /\ [Next]_vars => Register!Next \/ UNCHANGED Register!vars
<1> SUFFICES ASSUME IInv, [Next]_vars
             PROVE  Register!Next \/ UNCHANGED Register!vars
  OBVIOUS
<1> USE DEF Register!vars
<1>1. CASE UNCHANGED vars
  BY <1>1 DEF vars, readerVars
<1>2. CASE Next
  <2> PICK c \in Cpus : CpuStep(c)
    BY <1>2 DEF Next
  <2>1. CASE \E p \in Procs \union {Idle} : Switch(c, p)
    BY <2>1 DEF Switch, readerVars
  <2>2. CASE Compare(c) \/ LockToFormat(c)
    BY <2>2 DEF Compare, LockToFormat, readerVars
  <2>3. CASE Format(c)
    BY <2>3, FormatAnnounces
  <2>4. ASSUME NEW p \in Procs, NEW q \in Procs, WritePid(c, p, q)
        PROVE  Register!Next
    BY <2>4 DEF WritePid, readerVars, Register!Next, Register!Retarget
  <2>5. ASSUME NEW p \in Procs,
               \/ Reopen(c, p) \/ \E n \in 1..Pieces : BeginRead(c, p, n)
               \/ LockToRead(c, p) \/ CopyPiece(c, p)
        PROVE  UNCHANGED Register!vars
    BY <2>5 DEF Reopen, BeginRead, LockToRead, CopyPiece
  <2>6. ASSUME NEW p \in Procs, EndRead(c, p)
        PROVE  Register!Next
    BY <2>6, EndReadFetches
  <2> QED BY <2>1, <2>2, <2>3, <2>4, <2>5, <2>6 DEF CpuStep, Probe, ReadStep
<1> QED BY <1>1, <1>2

(* The message file, written piece by piece from the scheduler of every    *)
(* CPU and read by any number of processes, implements one atomic register.*)
THEOREM RegisterCorrect == Spec => ActsAsRegister
<1>1. Init => Register!Init
  BY DEF Init, Register!Init
<1>2. IInv /\ [Next]_vars => [Register!Next]_(Register!vars)
  BY StepRefines
<1> QED BY <1>1, <1>2, InvariantCorrect, PTL DEF Spec, ActsAsRegister, Register!Spec

-----------------------------------------------------------------------------
(* With the sampling timer.                                                *)

LEMMA SampledStep == [SampledNext]_allVars => [Next]_vars
  BY DEF SampledNext, Next, Expire, Callback, ReadLocal, CallRemote, AnswerRemote,
         allVars

(* The timer reads and waits, but changes nothing the announcement and its *)
(* readers rely on: types, lock and buffer fit together as before.         *)
THEOREM SampledInvariantCorrect == SampledSpec => []IInv
<1>1. SampledInit => IInv
  BY InitIInv DEF SampledInit
<1>2. IInv /\ [SampledNext]_allVars => IInv'
  BY SampledStep, StepKeepsIInv
<1> QED BY <1>1, <1>2, PTL DEF SampledSpec

(* Interrupted wherever interrupts are on, even with the lock held, the    *)
(* message file is still one atomic register.                              *)
THEOREM SampledRegisterCorrect == SampledSpec => ActsAsRegister
<1>1. SampledInit => Register!Init
  BY DEF SampledInit, Init, Register!Init
<1>2. IInv /\ [SampledNext]_allVars => [Register!Next]_(Register!vars)
  BY SampledStep, StepRefines
<1> QED BY <1>1, <1>2, SampledInvariantCorrect, PTL
        DEF SampledSpec, ActsAsRegister, Register!Spec

(* The callback never interrupts hello_switch, and waits for another CPU   *)
(* only.                                                                   *)
SampleInv ==
    /\ timerCpu \in Cpus /\ eventCpu \in Cpus /\ irq \in {"idle", "read", "wait"}
    /\ irq # "idle" => hpc[timerCpu] = "out"
    /\ irq = "wait" => eventCpu # timerCpu

LEMMA ElsewhereStays ==
    ASSUME IInv, NEW c \in Cpus, CpuStep(c), NEW d \in Cpus, d # c
    PROVE  hpc'[d] = hpc[d] /\ on'[d] = on[d]
  BY DEF IInv, TypeOK, CpuStep, Switch, Probe, Compare, LockToFormat, Format,
         WritePid, Reopen, BeginRead, ReadStep, LockToRead, CopyPiece, EndRead,
         Runs, probeVars

LEMMA SampleInvCorrect == SampledSpec => []SampleInv
<1>1. SampledInit => SampleInv
  BY DEF SampledInit, SampleInv
<1>2. IInv /\ SampleInv /\ [SampledNext]_allVars => SampleInv'
  <2> SUFFICES ASSUME IInv, SampleInv, [SampledNext]_allVars PROVE SampleInv'
    OBVIOUS
  <2> USE DEF SampleInv
  <2>1. ASSUME NEW c \in Cpus, Uninterrupted(c), CpuStep(c), UNCHANGED sampleVars
        PROVE  SampleInv'
    <3>1. CASE irq = "idle"
      BY <2>1, <3>1 DEF sampleVars
    <3>2. CASE c # timerCpu
      BY <2>1, <3>2, ElsewhereStays DEF sampleVars
    <3> QED BY <2>1, <3>1, <3>2 DEF Uninterrupted
  <2>2. CASE Expire
    BY <2>2 DEF Expire, InterruptsOn, vars, probeVars
  <2>3. CASE Callback
    BY <2>3 DEF Callback, ReadLocal, CallRemote, AnswerRemote, vars, probeVars
  <2>4. CASE UNCHANGED allVars
    BY <2>4 DEF allVars, sampleVars, vars, probeVars
  <2> QED BY <2>1, <2>2, <2>3, <2>4 DEF SampledNext
<1> QED BY <1>1, <1>2, SampledInvariantCorrect, PTL DEF SampledSpec

-----------------------------------------------------------------------------
(* The circle: the callback waits for eventCpu, which spins in hello_switch *)
(* for the lock, which the interrupted CPU holds.                          *)
Circle == irq = "wait" /\ hpc[eventCpu] = "lock" /\ lock = timerCpu

LEMMA CircleStep ==
    IInv /\ SampleInv /\ Circle /\ [SampledNext]_allVars => Circle'
<1> SUFFICES ASSUME IInv, SampleInv, Circle, [SampledNext]_allVars PROVE Circle'
  OBVIOUS
<1> USE DEF Circle, SampleInv
<1>1. ASSUME NEW c \in Cpus, Uninterrupted(c), CpuStep(c), UNCHANGED sampleVars
      PROVE  Circle'
  <2>1. c # timerCpu /\ lock # c /\ lock # Free
    BY <1>1 DEF Uninterrupted
  <2>2. ~Formatting(c) /\ ~Copying(c)
    BY <2>1 DEF IInv, LockProtectsBuffer
  <2>3. \/ \E p \in Procs \union {Idle} : Switch(c, p)
        \/ Compare(c)
        \/ \E p \in Procs : \/ \E q \in Procs : WritePid(c, p, q)
                            \/ Reopen(c, p)
                            \/ \E n \in 1..Pieces : BeginRead(c, p, n)
    <3>1. ~Format(c) /\ ~LockToFormat(c)
      BY <2>1, <2>2 DEF Format, LockToFormat, Formatting
    <3>2. \A p \in Procs : ~ReadStep(c, p)
      BY <2>1, <2>2 DEF ReadStep, LockToRead, CopyPiece, EndRead, Runs, Copying,
                        IInv, TypeOK
    <3> QED BY <1>1, <3>1, <3>2 DEF CpuStep, Probe
  <2>4. lock' = lock /\ (c = eventCpu => FALSE)
    BY <2>3 DEF Switch, Compare, WritePid, Reopen, BeginRead, Runs, probeVars, readerVars
  <2>5. hpc'[eventCpu] = hpc[eventCpu]
    BY <1>1, <2>4, ElsewhereStays
  <2> QED BY <1>1, <2>4, <2>5 DEF sampleVars
<1>2. CASE Expire \/ Callback
  BY <1>2 DEF Expire, Callback, ReadLocal, CallRemote, AnswerRemote, InterruptsOn
<1>3. CASE UNCHANGED allVars
  BY <1>3 DEF allVars, sampleVars, vars, probeVars
<1> QED BY <1>1, <1>2, <1>3 DEF SampledNext

(* Once closed, the circle never opens: the sample, the switch on the CPU  *)
(* of the counters and the interrupted reader wait for each other for ever.*)
THEOREM CircleIsForEver == SampledSpec => [](Circle => []Circle)
<1> QED BY CircleStep, SampledInvariantCorrect, SampleInvCorrect, PTL DEF SampledSpec

(* It is always a reader in message_read that was interrupted with the     *)
(* lock held: hello_switch, which runs with interrupts off, never is.      *)
THEOREM CircleNeedsReader == SampledSpec => [](Circle => Copying(timerCpu))
<1>1. IInv /\ SampleInv => (Circle => Copying(timerCpu))
  BY DEF IInv, SampleInv, LockProtectsBuffer, Circle, Formatting
<1> QED BY <1>1, SampledInvariantCorrect, SampleInvCorrect, PTL

(* CPU c is inside the probe or has the lock to copy, and its next         *)
(* statement can be executed.                                              *)
CanGoOn(c) ==
    /\ Uninterrupted(c)
    /\ \/ hpc[c] \in {"compare", "format"}
       \/ hpc[c] = "lock" /\ lock = Free
       \/ Copying(c)

(* Nothing but the circle stops a sample: as long as it is open, a callback *)
(* that waits is answered at once, or the CPU it waits for can go on in    *)
(* hello_switch, or the holder of the lock that CPU spins for can go on.   *)
SampleCanGoOn ==
    irq = "wait" /\ ~Circle =>
        InterruptsOn(eventCpu) \/ CanGoOn(eventCpu)
        \/ \E d \in Cpus : lock = d /\ CanGoOn(d)

(* Reading the counters of another CPU waits for nothing but that circle:  *)
(* whatever is being announced and read, without it the sample goes on.    *)
THEOREM SampleCanGoOnCorrect == SampledSpec => []SampleCanGoOn
<1>1. IInv /\ SampleInv => SampleCanGoOn
  <2> SUFFICES ASSUME IInv, SampleInv, irq = "wait", ~Circle
               PROVE  \/ InterruptsOn(eventCpu) \/ CanGoOn(eventCpu)
                      \/ \E d \in Cpus : lock = d /\ CanGoOn(d)
    BY DEF SampleCanGoOn
  <2>1. eventCpu \in Cpus /\ eventCpu # timerCpu
    BY DEF SampleInv
  <2>2. CASE hpc[eventCpu] = "out"
    BY <2>1, <2>2 DEF InterruptsOn
  <2>3. CASE hpc[eventCpu] \in {"compare", "format"}
    BY <2>1, <2>3 DEF CanGoOn, Uninterrupted
  <2>4. CASE hpc[eventCpu] = "lock"
    <3>1. CASE lock = Free
      BY <2>1, <2>4, <3>1 DEF CanGoOn, Uninterrupted
    <3>2. CASE lock \in Cpus
      <4>1. lock # timerCpu
        BY <2>4 DEF Circle
      <4>2. Formatting(lock) \/ Copying(lock)
        BY <3>2 DEF IInv, LockProtectsBuffer
      <4> QED BY <3>2, <4>1, <4>2 DEF CanGoOn, Uninterrupted, Formatting
    <3> QED BY <3>1, <3>2 DEF IInv, TypeOK
  <2> QED BY <2>1, <2>2, <2>3, <2>4 DEF IInv, TypeOK
<1> QED BY <1>1, SampledInvariantCorrect, SampleInvCorrect, PTL
=============================================================================
