---------------------------- MODULE SwitchMessage ----------------------------
(***************************************************************************)
(* The announcement of context switches, which test_module/kprobe_test.c   *)
(* and cache_kprobe_monitor_v2.c share: a kprobe at finish_task_switch     *)
(* runs hello_switch on the CPU that switches; when the task switched in   *)
(* has the pid target_pid it formats a message into message_buffer under   *)
(* buffer_lock.  A process writes target_pid through one proc file and     *)
(* reads the message through the other, also under buffer_lock.            *)
(*                                                                         *)
(* A CPU runs one process or none.  hello_switch runs with interrupts off, *)
(* and a process that spins for or holds the lock is not preempted, so a   *)
(* CPU does one thing at a time; the CPUs interleave.  Formatting and      *)
(* copying are made of pieces, so that only the lock makes them atomic.    *)
(***************************************************************************)
EXTENDS Integers, Sequences, FiniteSets

CONSTANTS
    Cpus, Procs, Pieces, NoPid,
    Idle,       \* what a CPU runs when no process does
    Free        \* nobody holds buffer_lock

(* The idle task has pid 0, target_pid starts as -1. *)
ASSUME ProcsAssumption ==
    NoPid \notin Procs /\ Idle \notin Procs /\ Idle # NoPid
ASSUME CpusAssumption  == Free \notin Cpus
ASSUME PiecesAssumption == Pieces \in Nat \ {0}

VARIABLES
    on,         \* on[c], the process CPU c runs
    hpc,        \* hpc[c], where hello_switch is on c ("out" outside it)
    hpid,       \* hpid[c], the pid it formats
    hpos,       \* pieces formatted
    target_pid,
    lock,       \* the CPU that holds buffer_lock, or Free
    buffer,     \* message_buffer, by pieces
    ppc,        \* where each process is in message_read
    ppos,       \* its file position
    want,       \* pieces it still asks for
    part,       \* pieces copied by the call so far
    got,        \* what its latest read call returned
    written     \* history: pids written

probeVars  == <<hpc, hpid, hpos>>
readerVars == <<ppc, ppos, want, part, got>>
vars == <<on, probeVars, target_pid, lock, buffer, readerVars, written>>

Init ==
    /\ on = [c \in Cpus |-> Idle]
    /\ hpc = [c \in Cpus |-> "out"] /\ hpid = [c \in Cpus |-> NoPid]
    /\ hpos = [c \in Cpus |-> 0]
    /\ target_pid = NoPid /\ lock = Free
    /\ buffer = [i \in 1..Pieces |-> NoPid]
    /\ ppc = [p \in Procs |-> "user"] /\ ppos = [p \in Procs |-> 0]
    /\ want = [p \in Procs |-> 0] /\ part = [p \in Procs |-> <<>>]
    /\ got = [p \in Procs |-> <<>>]
    /\ written = {}

-----------------------------------------------------------------------------
(* hello_switch on CPU c.                                                  *)

(* The scheduler switches c to p or to idle and reaches the probed         *)
(* function before anything else happens on c.                             *)
Switch(c, p) ==
    /\ hpc[c] = "out" /\ p # on[c]
    /\ on[c] # Idle => ppc[on[c]] = "user"
    /\ p # Idle => \A d \in Cpus : on[d] # p
    /\ on' = [on EXCEPT ![c] = p]
    /\ hpc' = [hpc EXCEPT ![c] = "compare"]
    /\ UNCHANGED <<hpid, hpos, target_pid, lock, buffer, readerVars, written>>

(* next_task->pid == target_pid *)
Compare(c) ==
    /\ hpc[c] = "compare"
    /\ IF on[c] = target_pid
       THEN hpc' = [hpc EXCEPT ![c] = "lock"]
       ELSE hpc' = [hpc EXCEPT ![c] = "out"]
    /\ UNCHANGED <<on, hpid, hpos, target_pid, lock, buffer, readerVars,
                   written>>

(* Seeded fault: the message is formatted without taking the lock. *)
FormatUnlocked(c) ==
    /\ hpc[c] = "lock"
    /\ hpid' = [hpid EXCEPT ![c] = target_pid]
    /\ hpc' = [hpc EXCEPT ![c] = "format"]
    /\ UNCHANGED <<on, hpos, target_pid, lock, buffer, readerVars, written>>

(* spin_lock, then the argument of snprintf: target_pid is read again. *)
LockToFormat(c) ==
    /\ hpc[c] = "lock" /\ lock = Free
    /\ lock' = c
    /\ hpid' = [hpid EXCEPT ![c] = target_pid]
    /\ hpc' = [hpc EXCEPT ![c] = "format"]
    /\ UNCHANGED <<on, hpos, target_pid, buffer, readerVars, written>>

(* Seeded fault: target_pid is read again for every piece. *)
FormatRereading(c) ==
    /\ hpc[c] = "format"
    /\ IF hpos[c] < Pieces
       THEN /\ hpos' = [hpos EXCEPT ![c] = @ + 1]
            /\ buffer' = [buffer EXCEPT ![hpos[c] + 1] = target_pid]
            /\ UNCHANGED <<hpc, hpid, lock>>
       ELSE /\ hpos' = [hpos EXCEPT ![c] = 0]
            /\ hpid' = [hpid EXCEPT ![c] = NoPid]
            /\ hpc' = [hpc EXCEPT ![c] = "out"]
            /\ lock' = Free /\ UNCHANGED buffer
    /\ UNCHANGED <<on, target_pid, readerVars, written>>

(* Seeded fault: the last piece leaves the lock held. *)
FormatKeepingLock(c) ==
    /\ hpc[c] = "format"
    /\ hpos[c] < Pieces
    /\ buffer' = [buffer EXCEPT ![hpos[c] + 1] = hpid[c]]
    /\ IF hpos[c] + 1 = Pieces
       THEN hpos' = [hpos EXCEPT ![c] = 0] /\ hpc' = [hpc EXCEPT ![c] = "out"]
       ELSE hpos' = [hpos EXCEPT ![c] = @ + 1] /\ UNCHANGED hpc
    /\ UNCHANGED <<on, hpid, target_pid, lock, readerVars, written>>

(* Seeded fault: one piece more than the buffer has. *)
FormatOverrun(c) ==
    /\ hpc[c] = "format"
    /\ hpos' = [hpos EXCEPT ![c] = @ + 1]
    /\ buffer' = [buffer EXCEPT ![hpos[c] + 1] = hpid[c]]
    /\ hpc' = [hpc EXCEPT ![c] = IF hpos[c] <= Pieces THEN "format" ELSE "out"]
    /\ UNCHANGED <<on, hpid, target_pid, lock, readerVars, written>>

(* snprintf stores piece after piece; spin_unlock follows the last. *)
Format(c) ==
    /\ hpc[c] = "format"
    /\ IF hpos[c] < Pieces
       THEN /\ hpos' = [hpos EXCEPT ![c] = @ + 1]
            /\ buffer' = [buffer EXCEPT ![hpos[c] + 1] = hpid[c]]
            /\ UNCHANGED <<hpc, hpid, lock>>
       ELSE /\ hpos' = [hpos EXCEPT ![c] = 0]
            /\ hpid' = [hpid EXCEPT ![c] = NoPid]
            /\ hpc' = [hpc EXCEPT ![c] = "out"]
            /\ lock' = Free /\ UNCHANGED buffer
    /\ UNCHANGED <<on, target_pid, readerVars, written>>

-----------------------------------------------------------------------------
(* System calls of process p, which runs on CPU c.                         *)

Runs(c, p) == on[c] = p /\ hpc[c] = "out"

(* pid_write: a number that parses goes to target_pid, with no lock. *)
WritePid(c, p, q) ==
    /\ Runs(c, p) /\ ppc[p] = "user"
    /\ target_pid' = q /\ written' = written \union {q}
    /\ UNCHANGED <<on, probeVars, lock, buffer, readerVars>>

(* Another open of the file, at position 0. *)
Reopen(c, p) ==
    /\ Runs(c, p) /\ ppc[p] = "user" /\ ppos[p] # 0
    /\ ppos' = [ppos EXCEPT ![p] = 0]
    /\ UNCHANGED <<on, probeVars, target_pid, lock, buffer, ppc, want, part,
                   got, written>>

(* read(fd, buffer, n) *)
BeginRead(c, p, n) ==
    /\ Runs(c, p) /\ ppc[p] = "user"
    /\ ppc' = [ppc EXCEPT ![p] = "lock"]
    /\ want' = [want EXCEPT ![p] = n]
    /\ UNCHANGED <<on, probeVars, target_pid, lock, buffer, ppos, part, got,
                   written>>

(* Seeded fault: the message is copied without the lock. *)
ReadUnlocked(c, p) ==
    /\ Runs(c, p) /\ ppc[p] = "lock"
    /\ ppc' = [ppc EXCEPT ![p] = "copy"]
    /\ UNCHANGED <<on, probeVars, target_pid, lock, buffer, ppos, want, part,
                   got, written>>

(* spin_lock(&buffer_lock) *)
LockToRead(c, p) ==
    /\ Runs(c, p) /\ ppc[p] = "lock" /\ lock = Free
    /\ lock' = c
    /\ ppc' = [ppc EXCEPT ![p] = "copy"]
    /\ UNCHANGED <<on, probeVars, target_pid, buffer, ppos, want, part, got,
                   written>>

(* strlen(message_buffer), in pieces. *)
Available == Cardinality({i \in 1..Pieces : buffer[i] # NoPid})

(* simple_read_from_buffer copies min(count, available - *ppos) from *ppos. *)
CopyPiece(c, p) ==
    /\ Runs(c, p) /\ ppc[p] = "copy"
    /\ want[p] > 0 /\ ppos[p] + Len(part[p]) < Available
    /\ part' = [part EXCEPT ![p] = Append(@, buffer[ppos[p] + Len(@) + 1])]
    /\ want' = [want EXCEPT ![p] = @ - 1]
    /\ UNCHANGED <<on, probeVars, target_pid, lock, buffer, ppc, ppos, got,
                   written>>

(* Seeded fault: a call that copied nothing returns with the lock held. *)
EndReadKeepingLock(c, p) ==
    /\ Runs(c, p) /\ ppc[p] = "copy"
    /\ ppos' = [ppos EXCEPT ![p] = @ + Len(part[p])]
    /\ got' = [got EXCEPT ![p] = part[p]]
    /\ part' = [part EXCEPT ![p] = <<>>] /\ want' = [want EXCEPT ![p] = 0]
    /\ ppc' = [ppc EXCEPT ![p] = "user"]
    /\ lock' = IF part[p] = <<>> THEN lock ELSE Free
    /\ UNCHANGED <<on, probeVars, target_pid, buffer, written>>

(* The call returns what it copied.  With the spin lock held a page of the *)
(* user's buffer that is not there ends the copy early instead of being    *)
(* faulted in (PREEMPT kernels).                                           *)
EndRead(c, p) ==
    /\ Runs(c, p) /\ ppc[p] = "copy"
    /\ ppos' = [ppos EXCEPT ![p] = @ + Len(part[p])]
    /\ got' = [got EXCEPT ![p] = part[p]]
    /\ part' = [part EXCEPT ![p] = <<>>] /\ want' = [want EXCEPT ![p] = 0]
    /\ ppc' = [ppc EXCEPT ![p] = "user"]
    /\ lock' = Free
    /\ UNCHANGED <<on, probeVars, target_pid, buffer, written>>

-----------------------------------------------------------------------------
Probe(c) == Compare(c) \/ LockToFormat(c) \/ Format(c)

ReadStep(c, p) == LockToRead(c, p) \/ CopyPiece(c, p) \/ EndRead(c, p)

(* What CPU c does next. *)
CpuStep(c) ==
    \/ \E p \in Procs \union {Idle} : Switch(c, p)
    \/ Probe(c)
    \/ \E p \in Procs :
          \/ \E q \in Procs : WritePid(c, p, q)
          \/ Reopen(c, p)
          \/ \E n \in 1..Pieces : BeginRead(c, p, n)
          \/ ReadStep(c, p)

Next == \E c \in Cpus : CpuStep(c)

(* A CPU inside the kernel keeps going, and the queued spin lock serves    *)
(* whoever waits for it.                                                   *)
Fairness ==
    \A c \in Cpus :
        /\ WF_vars(Probe(c)) /\ SF_vars(LockToFormat(c))
        /\ WF_vars(\E p \in Procs : ReadStep(c, p))
        /\ SF_vars(\E p \in Procs : LockToRead(c, p))

Spec == Init /\ [][Next]_vars /\ Fairness

-----------------------------------------------------------------------------
(* The variables keep their types. *)
TypeOK ==
    /\ on \in [Cpus -> Procs \union {Idle}]
    /\ hpc \in [Cpus -> {"out", "compare", "lock", "format"}]
    /\ hpid \in [Cpus -> Procs \union {NoPid}]
    /\ hpos \in [Cpus -> 0..Pieces]
    /\ target_pid \in Procs \union {NoPid}
    /\ lock \in Cpus \union {Free}
    /\ buffer \in [1..Pieces -> Procs \union {NoPid}]
    /\ ppc \in [Procs -> {"user", "lock", "copy"}]
    /\ ppos \in [Procs -> 0..Pieces] /\ want \in [Procs -> 0..Pieces]
    /\ part \in [Procs -> Seq(Procs)] /\ got \in [Procs -> Seq(Procs)]
    /\ written \subseteq Procs

Formatting(c) == hpc[c] = "format"
Copying(c)    == on[c] # Idle /\ hpc[c] = "out" /\ ppc[on[c]] = "copy"

(* buffer_lock is held by exactly the CPU that formats or copies, so no    *)
(* two CPUs are inside at once.                                            *)
LockProtectsBuffer ==
    \A c \in Cpus : (Formatting(c) \/ Copying(c)) <=> lock = c

(* Whenever nobody formats, the buffer is one announcement, all pieces of  *)
(* it, or empty.                                                           *)
BufferIsWhole ==
    (\A c \in Cpus : ~Formatting(c)) =>
        \A i, j \in 1..Pieces : buffer[i] = buffer[j]

(* Piece by piece and under switches on every CPU, the file still behaves  *)
(* as one register: the first piece stored is where the new message takes  *)
(* effect and the end of the call is where a read does.                    *)
Register == INSTANCE AtomicMessage WITH message <- buffer[1]
ActsAsRegister == Register!Spec

(* Neither the switching CPU nor a reader spins for ever. *)
ProbeEnds == \A c \in Cpus : hpc[c] # "out" ~> hpc[c] = "out"
ReadEnds  == \A p \in Procs : ppc[p] # "user" ~> ppc[p] = "user"

(* "Hello world on context switch for PID specified by user": the pid      *)
(* being announced is that of the task being switched in.                  *)
AnnouncesSwitchedTask == \A c \in Cpus : Formatting(c) => hpid[c] = on[c]
=============================================================================
