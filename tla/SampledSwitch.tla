---------------------------- MODULE SampledSwitch ----------------------------
(***************************************************************************)
(* The two halves of cache_kprobe_monitor_v2.c on one machine: the switch  *)
(* announcement of SwitchMessage and the sampling timer, whose callback    *)
(* interrupts a CPU and reads counters that may belong to another one.     *)
(* perf then asks that CPU by an inter-processor call and waits for it     *)
(* with interrupts off.                                                    *)
(***************************************************************************)
EXTENDS SwitchMessage

VARIABLES
    timerCpu,   \* where hrtimer_start queued sample_timer
    eventCpu,   \* where init_perf_counters made the events
    irq         \* the callback: "idle", "read", or "wait" for eventCpu

sampleVars == <<timerCpu, eventCpu, irq>>
allVars    == <<vars, sampleVars>>

(* The writer may migrate after put_cpu, before it arms the timer. *)
SampledInit ==
    /\ Init
    /\ timerCpu \in Cpus /\ eventCpu \in Cpus /\ irq = "idle"

(* hello_switch runs with interrupts off; a process does not, not even     *)
(* with buffer_lock held: message_read takes it with plain spin_lock.      *)
InterruptsOn(c) == hpc[c] = "out" /\ (irq = "idle" \/ c # timerCpu)

Expire ==
    /\ irq = "idle" /\ InterruptsOn(timerCpu)
    /\ irq' = "read"
    /\ UNCHANGED <<vars, timerCpu, eventCpu>>

(* perf_event_read_value: a local event is read here. *)
ReadLocal ==
    /\ irq = "read" /\ eventCpu = timerCpu
    /\ irq' = "idle"
    /\ UNCHANGED <<vars, timerCpu, eventCpu>>

(* A remote one needs smp_call_function_single(..., wait = 1). *)
CallRemote ==
    /\ irq = "read" /\ eventCpu # timerCpu
    /\ irq' = "wait"
    /\ UNCHANGED <<vars, timerCpu, eventCpu>>

AnswerRemote ==
    /\ irq = "wait" /\ InterruptsOn(eventCpu)
    /\ irq' = "idle"
    /\ UNCHANGED <<vars, timerCpu, eventCpu>>

Callback == ReadLocal \/ CallRemote \/ AnswerRemote

Uninterrupted(c) == irq = "idle" \/ c # timerCpu

SampledNext ==
    \/ \E c \in Cpus :
          Uninterrupted(c) /\ CpuStep(c) /\ UNCHANGED sampleVars
    \/ Expire \/ Callback

ProbeSteps(c)  == Uninterrupted(c) /\ Probe(c) /\ UNCHANGED sampleVars
LockSteps(c)   == Uninterrupted(c) /\ LockToFormat(c) /\ UNCHANGED sampleVars
ReaderSteps(c) ==
    /\ Uninterrupted(c) /\ \E p \in Procs : ReadStep(c, p)
    /\ UNCHANGED sampleVars

(* As in SwitchMessage; the interrupt handlers run when they can, and an   *)
(* inter-processor call is served at the first chance.                     *)
SampledFairness ==
    /\ \A c \in Cpus : /\ WF_allVars(ProbeSteps(c)) /\ SF_allVars(LockSteps(c))
                       /\ WF_allVars(ReaderSteps(c))
    /\ WF_allVars(Callback) /\ SF_allVars(AnswerRemote)

SampledSpec == SampledInit /\ [][SampledNext]_allVars /\ SampledFairness

-----------------------------------------------------------------------------
(* "sampled every second": a sample that begins is finished.               *)
SampleCompletes == irq # "idle" ~> irq = "idle"
=============================================================================
