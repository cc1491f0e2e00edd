-------------------------- MODULE MCCounterSampling --------------------------
(* CounterSampling on a small instance.  The history counters are bounded   *)
(* by MaxTicks, which is past Width, so that counters wrap.                 *)
EXTENDS CounterSampling, TLC

Symmetry == Permutations(Cpus) \union Permutations(Tasks)
=============================================================================
