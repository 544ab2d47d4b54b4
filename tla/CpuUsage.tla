------------------------------ MODULE CpuUsage ------------------------------
(***************************************************************************)
(* stability/internal/cpu and the averaging of bbr's cpuProc: a sampler     *)
(* turns the CPU time used since the last sample into a usage of at most    *)
(* Full, and cpuProc averages what the sampler has stored.                  *)
(***************************************************************************)
EXTENDS Integers

CONSTANTS Cores, Full,          \* the machine's cores; 1000
          MaxElapsed            \* ticks between two samples, at most

VARIABLES cgroup,       \* NewCgroupCPU succeeded, or the psutil fallback
          busy,         \* CPU time since the last sample, or Wrapped: the counter went back
          elapsed,      \* time since it
          first,        \* lastSampleTime = 0
          usage, gCPU

vars == <<cgroup, busy, elapsed, first, usage, gCPU>>

Wrapped == -1
AtMost(x, y) == IF x < y THEN x ELSE y

Init == cgroup \in BOOLEAN /\ first = cgroup /\ busy = 0 /\ elapsed = 0 /\ usage = 0 /\ gCPU = 0
-----------------------------------------------------------------------------
Tick == /\ elapsed < MaxElapsed /\ elapsed' = elapsed + 1
        /\ \E b \in 0..Cores : busy' = IF busy = Wrapped THEN busy ELSE busy + b
        /\ UNCHANGED <<cgroup, first, usage, gCPU>>

(* The container's counter starts again: the difference wraps around. *)
CounterReset == cgroup /\ busy' = Wrapped /\ UNCHANGED <<cgroup, elapsed, first, usage, gCPU>>

(* CgroupCPU.Usage, from two readings of usage_usec. *)
CgroupUsage == IF busy = Wrapped THEN Full ELSE AtMost((busy * Full * Cores) \div elapsed, Full)

(* PsutilCPU.Usage: the percentage of the whole machine, times ten. *)
PsutilUsage == AtMost((busy * Full) \div (elapsed * Cores), Full)

(* The sampler's tick.  A reading that fails, the first one and one without *)
(* time in between store nothing (no step); neither does a usage of zero.   *)
SampleFirst == first /\ first' = FALSE /\ busy' = 0 /\ elapsed' = 0 /\ UNCHANGED <<cgroup, usage, gCPU>>
Sample ==
    /\ ~first /\ elapsed > 0
    /\ LET u == IF cgroup THEN CgroupUsage ELSE PsutilUsage IN
       usage' = IF u # 0 THEN u ELSE usage
    /\ busy' = 0 /\ elapsed' = 0 /\ UNCHANGED <<cgroup, first, gCPU>>

(* cpuProc: 0.95 of the average and 0.05 of the usage, truncated; where the *)
(* sum is whole and falls, the rounding of the floats may take one off.     *)
cpuProc == /\ LET u == AtMost(usage, Full)
                  sum == 19 * gCPU + u IN
              gCPU' \in IF sum % 20 = 0 /\ gCPU > u THEN {sum \div 20, sum \div 20 - 1} ELSE {sum \div 20}
           /\ UNCHANGED <<cgroup, busy, elapsed, first, usage>>

Next == Tick \/ CounterReset \/ SampleFirst \/ Sample \/ cpuProc
Fairness == WF_vars(cpuProc) /\ WF_vars(Tick) /\ WF_vars(Sample)
Spec == Init /\ [][Next]_vars
-----------------------------------------------------------------------------
(* A machine that stays saturated is seen as such: the average settles      *)
(* within the 20 that truncation loses, although each tick moves it by a    *)
(* twentieth.                                                               *)
SaturationSeen == <>[](usage = Full) => <>[](gCPU > Full - 20)

(* The average never passes what the samples have been: a counter that goes *)
(* back reads as full, not as more.                                         *)
Bounded == gCPU \in 0..Full /\ usage \in 0..Full
=============================================================================
