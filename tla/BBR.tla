--------------------------------- MODULE BBR ---------------------------------
(***************************************************************************)
(* stability/ratelimit/bbr: the decisions of BBR.Allow by concurrent        *)
(* callers, one step for each atomic load or store.  Times are ages in      *)
(* ticks, Cool of them to the second of cooldown; the window's statistics   *)
(* are the module BBRStats, and here any value of Limits.                   *)
(***************************************************************************)
EXTENDS Integers, FiniteSets

CONSTANTS Callers,      \* concurrent calls of Allow
          Limits,
          Cool,         \* ticks of the cooldown
          Skew,         \* ticks a decision takes, at most
          MaxInFlight   \* bound: admitted requests at a time

VARIABLES hot,          \* cpu() >= CPUThreshold
          inFlight,
          prevDropTime, \* its age, or None
          pc,           \* of each caller
          at,           \* the age of the caller's now
          hotDrop       \* history: the age of the youngest now of a drop under load

vars == <<hot, inFlight, prevDropTime, pc, at, hotDrop>>

None == -1
Oldest == Cool + Skew + 1
Deciding(c) == pc[c] \notin {"idle", "cooldrop", "drop"}
Older(age) == IF age = None \/ age = Oldest THEN age ELSE age + 1
Younger(a, b) == IF b = None \/ a < b THEN a ELSE b
Goto(c, l) == pc' = [pc EXCEPT ![c] = l]

Init == /\ hot \in BOOLEAN /\ inFlight = 0 /\ prevDropTime = None /\ hotDrop = None
        /\ pc = [c \in Callers |-> "idle"] /\ at = [c \in Callers |-> 0]
-----------------------------------------------------------------------------
Tick == /\ \A c \in Callers : Deciding(c) => at[c] < Skew
        /\ prevDropTime' = Older(prevDropTime) /\ hotDrop' = Older(hotDrop)
        /\ at' = [c \in Callers |-> IF Deciding(c) THEN at[c] + 1 ELSE 0]
        /\ UNCHANGED <<hot, inFlight, pc>>

(* The load as cpuProc stores it, against the threshold. *)
CPU == hot' = ~hot /\ UNCHANGED <<inFlight, prevDropTime, pc, at, hotDrop>>

(* The bound: requests come while every call under way may be admitted. *)
Room == inFlight + Cardinality({c \in Callers : Deciding(c)}) < MaxInFlight

(* shouldDrop: the time, then the load. *)
Start(c) == /\ pc[c] \in {"idle", "cooldrop", "drop"} /\ Room /\ at' = [at EXCEPT ![c] = 0]
            /\ Goto(c, IF hot THEN "high" ELSE "low")
            /\ UNCHANGED <<hot, inFlight, prevDropTime, hotDrop>>

(* The faulty variant: the cooldown never ends. *)
LowForever(c) == /\ pc[c] = "low"
                 /\ Goto(c, IF prevDropTime = None THEN "admit" ELSE "cool")
                 /\ UNCHANGED <<hot, inFlight, prevDropTime, at, hotDrop>>

(* Below the threshold: never limited, in the cooldown, or past it. *)
Low(c) == /\ pc[c] = "low"
          /\ Goto(c, IF prevDropTime = None THEN "admit" ELSE IF prevDropTime - at[c] <= Cool THEN "cool" ELSE "reset")
          /\ UNCHANGED <<hot, inFlight, prevDropTime, at, hotDrop>>

(* In the cooldown the limit is maxPass(). *)
Cooling(c) == /\ pc[c] = "cool"
              /\ \E limit \in Limits : Goto(c, IF inFlight > 1 /\ inFlight > limit THEN "cooldrop" ELSE "admit")
              /\ UNCHANGED <<hot, inFlight, prevDropTime, at, hotDrop>>

ResetDrop(c) == /\ pc[c] = "reset" /\ prevDropTime' = None /\ Goto(c, "admit") /\ UNCHANGED <<hot, inFlight, at, hotDrop>>

(* Above the threshold the limit is maxInFlight(). *)
High(c) == /\ pc[c] = "high"
           /\ \E limit \in Limits : Goto(c, IF inFlight > 1 /\ inFlight > limit THEN "mark" ELSE "admit")
           /\ UNCHANGED <<hot, inFlight, prevDropTime, at, hotDrop>>

(* The drop starts the limiting, unless it has been started. *)
Mark(c) == /\ pc[c] = "mark" /\ Goto(c, IF prevDropTime = None THEN "record" ELSE "drop")
           /\ hotDrop' = Younger(at[c], hotDrop)
           /\ UNCHANGED <<hot, inFlight, prevDropTime, at>>

Record(c) == /\ pc[c] = "record" /\ prevDropTime' = at[c] /\ Goto(c, "drop") /\ UNCHANGED <<hot, inFlight, at, hotDrop>>

(* Allow: the request counts as in flight until its DoneFunc is called. *)
Admit(c) == /\ pc[c] = "admit" /\ inFlight' = inFlight + 1 /\ Goto(c, "idle")
            /\ at' = [at EXCEPT ![c] = 0] /\ UNCHANGED <<hot, prevDropTime, hotDrop>>

Done == inFlight > 0 /\ inFlight' = inFlight - 1 /\ UNCHANGED <<hot, prevDropTime, pc, at, hotDrop>>

Decide(c) == Low(c) \/ Cooling(c) \/ ResetDrop(c) \/ High(c) \/ Mark(c) \/ Record(c) \/ Admit(c)
Next == Tick \/ CPU \/ Done \/ (\E c \in Callers : Start(c) \/ Decide(c))

Fairness == (\A c \in Callers : WF_vars(Start(c)) /\ WF_vars(Decide(c))) /\ WF_vars(Done) /\ WF_vars(Tick)
Spec == Init /\ [][Next]_vars
-----------------------------------------------------------------------------
(* A drop while the load is low follows a drop under load whose time is no  *)
(* more than the cooldown before the caller's, however the loads and stores *)
(* of prevDropTime interleave.                                              *)
CoolDropsFollowHot == [][\A c \in Callers : pc[c] = "cool" /\ pc'[c] = "cooldrop" =>
                           hotDrop # None /\ hotDrop - at[c] <= Cool + Skew]_vars

(* Requests keep being admitted, whatever the limits and the load: the      *)
(* limiter counts back to one and lets the next one in.                     *)
KeepsAdmitting == []<>(\E c \in Callers : pc[c] = "admit")

(* Once the load stays low the drops end.                                   *)
DropsEnd == <>[]~hot => <>[](\A c \in Callers : pc[c] # "cool")
=============================================================================
