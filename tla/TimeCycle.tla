----------------------------- MODULE TimeCycle -----------------------------
(***************************************************************************)
(* utils/timeutil: recurring days, asked of a clock that moves.  The        *)
(* current time is put in the zone the caller names, a timestamp in the     *)
(* zone of the process, and the day's zero hour in one fixed zone.  Time is *)
(* counted in hours; zones are offsets to it.                               *)
(***************************************************************************)
EXTENDS Integers, FiniteSets

CONSTANTS HoursPerDay, TimeOffset,      \* 24; the fixed zone
          Local,                        \* the zone of the process
          Zones,                        \* the zones callers name
          MonthEnds,                    \* the days on which months begin
          MaxN,                         \* bound: the longest cycle
          Start, MaxNow                 \* bounds: the first and last hour

VARIABLES now, start, zone, n

vars == <<now, start, zone, n>>

Init == now = Start /\ start \in Start..MaxNow /\ zone \in Zones /\ n \in 1..MaxN
Tick == now < MaxNow /\ now' = now + 1 /\ UNCHANGED <<start, zone, n>>
Next == Tick
Spec == Init /\ [][Next]_vars
-----------------------------------------------------------------------------
Day(t, z) == (t + z) \div HoursPerDay
Weekday(t, z) == (Day(t, z) + 4) % 7
Month(t, z) == Cardinality({d \in MonthEnds : d <= Day(t, z)})

(* int(x / y): towards zero. *)
Trunc(x, y) == IF x >= 0 THEN x \div y ELSE -((-x) \div y)
DaysBetweenTimestamps(at, ts) == Trunc(at - ts, HoursPerDay)

IsSameWeekday(z, at, ts) == Weekday(at, z) = Weekday(ts, Local)
IsSameDayOfMonth(z, at, ts) == LET first(t, y) == CHOOSE d \in MonthEnds \cup {0} : /\ d <= Day(t, y)
                                                   /\ \A e \in MonthEnds : e <= Day(t, y) => e <= d
                               IN Day(at, z) - first(at, z) = Day(ts, Local) - first(ts, Local)
IsWeekday(ts) == Weekday(ts, Local) \in 1..5
IsNthDayCycle(at, ts, k) == DaysBetweenTimestamps(at, ts) % k = 0
IsNthWeekCycle(at, ts, k) == Trunc(DaysBetweenTimestamps(at, ts), 7) % k = 0
IsNthMonthCycle(z, at, ts, k) == (Month(at, z) - Month(ts, Local)) % k = 0

(* GetCurDayZeroTimestamp: the local date, as if it were one of UTC, less   *)
(* the fixed offset; GetCurDayHalfTimestamp lies half a day after it.       *)
GetCurDayZeroTimestamp(at) == Day(at, Local) * HoursPerDay - TimeOffset
-----------------------------------------------------------------------------
(* A task that is looked at once a day, at any hour, and runs on the days   *)
(* IsNthDayCycle says, runs once in n days from its start; one that goes by *)
(* IsNthWeekCycle runs in seven of 7n days.                                 *)
RunsOnceACycle ==
    now >= start => /\ Cardinality({k \in 0..(n - 1) : IsNthDayCycle(now + k * HoursPerDay, start, n)}) = 1
                    /\ Cardinality({k \in 0..(7 * n - 1) : IsNthWeekCycle(now + k * HoursPerDay, start, n)}) = 7

(* At its start every kind of cycle is at its start.                        *)
StartCounts == now = start => /\ IsSameWeekday(zone, now, start) /\ IsSameDayOfMonth(zone, now, start)
                              /\ IsNthDayCycle(now, start, n) /\ IsNthWeekCycle(now, start, n)
                              /\ IsNthMonthCycle(zone, now, start, n)

(* In the zone of TimeOffset the zero hour begins the running day.          *)
ZeroIsToday == LET zero == GetCurDayZeroTimestamp(now) IN
               zero <= now /\ now < zero + HoursPerDay /\ (IsWeekday(zero) <=> IsWeekday(now))
=============================================================================
