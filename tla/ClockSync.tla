------------------------------- MODULE ClockSync -------------------------------
(***************************************************************************)
(* calculateNextClockSync: the boundary of the wall clock at which an agent*)
(* publishes next. Times are seconds since some full hour.                 *)
(***************************************************************************)
EXTENDS Naturals

CONSTANTS
    SecondsPerMinute,   \* 60, or less in a small instance
    MinutesPerHour,     \* 60, or less in a small instance
    Intervals           \* values of --advertisement-requeue-interval, in seconds

ASSUME ClockAssumption ==
    /\ SecondsPerMinute \in Nat \ {0}
    /\ MinutesPerHour \in Nat \ {0}
    /\ Intervals \subseteq Nat

VARIABLE clock   \* seconds since the full hour

Hour == SecondsPerMinute * MinutesPerHour

ClockInit == clock \in 0 .. Hour - 1

ClockTick == clock' = (clock + 1) % Hour

\* The flag's zero value stands for one minute.
RequeueInterval(flag) == IF flag = 0 THEN SecondsPerMinute ELSE flag

\* int(interval.Minutes()) drops a fraction of a minute; less than one is one.
IntervalMinutes(flag) ==
    LET m == RequeueInterval(flag) \div SecondsPerMinute IN IF m < 1 THEN 1 ELSE m

Minute(t) == (t % Hour) \div SecondsPerMinute

\* Mutant: the interval is counted from now on.
NextMinuteFromNow(t, interval) == Minute(t) + interval

NextMinute(t, interval) == ((Minute(t) \div interval) + 1) * interval

\* Mutant: an hour is added only when the minute has passed the sixtieth.
NextSyncLate(t, interval) ==
    LET next == NextMinute(t, interval)
    IN (t - (t % Hour)) + (next % MinutesPerHour) * SecondsPerMinute
       + (IF next > MinutesPerHour THEN Hour ELSE 0)

\* time.Date with the minute modulo sixty, and an hour more if it wrapped.
NextSync(t, interval) ==
    LET next == NextMinute(t, interval)
    IN (t - (t % Hour)) + (next % MinutesPerHour) * SecondsPerMinute
       + (IF next >= MinutesPerHour THEN Hour ELSE 0)

-----------------------------------------------------------------------------

\* "This ensures all agents publish at the same clock time": the boundary lies
\* ahead of the clock, at most one interval away, and an agent with the same
\* interval that looks at the clock one second later, and so any that looks at it
\* before that boundary, comes to the same one, provided that the interval, cut
\* to minutes, divides the hour.
AgentsAgree ==
    \A i \in Intervals :
       LET minutes == IntervalMinutes(i)
           next    == NextSync(clock, minutes)
       IN /\ clock < next /\ next <= clock + minutes * SecondsPerMinute
          /\ MinutesPerHour % minutes = 0 /\ clock + 1 < next => NextSync(clock + 1, minutes) = next

=============================================================================
