------------------------------ MODULE ClockProofs ------------------------------
(***************************************************************************)
(* The arithmetic of calculateNextClockSync, for minutes and hours of any  *)
(* length and for every interval.                                          *)
(***************************************************************************)
EXTENDS ClockSync, TLAPS

-----------------------------------------------------------------------------
(* Division with remainder.                                                *)

\* A quotient times its divisor comes within one divisor of the dividend.
LEMMA QuotientBounds ==
  ASSUME NEW a \in Nat, NEW b \in Nat \ {0}
  PROVE  a \div b \in Nat /\ (a \div b) * b <= a /\ a < (a \div b + 1) * b
  <1>1. a \div b \in Nat
    OBVIOUS
  <1>2. (a \div b) * b <= a
    OBVIOUS
  <1>3. a < (a \div b + 1) * b
    OBVIOUS
  <1> QED BY <1>1, <1>2, <1>3

\* Only the quotient does.
LEMMA QuotientIs ==
  ASSUME NEW a \in Nat, NEW b \in Nat \ {0}, NEW q \in Nat, q * b <= a, a < (q + 1) * b
  PROVE  a \div b = q
  OBVIOUS

\* A number less than the divisor is its own remainder.
LEMMA RemainderOfLess == ASSUME NEW a \in Nat, NEW b \in Nat \ {0}, a < b PROVE a % b = a
  OBVIOUS

\* The remainder of any other lies at least one divisor below it.
LEMMA RemainderOfMore ==
  ASSUME NEW a \in Nat, NEW b \in Nat \ {0}, a >= b PROVE a % b \in Nat /\ (a % b) + b <= a
  OBVIOUS

\* Multiplication keeps the order.
LEMMA TimesMonotone ==
  ASSUME NEW a \in Nat, NEW b \in Nat, NEW c \in Nat, a <= b PROVE a * c <= b * c
  OBVIOUS

\* A common factor can be dropped from a strict inequality.
LEMMA TimesCancels ==
  ASSUME NEW a \in Nat, NEW b \in Nat, NEW c \in Nat \ {0}, a * c < b * c PROVE a < b
  OBVIOUS

-----------------------------------------------------------------------------

\* Products of the constants are what they should be.
LEMMA HourType == Hour \in Nat \ {0} /\ Hour = MinutesPerHour * SecondsPerMinute
  BY ClockAssumption DEF Hour

\* The interval in minutes is at least one, whatever the flag says.
LEMMA IntervalType == \A i \in Intervals : IntervalMinutes(i) \in Nat \ {0}
  <1> SUFFICES ASSUME NEW i \in Intervals PROVE IntervalMinutes(i) \in Nat \ {0}
    OBVIOUS
  <1>1. RequeueInterval(i) \in Nat
    BY ClockAssumption DEF RequeueInterval
  <1>2. RequeueInterval(i) \div SecondsPerMinute \in Nat
    BY <1>1, ClockAssumption
  <1> QED BY <1>2 DEF IntervalMinutes

\* The minute of a time within the hour.
LEMMA MinuteIs ==
  ASSUME NEW t \in 0 .. Hour - 1
  PROVE  /\ Minute(t) \in Nat /\ Minute(t) < MinutesPerHour
         /\ Minute(t) * SecondsPerMinute <= t /\ t < (Minute(t) + 1) * SecondsPerMinute
         /\ t % Hour = t
  <1>1. t \in Nat /\ t < Hour
    BY HourType
  <1>2. t % Hour = t
    BY <1>1, HourType, RemainderOfLess
  <1>3. /\ Minute(t) \in Nat /\ Minute(t) * SecondsPerMinute <= t
        /\ t < (Minute(t) + 1) * SecondsPerMinute
    BY <1>1, <1>2, ClockAssumption, QuotientBounds DEF Minute
  <1>4. Minute(t) * SecondsPerMinute < MinutesPerHour * SecondsPerMinute
    <2>1. Minute(t) * SecondsPerMinute \in Nat
      BY <1>3, ClockAssumption
    <2> QED BY <1>1, <1>3, <2>1, HourType
  <1>5. Minute(t) < MinutesPerHour
    BY <1>3, <1>4, ClockAssumption, TimesCancels
  <1> QED BY <1>2, <1>3, <1>5

\* The next minute lies ahead, at most one interval.
LEMMA NextMinuteIs ==
  ASSUME NEW t \in 0 .. Hour - 1, NEW i \in Nat \ {0}
  PROVE  /\ NextMinute(t, i) \in Nat
         /\ Minute(t) + 1 <= NextMinute(t, i) /\ NextMinute(t, i) <= Minute(t) + i
  <1> DEFINE m == Minute(t)
             q == m \div i
  <1>1. m \in Nat
    BY MinuteIs
  <1> HIDE DEF m
  <1>2. q \in Nat /\ q * i <= m /\ m < (q + 1) * i
    BY <1>1, QuotientBounds
  <1> HIDE DEF q
  <1>3. q * i \in Nat /\ (q + 1) * i = q * i + i
    BY <1>2
  <1> QED BY <1>1, <1>2, <1>3 DEF NextMinute, m, q

\* The next boundary, with the wrap at the full hour: as many minutes as
\* NextMinute says while it is within the hour, and never more.
LEMMA NextSyncIs ==
  ASSUME NEW t \in 0 .. Hour - 1, NEW i \in Nat \ {0}
  PROVE  \E n \in Nat :
           /\ NextSync(t, i) = n * SecondsPerMinute
           /\ Minute(t) + 1 <= n /\ n <= NextMinute(t, i)
           /\ NextMinute(t, i) <= MinutesPerHour => n = NextMinute(t, i)
  <1> DEFINE next == NextMinute(t, i)
  <1>1. /\ next \in Nat /\ Minute(t) + 1 <= next
        /\ Minute(t) \in Nat /\ Minute(t) < MinutesPerHour /\ t % Hour = t /\ t \in Nat
    BY NextMinuteIs, MinuteIs
  <1>2. NextSync(t, i) = (next % MinutesPerHour) * SecondsPerMinute
                         + (IF next >= MinutesPerHour THEN Hour ELSE 0)
    <2>1. NextSync(t, i) = (t - t) + (next % MinutesPerHour) * SecondsPerMinute
                           + (IF next >= MinutesPerHour THEN Hour ELSE 0)
      BY <1>1 DEF NextSync
    <2>2. (next % MinutesPerHour) * SecondsPerMinute \in Nat
      BY <1>1, ClockAssumption
    <2> QED BY <1>1, <2>1, <2>2
  <1> HIDE DEF next
  <1>3. CASE next < MinutesPerHour
    <2>1. next % MinutesPerHour = next
      BY <1>1, <1>3, ClockAssumption, RemainderOfLess
    <2>2. NextSync(t, i) = next * SecondsPerMinute + 0
      BY <1>1, <1>2, <1>3, <2>1, ClockAssumption
    <2>3. NextSync(t, i) = next * SecondsPerMinute
      BY <1>1, <2>2, ClockAssumption
    <2> QED BY <1>1, <2>3 DEF next
  <1>4. CASE next >= MinutesPerHour
    <2> DEFINE rest == next % MinutesPerHour
               n == rest + MinutesPerHour
    <2>1. rest \in Nat /\ n <= next
      BY <1>1, <1>4, ClockAssumption, RemainderOfMore
    <2>2. next <= MinutesPerHour => n = next
      BY <1>1, <1>4, <2>1, ClockAssumption
    <2> HIDE DEF rest
    <2>3. NextSync(t, i) = rest * SecondsPerMinute + MinutesPerHour * SecondsPerMinute
      BY <1>2, <1>4, HourType DEF rest
    <2>4. NextSync(t, i) = n * SecondsPerMinute
      BY <2>1, <2>3, ClockAssumption
    <2>5. n \in Nat /\ Minute(t) + 1 <= n
      BY <1>1, <2>1, ClockAssumption
    <2> QED BY <2>1, <2>2, <2>4, <2>5 DEF next
  <1> QED BY <1>1, <1>3, <1>4, ClockAssumption

\* The boundary lies ahead of the clock, at most one interval.
LEMMA BoundaryAhead ==
  ASSUME NEW t \in 0 .. Hour - 1, NEW i \in Nat \ {0}
  PROVE  /\ NextSync(t, i) \in Nat
         /\ t < NextSync(t, i) /\ NextSync(t, i) <= t + i * SecondsPerMinute
  <1>1. PICK n \in Nat : /\ NextSync(t, i) = n * SecondsPerMinute
                         /\ Minute(t) + 1 <= n /\ n <= NextMinute(t, i)
    BY NextSyncIs
  <1> DEFINE m == Minute(t)
  <1>2. /\ m \in Nat /\ m * SecondsPerMinute <= t /\ t < (m + 1) * SecondsPerMinute /\ t \in Nat
    BY MinuteIs
  <1>3. n <= m + i
    BY <1>1, <1>2, NextMinuteIs
  <1>4. m + 1 <= n
    BY <1>1
  <1> HIDE DEF m
  <1>5. n * SecondsPerMinute <= (m + i) * SecondsPerMinute
    BY <1>2, <1>3, ClockAssumption, TimesMonotone
  <1>6. (m + 1) * SecondsPerMinute <= n * SecondsPerMinute
    BY <1>2, <1>4, ClockAssumption, TimesMonotone
  <1>7. (m + i) * SecondsPerMinute = m * SecondsPerMinute + i * SecondsPerMinute
    BY <1>2, ClockAssumption
  <1>8. /\ m * SecondsPerMinute \in Nat /\ i * SecondsPerMinute \in Nat
        /\ (m + 1) * SecondsPerMinute \in Nat /\ n * SecondsPerMinute \in Nat
    BY <1>2, ClockAssumption
  <1> QED BY <1>1, <1>2, <1>5, <1>6, <1>7, <1>8

\* If the interval divides the hour, the next minute is one of this hour.
LEMMA NextMinuteInHour ==
  ASSUME NEW t \in 0 .. Hour - 1, NEW i \in Nat \ {0}, MinutesPerHour % i = 0
  PROVE  NextMinute(t, i) <= MinutesPerHour
  <1> DEFINE m == Minute(t)
             q == m \div i
             c == MinutesPerHour \div i
  <1>1. m \in Nat /\ m < MinutesPerHour
    BY MinuteIs
  <1> HIDE DEF m
  <1>2. q \in Nat /\ q * i <= m
    BY <1>1, QuotientBounds
  <1>3. c \in Nat /\ c * i = MinutesPerHour
    BY ClockAssumption
  <1>4. NextMinute(t, i) = (q + 1) * i
    BY DEF NextMinute, m
  <1> HIDE DEF q, c
  <1>5. q * i < c * i
    <2>1. q * i \in Nat
      BY <1>2
    <2> QED BY <1>1, <1>2, <1>3, <2>1, ClockAssumption
  <1>6. q + 1 <= c
    BY <1>2, <1>3, <1>5, TimesCancels
  <1>7. (q + 1) * i <= c * i
    BY <1>2, <1>3, <1>6, TimesMonotone
  <1> QED BY <1>3, <1>4, <1>7

\* If the interval divides the hour, an agent that looks at the clock a second
\* later, but before the boundary, comes to the same one.
LEMMA BoundaryStays ==
  ASSUME NEW t \in 0 .. Hour - 1, NEW i \in Nat \ {0}, MinutesPerHour % i = 0,
         t + 1 < NextSync(t, i)
  PROVE  NextSync(t + 1, i) = NextSync(t, i)
  <1>1. NextMinute(t, i) <= MinutesPerHour /\ NextMinute(t, i) \in Nat
    BY NextMinuteInHour, NextMinuteIs
  <1>2. NextSync(t, i) = NextMinute(t, i) * SecondsPerMinute
    BY <1>1, NextSyncIs
  <1>3. NextSync(t, i) <= Hour
    BY <1>1, <1>2, HourType, ClockAssumption, TimesMonotone
  <1>4. t + 1 \in 0 .. Hour - 1
    <2>1. NextSync(t, i) \in Nat
      BY BoundaryAhead
    <2> QED BY <1>3, <2>1, HourType
  <1> DEFINE m == Minute(t)
             n == Minute(t + 1)
             q == m \div i
  <1>5. m \in Nat /\ m * SecondsPerMinute <= t
    BY MinuteIs
  <1>6. n \in Nat /\ n * SecondsPerMinute <= t + 1 /\ t + 1 < (n + 1) * SecondsPerMinute
    BY <1>4, MinuteIs
  <1>7. NextMinute(t, i) = (q + 1) * i
    BY DEF NextMinute
  <1> HIDE DEF m, n
  <1>8. q \in Nat /\ q * i <= m
    BY <1>5, QuotientBounds
  <1> HIDE DEF q
  <1>9. m <= n
    <2>1. m * SecondsPerMinute < (n + 1) * SecondsPerMinute
      <3>1. m * SecondsPerMinute \in Nat /\ (n + 1) * SecondsPerMinute \in Nat
        BY <1>5, <1>6, ClockAssumption
      <3> QED BY <1>4, <1>5, <1>6, <3>1
    <2>2. m < n + 1
      BY <1>5, <1>6, <2>1, ClockAssumption, TimesCancels
    <2> QED BY <1>5, <1>6, <2>2
  <1>10. n < (q + 1) * i
    <2>1. (q + 1) * i \in Nat
      BY <1>8
    <2>2. n * SecondsPerMinute < ((q + 1) * i) * SecondsPerMinute
      <3>1. n * SecondsPerMinute \in Nat /\ ((q + 1) * i) * SecondsPerMinute \in Nat
        BY <1>6, <2>1, ClockAssumption
      <3> QED BY <1>2, <1>4, <1>6, <1>7, <3>1
    <2> QED BY <1>6, <2>1, <2>2, ClockAssumption, TimesCancels
  <1>11. q * i <= n
    <2>1. q * i \in Nat
      BY <1>8
    <2> QED BY <1>5, <1>6, <1>8, <1>9, <2>1
  <1>12. n \div i = q
    BY <1>6, <1>8, <1>10, <1>11, QuotientIs
  <1>13. NextMinute(t + 1, i) = NextMinute(t, i)
    BY <1>7, <1>12 DEF NextMinute, n
  <1>14. NextSync(t + 1, i) = NextMinute(t + 1, i) * SecondsPerMinute
    BY <1>1, <1>4, <1>13, NextSyncIs
  <1> QED BY <1>2, <1>13, <1>14

\* Agents that follow the clock agree, whatever it says.
LEMMA AgreementAt == ASSUME clock \in 0 .. Hour - 1 PROVE AgentsAgree
  <1> SUFFICES ASSUME NEW i \in Intervals
               PROVE  LET minutes == IntervalMinutes(i)
                          next    == NextSync(clock, minutes)
                      IN /\ clock < next /\ next <= clock + minutes * SecondsPerMinute
                         /\ MinutesPerHour % minutes = 0 /\ clock + 1 < next
                              => NextSync(clock + 1, minutes) = next
    BY DEF AgentsAgree
  <1> DEFINE minutes == IntervalMinutes(i)
  <1>1. minutes \in Nat \ {0}
    BY IntervalType
  <1> HIDE DEF minutes
  <1>2. /\ clock < NextSync(clock, minutes)
        /\ NextSync(clock, minutes) <= clock + minutes * SecondsPerMinute
    BY <1>1, BoundaryAhead
  <1>3. MinutesPerHour % minutes = 0 /\ clock + 1 < NextSync(clock, minutes)
          => NextSync(clock + 1, minutes) = NextSync(clock, minutes)
    BY <1>1, BoundaryStays
  <1> QED BY <1>2, <1>3 DEF minutes

\* The clock stays within the hour.
LEMMA ClockStep == ASSUME clock \in 0 .. Hour - 1, ClockTick PROVE clock' \in 0 .. Hour - 1
  BY HourType DEF ClockTick

\* "This ensures all agents publish at the same clock time", for minutes, hours
\* and intervals of any length, the full sixty of the code included: at every
\* second of a running clock the boundary of calculateNextClockSync lies ahead,
\* at most one interval away, and agents whose interval divides the hour and that
\* look at the clock at different seconds before it come to the same one.
THEOREM ClockAgreement == ClockInit /\ [][ClockTick]_clock => []AgentsAgree
  <1>1. ClockInit => clock \in 0 .. Hour - 1
    BY DEF ClockInit
  <1>2. clock \in 0 .. Hour - 1 /\ [ClockTick]_clock => (clock \in 0 .. Hour - 1)'
    BY ClockStep
  <1>3. clock \in 0 .. Hour - 1 => AgentsAgree
    BY AgreementAt
  <1> QED BY <1>1, <1>2, <1>3, PTL

=============================================================================
