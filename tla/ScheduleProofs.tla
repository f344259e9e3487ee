---------------------------- MODULE ScheduleProofs ----------------------------
(***************************************************************************)
(* The advertisement loop against the clock, for every interval and for    *)
(* minutes and hours of any length: it is the loop of                      *)
(* AdvertisementReconciler, and it sleeps for at most one interval unless  *)
(* its boundary passed between the two readings of the clock.              *)
(***************************************************************************)
EXTENDS AdvertisementSchedule, AdvertisementProofs, ClockProofs

Longest == IntervalMinutes(interval) * SecondsPerMinute

\* What the cache has, if it is current, is whether the object exists.
CacheIsRight == seen.current => seen.exists = adv.exists

\* Neither the wait that is computed nor the timer set is longer than that.
WithinAnInterval == plan.left <= Longest /\ due <= Longest

\* An existing object has something that brings its key back, or a missed boundary.
Awake ==
    adv.exists => wake.queued \/ rec.pc # "idle" \/ ~seen.current \/ wake.scheduled \/ plan.missed

ScheduleInv == ScheduleTypeOK /\ AdvInv /\ CacheIsRight /\ WithinAnInterval /\ Awake

-----------------------------------------------------------------------------
(* The clock only decides what AdvertisementReconciler leaves open.        *)

\* A step in time is a step of the loop, or does not touch it.
LEMMA TimedStep == ASSUME [ScheduleNext]_scheduleVars PROVE [Next]_vars
  <1>1. CASE Tick \/ UNCHANGED scheduleVars
    BY <1>1 DEF Tick, scheduleVars
  <1>2. CASE DeliverInTime \/ TimerFiresInTime \/ RestartInTime
    BY <1>2 DEF DeliverInTime, TimerFiresInTime, RestartInTime, Next
  <1>3. CASE Around
    BY <1>3 DEF Around, Next
  <1>4. CASE WriteSpec \/ WriteStatus
    BY <1>4 DEF WriteSpec, WriteStatus, Next, Reconcile
  <1>5. CASE NextUpdate \/ WaitDuration
    BY <1>5 DEF NextUpdate, WaitDuration
  <1>6. CASE ReturnAfter \/ Untimed
    BY <1>6 DEF ReturnAfter, Untimed, Next, Reconcile
  <1> QED BY <1>1, <1>2, <1>3, <1>4, <1>5, <1>6 DEF ScheduleNext, ReconcileInTime

\* The loop with its clock implements the loop that is free to schedule or not:
\* what is proved of AdvertisementReconciler holds of the code's own timing.
THEOREM ScheduleImplementsLoop == ScheduleSpec => Spec
  <1>1. ScheduleInit => Init
    BY DEF ScheduleInit
  <1>2. [ScheduleNext]_scheduleVars => [Next]_vars
    BY TimedStep
  <1> QED BY <1>1, <1>2, PTL DEF ScheduleSpec, Spec

-----------------------------------------------------------------------------

\* The wait computed by calculateNextClockSync is positive and at most an interval.
LEMMA WaitIs ==
  ASSUME clock \in 0 .. Hour - 1
  PROVE  /\ NextSync(clock, IntervalMinutes(interval)) - clock \in Nat
         /\ NextSync(clock, IntervalMinutes(interval)) - clock <= Longest
  <1> DEFINE minutes == IntervalMinutes(interval)
  <1>1. minutes \in Nat \ {0}
    BY IntervalType, IntervalAssumption
  <1> HIDE DEF minutes
  <1>2. /\ NextSync(clock, minutes) \in Nat /\ clock < NextSync(clock, minutes)
        /\ NextSync(clock, minutes) <= clock + minutes * SecondsPerMinute
    BY <1>1, BoundaryAhead
  <1>3. clock \in Nat /\ minutes * SecondsPerMinute \in Nat
    BY <1>1, ClockAssumption, HourType
  <1> QED BY <1>2, <1>3 DEF Longest, minutes

\* The longest wait is a number.
LEMMA LongestType == Longest \in Nat
  BY IntervalType, IntervalAssumption, ClockAssumption DEF Longest

\* The invariant holds at the start.
LEMMA ScheduleInitInv == ScheduleInit => ScheduleInv
  <1> SUFFICES ASSUME ScheduleInit PROVE ScheduleInv
    OBVIOUS
  <1>1. AdvInv /\ TypeOK
    BY InitInv DEF ScheduleInit, AdvInv
  <1>2. NoPlan \in Plan /\ NoPlan.left = 0
    BY DEF NoPlan, Plan
  <1>3. ScheduleTypeOK /\ WithinAnInterval
    BY <1>1, <1>2, LongestType DEF ScheduleInit, ClockInit, ScheduleTypeOK, WithinAnInterval
  <1>4. CacheIsRight /\ Awake
    BY DEF ScheduleInit, Init, Bootstrapped, CacheIsRight, Awake
  <1> QED BY <1>1, <1>3, <1>4 DEF ScheduleInv

\* No step makes the time that is waited for ill typed or longer than an interval.
LEMMA TimeStep ==
  ASSUME ScheduleInv, [ScheduleNext]_scheduleVars
  PROVE  /\ clock' \in 0 .. Hour - 1 /\ fresh' \in [spec : BOOLEAN, status : BOOLEAN]
         /\ plan' \in Plan /\ due' \in Nat /\ WithinAnInterval'
  <1>0. /\ clock \in 0 .. Hour - 1 /\ fresh \in [spec : BOOLEAN, status : BOOLEAN]
        /\ plan \in Plan /\ plan.left \in Nat /\ due \in Nat
        /\ plan.left <= Longest /\ due <= Longest /\ Longest \in Nat
        /\ rec.failed \in BOOLEAN
    BY LongestType DEF ScheduleInv, ScheduleTypeOK, WithinAnInterval, Plan, TypeOK, Reconciliation
  <1>1. Longest' = Longest
    BY DEF Longest, IntervalMinutes, RequeueInterval
  <1>2. NoPlan \in Plan /\ NoPlan.left = 0
    BY DEF NoPlan, Plan
  <1>3. CASE UNCHANGED timeVars
    BY <1>0, <1>1, <1>3 DEF timeVars, WithinAnInterval
  <1>4. CASE Tick
    <2>1. clock' \in 0 .. Hour - 1
      BY <1>0, <1>4, ClockStep DEF Tick
    <2>2. due' \in Nat /\ due' <= Longest
      BY <1>0, <1>4 DEF Tick
    <2>3. plan' \in Plan /\ plan'.left <= Longest
      <3>1. CASE plan.step = "until" /\ plan.left > 0
        <4>1. plan' = [plan EXCEPT !.left = plan.left - 1] /\ plan.left - 1 \in Nat
          BY <1>0, <1>4, <3>1 DEF Tick
        <4>2. plan' \in Plan /\ plan'.left = plan.left - 1
          BY <1>0, <4>1 DEF Plan
        <4> QED BY <1>0, <4>2
      <3>2. CASE ~(plan.step = "until" /\ plan.left > 0)
        BY <1>0, <1>4, <3>2 DEF Tick
      <3> QED BY <3>1, <3>2
    <2>4. fresh' \in [spec : BOOLEAN, status : BOOLEAN]
      BY <1>4 DEF Tick
    <2> QED BY <1>1, <2>1, <2>2, <2>3, <2>4 DEF WithinAnInterval
  <1>5. CASE WriteSpec \/ WriteStatus
    <2>1. UNCHANGED <<clock, plan, due>>
      BY <1>5 DEF WriteSpec, WriteStatus
    <2>2. fresh' \in [spec : BOOLEAN, status : BOOLEAN]
      BY <1>0, <1>5 DEF WriteSpec, WriteStatus, Stamped, NotStamped
    <2> QED BY <1>0, <1>1, <2>1, <2>2 DEF WithinAnInterval
  <1>6. CASE NextUpdate
    <2> DEFINE wait == NextSync(clock, IntervalMinutes(interval)) - clock
    <2>1. wait \in Nat /\ wait <= Longest
      BY <1>0, WaitIs
    <2>2. plan' = [plan EXCEPT !.step = "until", !.left = wait] /\ UNCHANGED <<clock, fresh, due>>
      BY <1>6 DEF NextUpdate
    <2> HIDE DEF wait
    <2>3. plan' \in Plan /\ plan'.left = wait
      BY <1>0, <2>1, <2>2 DEF Plan
    <2> QED BY <1>0, <1>1, <2>1, <2>2, <2>3 DEF WithinAnInterval
  <1>7. CASE WaitDuration
    <2>1. plan' = [plan EXCEPT !.step = "set"] /\ UNCHANGED <<clock, fresh, due>>
      BY <1>7 DEF WaitDuration
    <2>2. plan' \in Plan /\ plan'.left = plan.left
      BY <1>0, <2>1 DEF Plan
    <2> QED BY <1>0, <1>1, <2>1, <2>2 DEF WithinAnInterval
  <1>8. CASE ReturnAfter
    <2> DEFINE after == ~rec.failed /\ plan.left > 0
    <2>1. due' = (IF after /\ (~wake.scheduled \/ plan.left < due) THEN plan.left ELSE due)
      BY <1>8 DEF ReturnAfter
    <2>2. plan' = [NoPlan EXCEPT !.missed = ~rec.failed /\ ~after] /\ UNCHANGED <<clock, fresh>>
      BY <1>8 DEF ReturnAfter
    <2>3. due' \in Nat /\ due' <= Longest
      BY <1>0, <2>1
    <2>4. after \in BOOLEAN
      OBVIOUS
    <2> HIDE DEF after
    <2>5. plan' \in Plan /\ plan'.left = 0
      BY <1>0, <1>2, <2>2, <2>4 DEF Plan
    <2> QED BY <1>0, <1>1, <2>2, <2>3, <2>5 DEF WithinAnInterval
  <1>9. CASE RestartInTime
    BY <1>0, <1>1, <1>2, <1>9 DEF RestartInTime, WithinAnInterval
  <1> QED BY <1>3, <1>4, <1>5, <1>6, <1>7, <1>8, <1>9
      DEF ScheduleNext, scheduleVars, ReconcileInTime, Untimed, DeliverInTime, TimerFiresInTime, Around

\* What a write of the object leaves alone: whether it exists, and, while the
\* cache stays current, the cache.
LEMMA WriteKeeps ==
  ASSUME adv \in Local, seen \in [exists : BOOLEAN, current : BOOLEAN],
         NEW obj, obj.exists = adv.exists, Write(obj) \/ UNCHANGED <<adv, seen>>
  PROVE  adv'.exists = adv.exists /\ (seen'.current => seen' = seen)
  <1>1. CASE UNCHANGED <<adv, seen>>
    BY <1>1
  <1>2. CASE Write(obj)
    <2>1. CASE seen' = [seen EXCEPT !.current = FALSE]
      BY <1>2, <2>1 DEF Write
    <2>2. CASE UNCHANGED seen
      BY <1>2, <2>2 DEF Write
    <2> QED BY <1>2, <2>1, <2>2 DEF Write
  <1> QED BY <1>1, <1>2

\* No step of the loop makes a current cache wrong.
LEMMA CacheStep == ASSUME TypeOK, CacheIsRight, [Next]_vars PROVE CacheIsRight'
  <1>0. /\ adv \in Local /\ seen \in [exists : BOOLEAN, current : BOOLEAN]
        /\ rec \in Reconciliation
    BY DEF TypeOK
  <1>1. CASE adv' = adv /\ seen' = seen
    BY <1>1 DEF CacheIsRight
  <1>2. CASE Deliver
    BY <1>2 DEF Deliver, CacheIsRight
  <1>3. CASE OperatorDeletes
    BY <1>0, <1>3 DEF OperatorDeletes, CacheIsRight
  <1>4. CASE Restart
    <2>1. seen'.exists = TRUE /\ adv' = IF adv.exists THEN adv ELSE Bootstrapped
      BY <1>4 DEF Restart, Started
    <2>2. adv.exists \in BOOLEAN /\ Bootstrapped.exists = TRUE
      BY <1>0 DEF Bootstrapped, Local
    <2>3. adv'.exists = TRUE
      BY <2>1, <2>2
    <2> QED BY <2>1, <2>3 DEF CacheIsRight
  <1>5. CASE SpecWritten \/ SpecFailed
    <2> DEFINE obj == [adv EXCEPT !.content = rec.content]
    <2>1. obj.exists = adv.exists
      BY <1>0 DEF Local
    <2>2. Write(obj) \/ UNCHANGED <<adv, seen>>
      BY <1>5 DEF SpecWritten, SpecFailed
    <2>3. adv'.exists = adv.exists /\ (seen'.current => seen' = seen)
      BY <1>0, <2>1, <2>2, WriteKeeps
    <2> QED BY <2>3 DEF CacheIsRight
  <1>6. CASE StatusWritten \/ StatusFailed
    <2>1. WithStatus.exists = adv.exists
      BY <1>0 DEF Local, WithStatus
    <2>2. Write(WithStatus) \/ UNCHANGED <<adv, seen>>
      BY <1>6 DEF StatusWritten, StatusFailed
    <2>3. adv'.exists = adv.exists /\ (seen'.current => seen' = seen)
      BY <1>0, <2>1, <2>2, WriteKeeps
    <2> QED BY <2>3 DEF CacheIsRight
  <1> QED BY <1>1, <1>2, <1>3, <1>4, <1>5, <1>6
      DEF Next, vars, advVars, Reconcile, NodeOrPodChanges, InstructionChanges, TimerFires,
          ReconcileNotFound, ReconcileFound, Collect, Collected, CollectFails, StartPublishing,
          NothingToPublishTo, Publish, Published, Return

\* A reconciliation that ends leaves a queued key, a timer or a missed boundary.
LEMMA ReturnWakes ==
  ASSUME ScheduleTypeOK, ReturnAfter
  PROVE  wake'.queued \/ wake'.scheduled \/ plan'.missed
  <1>0. /\ wake \in [queued : BOOLEAN, scheduled : BOOLEAN]
        /\ rec.failed \in BOOLEAN
    BY DEF ScheduleTypeOK, TypeOK, Reconciliation
  <1>1. CASE rec.failed
    BY <1>0, <1>1 DEF ReturnAfter, Return, Queue
  <1>2. CASE ~rec.failed /\ plan.left > 0
    BY <1>2 DEF ReturnAfter
  <1>3. CASE ~rec.failed /\ ~(plan.left > 0)
    BY <1>3 DEF ReturnAfter, NoPlan
  <1> QED BY <1>0, <1>1, <1>2, <1>3

\* A step that is not a reconciliation's takes no reason to wake away without
\* leaving another.
LEMMA AroundWakes ==
  ASSUME ScheduleInv, \/ Tick \/ DeliverInTime \/ TimerFiresInTime \/ RestartInTime \/ Around
                      \/ UNCHANGED scheduleVars
  PROVE  Awake'
  <1>0. /\ wake \in [queued : BOOLEAN, scheduled : BOOLEAN] /\ adv \in Local /\ Awake
        /\ seen \in [exists : BOOLEAN, current : BOOLEAN]
    BY DEF ScheduleInv, ScheduleTypeOK, TypeOK
  <1>1. CASE UNCHANGED <<adv, seen, wake, rec, plan>>
    BY <1>0, <1>1 DEF Awake
  <1>2. CASE Tick
    <2>1. UNCHANGED <<adv, seen, wake, rec>>
      BY <1>2 DEF Tick, vars, advVars
    <2>2. plan'.missed = plan.missed
      <3>1. plan \in Plan
        BY DEF ScheduleInv, ScheduleTypeOK
      <3> QED BY <1>2, <3>1 DEF Tick, Plan
    <2> QED BY <1>0, <2>1, <2>2 DEF Awake
  <1>3. CASE DeliverInTime \/ TimerFiresInTime \/ RestartInTime \/ NodeOrPodChanges
    <2>1. wake'.queued
      BY <1>0, <1>3 DEF DeliverInTime, TimerFiresInTime, RestartInTime, Deliver, TimerFires, Restart,
             Started, NodeOrPodChanges, Queue
    <2> QED BY <2>1 DEF Awake
  <1>4. CASE OperatorDeletes
    BY <1>4 DEF OperatorDeletes, Awake
  <1>5. CASE Around /\ (InstructionChanges \/ (BrokerLocks /\ UNCHANGED advVars))
    <2>1. UNCHANGED <<adv, seen, wake, rec, plan>>
      BY <1>5 DEF Around, InstructionChanges, advVars, timeVars
    <2> QED BY <1>1, <2>1
  <1>6. UNCHANGED scheduleVars => UNCHANGED <<adv, seen, wake, rec, plan>>
    BY DEF scheduleVars, vars, advVars, timeVars
  <1> QED BY <1>1, <1>2, <1>3, <1>4, <1>5, <1>6 DEF Around

\* Neither does a reconciliation's: an error queues the key, a key found deleted
\* is an object that does not exist or whose cache is behind, and the return sets
\* the timer.
LEMMA ReconcileWakes == ASSUME ScheduleInv, ReconcileInTime PROVE Awake'
  <1>0. /\ wake \in [queued : BOOLEAN, scheduled : BOOLEAN] /\ adv \in Local /\ Awake
        /\ seen \in [exists : BOOLEAN, current : BOOLEAN] /\ CacheIsRight
        /\ rec \in Reconciliation /\ plan \in Plan
    BY DEF ScheduleInv, ScheduleTypeOK, TypeOK
  <1>1. CASE rec'.pc # "idle"
    BY <1>1 DEF Awake
  <1>2. CASE ReturnAfter
    <2>1. wake'.queued \/ wake'.scheduled \/ plan'.missed
      BY <1>2, ReturnWakes DEF ScheduleInv
    <2> QED BY <2>1 DEF Awake
  <1>3. CASE SpecFailed
    <2>1. wake'.queued
      BY <1>0, <1>3 DEF SpecFailed, Queue
    <2> QED BY <2>1 DEF Awake
  <1>4. CASE ReconcileNotFound
    <2>1. ~seen.exists /\ UNCHANGED <<adv, seen>>
      BY <1>4 DEF ReconcileNotFound
    <2> QED BY <1>0, <2>1 DEF CacheIsRight, Awake
  <1>5. CASE (NextUpdate \/ WaitDuration) /\ UNCHANGED <<rec, vars>>
    <2>1. rec.pc # "idle"
      BY <1>5 DEF NextUpdate, WaitDuration, Planning
    <2> QED BY <1>1, <1>5, <2>1
  <1>6. CASE Collect \/ Publish
    <2>1. rec.pc # "idle" /\ rec' = rec
      BY <1>6 DEF Collect, Publish, advVars
    <2> QED BY <1>1, <2>1
  <1>7. CASE \/ ReconcileFound \/ Collected \/ CollectFails \/ SpecWritten \/ StatusWritten
             \/ StatusFailed \/ StartPublishing \/ NothingToPublishTo \/ Published
    <2>1. \E step \in {"collect", "update", "status", "publish", "publishing", "return"} :
            rec'.pc = step
      BY <1>0, <1>7 DEF ReconcileFound, Collected, CollectFails, SpecWritten, StatusWritten,
             StatusFailed, StartPublishing, NothingToPublishTo, Published, Reconciliation, Idle
    <2> QED BY <1>1, <2>1
  <1>8. NextUpdate \/ WaitDuration => UNCHANGED <<rec, vars>>
    BY DEF NextUpdate, WaitDuration, vars, advVars
  <1> QED BY <1>2, <1>3, <1>4, <1>5, <1>6, <1>7, <1>8 DEF ReconcileInTime, WriteSpec, WriteStatus, Untimed

\* Every step keeps the invariant.
LEMMA ScheduleNextInv == ASSUME ScheduleInv, [ScheduleNext]_scheduleVars PROVE ScheduleInv'
  <1>1. AdvInv'
    BY TimedStep, NextInv DEF ScheduleInv
  <1>2. CacheIsRight'
    BY TimedStep, CacheStep DEF ScheduleInv, ScheduleTypeOK
  <1>3. Awake'
    BY AroundWakes, ReconcileWakes DEF ScheduleNext
  <1> QED BY <1>1, <1>2, <1>3, TimeStep DEF ScheduleInv, ScheduleTypeOK, AdvInv

-----------------------------------------------------------------------------

\* The invariant holds in every state of every instance.
THEOREM ScheduleInvariant == ScheduleSpec => []ScheduleInv
  <1> QED BY ScheduleInitInv, ScheduleNextInv, PTL DEF ScheduleSpec

\* The loop's state and its times are well typed; in particular the boundary that
\* calculateNextClockSync names never lies before the clock it was given.
THEOREM ScheduleTypeCorrect == ScheduleSpec => []ScheduleTypeOK
  <1>1. ScheduleInv => ScheduleTypeOK
    BY DEF ScheduleInv
  <1> QED BY <1>1, ScheduleInvariant, PTL

\* The loop sleeps for at most one interval, and only a boundary that passed
\* between time.Now and time.Until leaves an existing object without anything
\* that brings its key back.
THEOREM SleepsAtMostAnInterval == ScheduleSpec => []StopsOnlyAtABoundary
  <1>1. ScheduleInv => StopsOnlyAtABoundary
    BY DEF ScheduleInv, Awake, WithinAnInterval, Longest, StopsOnlyAtABoundary
  <1> QED BY <1>1, ScheduleInvariant, PTL

=============================================================================
