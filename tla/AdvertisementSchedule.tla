------------------------- MODULE AdvertisementSchedule -------------------------
(***************************************************************************)
(* The advertisement loop against the clock. The actions are those of      *)
(* AdvertisementReconciler; here the clock decides what was a choice there:*)
(* whether a write changes anything, which depends on the second its time  *)
(* stamp falls into, and whether and when RequeueAfter brings the key back.*)
(*                                                                         *)
(* The clock is cyclic, a tick is a second, and a timer counts down.       *)
(***************************************************************************)
EXTENDS AdvertisementReconciler, ClockSync

CONSTANT interval   \* --advertisement-requeue-interval of this agent, in seconds

ASSUME IntervalAssumption == interval \in Intervals

VARIABLES
    fresh,      \* do Timestamp and LastUpdateTime name the current second?
    plan,       \* nextUpdate and waitDuration of the reconciliation under way
    due         \* seconds until the timer fires, if one is set

timeVars == <<clock, fresh, plan, due>>
scheduleVars == <<vars, timeVars>>

\* left is the time to nextUpdate in step "until", then waitDuration; zero
\* stands for all that is not positive. missed remembers that the last
\* reconciliation returned without a timer because its boundary had passed.
Plan == [step : {"now", "until", "set"}, left : Nat, missed : BOOLEAN]

NoPlan == [step |-> "now", left |-> 0, missed |-> FALSE]

ScheduleTypeOK ==
    /\ TypeOK
    /\ clock \in 0 .. Hour - 1
    /\ fresh \in [spec : BOOLEAN, status : BOOLEAN]
    /\ plan \in Plan
    /\ due \in Nat

ScheduleInit ==
    /\ Init
    /\ ClockInit
    /\ fresh = [spec |-> FALSE, status |-> FALSE]
    /\ plan = NoPlan
    /\ due = 0

-----------------------------------------------------------------------------

Tick ==
    /\ ClockTick
    /\ fresh' = [spec |-> FALSE, status |-> FALSE]
    /\ plan' = IF plan.step = "until" /\ plan.left > 0 THEN [plan EXCEPT !.left = @ - 1] ELSE plan
    /\ due' = IF due > 0 THEN due - 1 ELSE 0
    /\ UNCHANGED vars

\* A write with the time stamp of this second. It changes nothing, and is not
\* reported, if the object carries that stamp already.
Stamped(stamp) ==
    /\ rec.current /\ adv.exists
    /\ seen'.current = (seen.current /\ adv' = adv /\ fresh[stamp])
    /\ fresh' = [fresh EXCEPT ![stamp] = TRUE]

NotStamped == UNCHANGED <<adv, seen, fresh>>

WriteSpec ==
    /\ \/ SpecWritten /\ Stamped("spec")
       \/ SpecFailed /\ (Stamped("spec") \/ NotStamped)
    /\ UNCHANGED <<clock, plan, due>>

WriteStatus ==
    /\ \/ StatusWritten /\ Stamped("status")
       \/ StatusFailed /\ (NotStamped \/ Stamped("status"))
    /\ UNCHANGED <<clock, plan, due>>

\* The status has been written and updateStatus has not returned yet.
Planning == rec.pc \in {"publish", "return"} /\ ~rec.failed /\ plan.step # "set"

\* nextUpdate := calculateNextClockSync(time.Now(), ...)
NextUpdate ==
    /\ Planning /\ plan.step = "now"
    /\ plan' = [plan EXCEPT !.step = "until", !.left = NextSync(clock, IntervalMinutes(interval)) - clock]
    /\ UNCHANGED <<vars, clock, fresh, due>>

\* waitDuration := time.Until(nextUpdate), by a second reading of the clock.
WaitDuration ==
    /\ Planning /\ plan.step = "until"
    /\ plan' = [plan EXCEPT !.step = "set"]
    /\ UNCHANGED <<vars, clock, fresh, due>>

\* RequeueAfter counts from here, and only if it is positive. The queue keeps
\* the earlier of two timers for the key.
ReturnAfter ==
    /\ ~Planning
    /\ Return
    /\ LET after == ~rec.failed /\ plan.left > 0
       IN /\ wake'.scheduled = (wake.scheduled \/ after)
          /\ due' = IF after /\ (~wake.scheduled \/ plan.left < due) THEN plan.left ELSE due
          /\ plan' = [NoPlan EXCEPT !.missed = ~rec.failed /\ ~after]
    /\ UNCHANGED <<clock, fresh>>

\* What of a reconciliation does not look at the clock.
Untimed ==
    /\ ~Planning
    /\ \/ ReconcileNotFound \/ ReconcileFound \/ Collect \/ Collected \/ CollectFails
       \/ StartPublishing \/ NothingToPublishTo \/ Publish \/ Published
    /\ UNCHANGED timeVars

ReconcileInTime == WriteSpec \/ WriteStatus \/ NextUpdate \/ WaitDuration \/ ReturnAfter \/ Untimed

TimerFiresInTime ==
    /\ due = 0
    /\ TimerFires
    /\ UNCHANGED timeVars

\* Starting the process takes more than a second: whatever the last one wrote
\* bears an earlier time stamp.
RestartInTime ==
    /\ ~fresh.spec /\ ~fresh.status
    /\ Restart
    /\ plan' = NoPlan
    /\ due' = 0
    /\ UNCHANGED <<clock, fresh>>

DeliverInTime == Deliver /\ UNCHANGED timeVars

Around ==
    /\ \/ NodeOrPodChanges \/ InstructionChanges \/ OperatorDeletes
       \/ BrokerLocks /\ UNCHANGED advVars
    /\ UNCHANGED timeVars

ScheduleNext ==
    \/ Tick \/ DeliverInTime \/ TimerFiresInTime \/ ReconcileInTime \/ RestartInTime \/ Around

\* Time passes, events arrive, due timers fire and the worker keeps running.
ScheduleSpec ==
    /\ ScheduleInit /\ [][ScheduleNext]_scheduleVars
    /\ WF_scheduleVars(Tick) /\ WF_scheduleVars(DeliverInTime)
    /\ WF_scheduleVars(TimerFiresInTime) /\ WF_scheduleVars(ReconcileInTime)

-----------------------------------------------------------------------------

\* The loop sleeps for at most one interval, and dies of one thing only. While
\* the Advertisement exists its key is queued, being handled, about to be queued
\* by an event, or has a timer that fires within an interval; or else the last
\* reconciliation saw its boundary pass between time.Now and time.Until, had
\* written nothing new in that second, and a node or a pod must wake the next.
StopsOnlyAtABoundary ==
    adv.exists => \/ wake.queued \/ rec.pc # "idle" \/ ~seen.current
                  \/ wake.scheduled /\ due <= IntervalMinutes(interval) * SecondsPerMinute
                  \/ plan.missed

\* What the agent would measure if it read all lists now.
Truth == CollectClusterResources(cluster.nodes, cluster.pods, cluster.instructions)

\* Somebody or something keeps the agent from publishing what it should: the
\* cluster changes, the object is deleted, a list, an update that is no conflict
\* or a publication fails, or the process dies at work.
Hindered ==
    \/ cluster' # cluster
    \/ adv.exists /\ ~adv'.exists
    \/ rec.pc = "collect" /\ rec'.pc = "status"
    \/ rec.pc = "update" /\ rec.current /\ rec'.pc = "idle"
    \/ rec.pc \notin {"idle", "update", "return"} /\ rec'.pc = "idle"
    \/ pub.pc # "idle" /\ pub'.pc = "idle" /\ ad'.content # pub.content

\* Once that is over, the Advertisement and the broker's copy of it come to say
\* what is true, and keep saying it: also after a measurement that mixed lists of
\* different moments, and after a change of a ProviderInstruction, which wakes
\* nobody. Only a missed boundary, as above, may stand in the way.
TruthIsPublished ==
    <>[][~Hindered]_scheduleVars
        => <>[](adv.exists /\ ~plan.missed
                  => /\ adv.content = Truth
                     /\ transport # "none" => ad.content = Sent(Truth))

=============================================================================
