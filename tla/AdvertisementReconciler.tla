------------------------ MODULE AdvertisementReconciler ------------------------
(***************************************************************************)
(* AdvertisementReconciler: one worker that measures the cluster, writes   *)
(* the measurement into the Advertisement object, marks it published and   *)
(* then publishes it to the broker. Nothing else writes the object, so its *)
(* resourceVersion is reduced to whether the cache, and the object a       *)
(* reconciliation works on, are still the current one.                     *)
(***************************************************************************)
EXTENDS Publisher, Collector

VARIABLES
    adv,     \* the Advertisement in the API server
    seen,    \* what the informer cache has of it
    wake,    \* is the key queued, is it scheduled with RequeueAfter?
    rec      \* the reconciliation under way

advVars == <<adv, seen, wake, rec, collectorVars>>
vars == <<pubVars, advVars>>

\* The figures the agent sends. Both transports write each quantity as a string
\* that reads back as the same quantity, but BrokerClient names no GPUs.
WithoutGPU(m) == [f \in DOMAIN m |-> [m[f] EXCEPT !["gpu"] = Nil]]

Sent(m) == IF transport = "kubernetes" THEN WithoutGPU(m) ELSE m

ASSUME ContentsAssumption ==
    \A n \in NodeLists, p \in PodLists, i \in InstructionLists :
       LET m == CollectClusterResources(n, p, i) IN {m, WithoutGPU(m)} \subseteq Contents

Local == [exists : BOOLEAN, content : Contents \cup {NoContent}, phase : {"", "Active", "Error"},
          published : BOOLEAN]

Reconciliation == [pc : {"idle", "collect", "update", "status", "publish", "publishing", "return"},
                   current : BOOLEAN, content : Contents \cup {NoContent},
                   ok : BOOLEAN, failed : BOOLEAN]

Idle == [pc |-> "idle", current |-> FALSE, content |-> NoContent, ok |-> FALSE, failed |-> FALSE]

Bootstrapped == [exists |-> TRUE, content |-> NoContent, phase |-> "", published |-> FALSE]

TypeOK ==
    /\ PubTypeOK
    /\ adv \in Local
    /\ seen \in [exists : BOOLEAN, current : BOOLEAN]
    /\ wake \in [queued : BOOLEAN, scheduled : BOOLEAN]
    /\ rec \in Reconciliation
    /\ CollectorTypeOK

\* ensureAdvertisementExists has run and the manager has filled its cache.
Started ==
    /\ seen' = [exists |-> TRUE, current |-> TRUE]
    /\ wake' = [queued |-> TRUE, scheduled |-> FALSE]
    /\ rec' = Idle

Init ==
    /\ PubInit
    /\ adv = Bootstrapped
    /\ seen = [exists |-> TRUE, current |-> TRUE]
    /\ wake = [queued |-> TRUE, scheduled |-> FALSE]
    /\ rec = Idle
    /\ CollectorInit

-----------------------------------------------------------------------------
(* What wakes the reconciler.                                              *)

Queue == wake' = [wake EXCEPT !.queued = TRUE]

\* A node or a pod changes: findAdvertisementsForNode, findAdvertisementsForPod.
NodeOrPodChanges ==
    /\ NodesChange \/ PodsChange
    /\ Queue
    /\ UNCHANGED <<pubVars, adv, seen, rec, reading>>

\* No watch of this controller reports a ProviderInstruction.
InstructionChanges ==
    /\ InstructionsChange
    /\ UNCHANGED <<pubVars, adv, seen, wake, rec, reading>>

Deliver ==
    /\ ~seen.current
    /\ seen' = [exists |-> adv.exists, current |-> TRUE]
    /\ Queue
    /\ UNCHANGED <<pubVars, adv, rec, collectorVars>>

TimerFires ==
    /\ wake.scheduled
    /\ wake' = [queued |-> TRUE, scheduled |-> FALSE]
    /\ UNCHANGED <<pubVars, adv, seen, rec, collectorVars>>

OperatorDeletes ==
    /\ adv.exists
    /\ adv' = [Bootstrapped EXCEPT !.exists = FALSE]
    /\ seen' = [seen EXCEPT !.current = FALSE]
    /\ rec' = [rec EXCEPT !.current = FALSE]
    /\ UNCHANGED <<pubVars, wake, collectorVars>>

\* The process dies and comes up again; a request under way is cut off.
Restart ==
    /\ Started
    /\ adv' = IF adv.exists THEN adv ELSE Bootstrapped
    /\ pub' = NotPublishing
    /\ reading' = NotReading
    /\ UNCHANGED <<transport, ad, cluster>>

-----------------------------------------------------------------------------
(* Reconcile.                                                              *)

Take == wake.queued /\ rec.pc = "idle"

\* It may have been deleted; the agent creates it again only when it starts.
ReconcileNotFound ==
    /\ Take /\ ~seen.exists
    /\ wake' = [wake EXCEPT !.queued = FALSE]
    /\ UNCHANGED <<pubVars, adv, seen, rec, collectorVars>>

ReconcileFound ==
    /\ Take /\ seen.exists
    /\ rec' = [Idle EXCEPT !.pc = "collect", !.current = seen.current]
    /\ wake' = [wake EXCEPT !.queued = FALSE]
    /\ UNCHANGED <<pubVars, adv, seen, collectorVars>>

Collect ==
    /\ rec.pc = "collect"
    /\ ListNodes \/ ListPods
    /\ UNCHANGED <<pubVars, adv, seen, wake, rec>>

\* Mutant: a measurement made once is kept.
CollectedOnce ==
    /\ rec.pc = "collect"
    /\ ListInstructions
    /\ rec' = [rec EXCEPT !.pc = "update", !.ok = TRUE,
                          !.content = IF adv.content = NoContent THEN Measured ELSE adv.content]
    /\ UNCHANGED <<pubVars, adv, seen, wake>>

\* main gives the collector the cluster's ID, so that GetClusterID cannot fail.
Collected ==
    /\ rec.pc = "collect"
    /\ ListInstructions
    /\ rec' = [rec EXCEPT !.pc = "update", !.content = Measured, !.ok = TRUE]
    /\ UNCHANGED <<pubVars, adv, seen, wake>>

CollectFails ==
    /\ rec.pc = "collect"
    /\ ListFails
    /\ rec' = [rec EXCEPT !.pc = "status"]
    /\ UNCHANGED <<pubVars, adv, seen, wake>>

\* A write leaves the cache behind, unless it changes nothing: the timestamps
\* in it have the precision of a second.
Write(obj) ==
    /\ adv.exists /\ rec.current
    /\ adv' = obj
    /\ \/ seen' = [seen EXCEPT !.current = FALSE]
       \/ obj = adv /\ UNCHANGED seen

SpecWritten ==
    /\ rec.pc = "update"
    /\ Write([adv EXCEPT !.content = rec.content])
    /\ rec' = [rec EXCEPT !.pc = "status"]
    /\ UNCHANGED <<pubVars, wake, collectorVars>>

\* Mutant: the error is logged and the reconciliation goes on.
SpecErrorIgnored ==
    /\ rec.pc = "update"
    /\ UNCHANGED <<adv, seen>> \/ Write([adv EXCEPT !.content = rec.content])
    /\ rec' = [rec EXCEPT !.pc = "status"]
    /\ UNCHANGED <<pubVars, wake, collectorVars>>

\* A conflict, a deleted object or a failure on the way: Reconcile returns the
\* error before anything is published.
SpecFailed ==
    /\ rec.pc = "update"
    /\ UNCHANGED <<adv, seen>> \/ Write([adv EXCEPT !.content = rec.content])
    /\ rec' = Idle
    /\ Queue
    /\ UNCHANGED <<pubVars, collectorVars>>

WithStatus == [adv EXCEPT !.phase = IF rec.ok THEN "Active" ELSE "Error", !.published = rec.ok]

\* updateStatus: the status is written before the advertisement is published.
StatusWritten ==
    /\ rec.pc = "status"
    /\ Write(WithStatus)
    /\ rec' = [rec EXCEPT !.pc = IF rec.ok THEN "publish" ELSE "return"]
    /\ UNCHANGED <<pubVars, wake, collectorVars>>

\* Its error is returned only after the advertisement has been published.
StatusFailed ==
    /\ rec.pc = "status"
    /\ UNCHANGED <<adv, seen>> \/ Write(WithStatus)
    /\ rec' = [rec EXCEPT !.pc = IF rec.ok THEN "publish" ELSE "return", !.failed = TRUE]
    /\ UNCHANGED <<pubVars, wake, collectorVars>>

StartPublishing ==
    /\ rec.pc = "publish"
    /\ PublishAdvertisement(Sent(rec.content))
    /\ rec' = [rec EXCEPT !.pc = "publishing"]
    /\ UNCHANGED <<adv, seen, wake, collectorVars>>

\* No broker is configured.
NothingToPublishTo ==
    /\ rec.pc = "publish" /\ transport = "none"
    /\ rec' = [rec EXCEPT !.pc = "return"]
    /\ UNCHANGED <<pubVars, adv, seen, wake, collectorVars>>

Publish ==
    /\ rec.pc = "publishing"
    /\ PublishStep
    /\ UNCHANGED advVars

\* Whether it was published or not is logged only.
Published ==
    /\ rec.pc = "publishing" /\ pub.pc = "idle"
    /\ rec' = [rec EXCEPT !.pc = "return"]
    /\ UNCHANGED <<pubVars, adv, seen, wake, collectorVars>>

\* Mutant: the error of updateStatus is not returned.
ReturnErrorDropped ==
    /\ rec.pc = "return"
    /\ rec' = Idle
    /\ IF rec.failed THEN UNCHANGED wake ELSE wake' \in {wake, [wake EXCEPT !.scheduled = TRUE]}
    /\ UNCHANGED <<pubVars, adv, seen, collectorVars>>

\* An error queues the key again; RequeueAfter schedules it, unless the clock
\* passed the next boundary while time.Until was computed: then it is not
\* positive, and nothing is scheduled.
Return ==
    /\ rec.pc = "return"
    /\ rec' = Idle
    /\ IF rec.failed THEN Queue ELSE wake' \in {wake, [wake EXCEPT !.scheduled = TRUE]}
    /\ UNCHANGED <<pubVars, adv, seen, collectorVars>>

Reconcile ==
    \/ ReconcileNotFound \/ ReconcileFound \/ Collect \/ Collected \/ CollectFails
    \/ SpecWritten \/ SpecFailed \/ StatusWritten \/ StatusFailed
    \/ StartPublishing \/ NothingToPublishTo \/ Publish \/ Published \/ Return

Next ==
    \/ NodeOrPodChanges \/ InstructionChanges \/ OperatorDeletes \/ Restart
    \/ BrokerLocks /\ UNCHANGED advVars
    \/ Deliver \/ TimerFires
    \/ Reconcile

Spec == Init /\ [][Next]_vars

\* The worker keeps running.
FairSpec == Spec /\ WF_vars(Reconcile)

-----------------------------------------------------------------------------

\* What is sent to the broker is what the Advertisement object says, also when
\* a write failed, the object was read stale or the agent was restarted in
\* between: r.Update returns early unless the measurement was stored.
PublishesTheStored == pub.pc # "idle" /\ adv.exists => pub.content = Sent(adv.content)

\* Over the legacy transport the agent never changes the Reserved field of an
\* advertisement the broker has: the resourceVersion it sends with the update
\* makes the broker's API server refuse a value that is out of date.
LegacyKeepsReserved == [][transport = "kubernetes" /\ ReservedChanged => BrokerLocks]_vars

\* Over HTTP it changes the field only if its GET brought no answer or the
\* broker's copy has changed since, however often the two requests are retried.
HttpKeepsReservedItRead ==
    [][transport = "http" /\ pub.current /\ ReservedChanged => BrokerLocks]_vars

\* "Agent MUST NOT overwrite" the broker's Reserved field: no step but the
\* broker's own changes it.
HttpKeepsReserved == [][transport = "http" /\ ReservedChanged => BrokerLocks]_vars

\* "Clone request for retry (body can only be read once)": the clone doWithRetry
\* makes for an attempt of the POST has its body still to be read.
RetryHasBody == pub.pc = "post" => pub.body = "unread"

\* "Published indicates if this advertisement has been published to the broker":
\* when a reconciliation that tried to publish it returns, an advertisement
\* marked so is what the broker has.
PublishedMeansPublished ==
    transport # "none" /\ rec.pc = "return" /\ rec.ok /\ adv.published => ad.content = Sent(adv.content)

\* Every publication comes to an end, whatever the broker answers: the retries
\* of each request are bounded, so the reconciler's only worker is not held up
\* for ever.
PublicationEnds == rec.pc = "publishing" ~> rec.pc = "return" \/ rec.pc = "idle"

=============================================================================
