------------------------- MODULE InstructionControllers -------------------------
(***************************************************************************)
(* ProviderInstructionReconciler and ReservationInstructionReconciler: one *)
(* worker each, fed by a work queue that informer events, requeue timers   *)
(* and failed reconciliations fill. A reconciliation is several steps, for *)
(* the object it read may change before its status update arrives.         *)
(***************************************************************************)
EXTENDS KubeCluster

CONSTANT FiveMinutes    \* the fallback requeue interval, in ticks

ASSUME RequeueAssumption == FiveMinutes \in Nat \ {0}

VARIABLES
    queue,   \* keys that wait for their controller's worker
    timer,   \* when a key scheduled with RequeueAfter falls due, or NoTime
    rec      \* the reconciliation each worker is in

ctrlVars == <<queue, timer, rec>>

Steps == {"idle", "expire", "acknowledge", "requeue"}

Reconciliation == [pc : Steps, key : Key \cup {NoKey}, obj : Instruction]

Idle == [pc |-> "idle", key |-> NoKey, obj |-> Absent]

CtrlTypeOK ==
    /\ queue \in SUBSET Key
    /\ timer \in [Key -> Time]
    /\ rec \in [Role -> Reconciliation]

CtrlInit ==
    /\ queue = {}
    /\ timer = [k \in Key |-> NoTime]
    /\ rec = [role \in Role |-> Idle]

-----------------------------------------------------------------------------
(* What wakes a controller.                                                *)

\* The manager has started: the cache is filled from a list, and every object
\* in it is queued.
CacheSync ==
    /\ ~synced
    /\ synced' = TRUE
    /\ cached' = stored
    /\ queue' = {k \in Key : stored[k].exists}
    /\ UNCHANGED <<now, rsv, stored, upsets, timer, rec>>

\* A watch event brings the cache up to date and queues the key; the
\* controllers filter no event, their own status updates included.
Deliver(k) ==
    /\ synced
    /\ cached[k] # stored[k]
    /\ cached' = [cached EXCEPT ![k] = stored[k]]
    /\ queue' = queue \cup {k}
    /\ UNCHANGED <<now, rsv, stored, synced, upsets, timer, rec>>

TimerFires(k) ==
    /\ timer[k] # NoTime /\ timer[k] <= now
    /\ timer' = [timer EXCEPT ![k] = NoTime]
    /\ queue' = queue \cup {k}
    /\ UNCHANGED <<kubeVars, rec>>

-----------------------------------------------------------------------------
(* Reconcile. Take and Begin are its first steps: the worker picks a key   *)
(* and reads the object from the cache. A queue that merges a delayed entry*)
(* with an immediate one drops the timer, one that does not keeps it.      *)

Take(k) ==
    /\ synced
    /\ k \in queue
    /\ rec[k.role].pc = "idle"
    /\ queue' = queue \ {k}
    /\ timer' \in {timer, [timer EXCEPT ![k] = NoTime]}

Begin(k, step, obj) == rec' = [rec EXCEPT ![k.role] = [pc |-> step, key |-> k, obj |-> obj]]

SetStatus(obj, acked) == [obj EXCEPT !.acked = acked, !.lastUpdate = Sec(now)]

ReconcileNotFound(k) ==
    /\ Take(k)
    /\ ~cached[k].exists
    /\ UNCHANGED <<kubeVars, rec>>

\* Mutant: every expired instruction is written, marked or not.
MarkAlways(k, obj) == TRUE

\* An expired instruction is marked not acknowledged. The provider's
\* controller writes the mark every time, the requester's only when the
\* instruction was delivered.
MustMark(k, obj) == k.role = "provider" \/ obj.acked

\* Mutant: an instruction counts as expired at its very expiry.
ExpiredAtOnce(k) ==
    /\ Take(k)
    /\ cached[k].exists /\ cached[k].expiresAt # NoTime /\ cached[k].expiresAt <= now
    /\ MustMark(k, cached[k])
    /\ Begin(k, "expire", SetStatus(cached[k], FALSE))
    /\ UNCHANGED kubeVars

\* Mutant: any instruction with an expiry counts as expired.
ExpiredIfSet(k) ==
    /\ Take(k)
    /\ cached[k].exists /\ cached[k].expiresAt # NoTime
    /\ MustMark(k, cached[k])
    /\ Begin(k, "expire", SetStatus(cached[k], FALSE))
    /\ UNCHANGED kubeVars

ReconcileExpired(k) ==
    /\ Take(k)
    /\ cached[k].exists /\ Expired(cached[k].expiresAt)
    /\ MustMark(k, cached[k])
    /\ Begin(k, "expire", SetStatus(cached[k], FALSE))
    /\ UNCHANGED kubeVars

ReconcileSettled(k) ==
    /\ Take(k)
    /\ cached[k].exists /\ Expired(cached[k].expiresAt)
    /\ ~MustMark(k, cached[k])
    /\ UNCHANGED <<kubeVars, rec>>

\* Mutant: an acknowledged instruction is not looked at again.
AckedIsDone(k) ==
    /\ Take(k)
    /\ cached[k].exists /\ ~Expired(cached[k].expiresAt)
    /\ cached[k].acked
    /\ UNCHANGED <<kubeVars, rec>>

ReconcileAcked(k) ==
    /\ Take(k)
    /\ cached[k].exists /\ ~Expired(cached[k].expiresAt)
    /\ cached[k].acked
    /\ Begin(k, "requeue", cached[k])
    /\ UNCHANGED kubeVars

\* Mutant: only an instruction without a status is acknowledged.
NewOnlyOnce(k) ==
    /\ Take(k)
    /\ cached[k].exists /\ ~Expired(cached[k].expiresAt)
    /\ ~cached[k].acked /\ cached[k].lastUpdate = NoTime
    /\ Begin(k, "acknowledge", SetStatus(cached[k], TRUE))
    /\ UNCHANGED kubeVars

ReconcileNew(k) ==
    /\ Take(k)
    /\ cached[k].exists /\ ~Expired(cached[k].expiresAt)
    /\ ~cached[k].acked
    /\ Begin(k, "acknowledge", SetStatus(cached[k], TRUE))
    /\ UNCHANGED kubeVars

Writing(role) == rec[role].pc \in {"expire", "acknowledge"}

\* r.Status().Update succeeded: an expired instruction is done with, a new one
\* goes on to schedule its expiry.
StatusWritten(role) ==
    /\ Writing(role)
    /\ StatusUpdateSucceeds(rec[role].key, rec[role].obj)
    /\ rec' = [rec EXCEPT ![role] = IF @.pc = "expire" THEN Idle ELSE [@ EXCEPT !.pc = "requeue"]]
    /\ UNCHANGED <<now, rsv, cached, synced, queue, timer>>

\* Mutant: the error is logged and not returned.
StatusErrorIgnored(role) ==
    /\ Writing(role)
    /\ StatusUpdateFails(rec[role].key, rec[role].obj)
    /\ rec' = [rec EXCEPT ![role] = Idle]
    /\ UNCHANGED <<now, rsv, cached, synced, queue, timer>>

\* Mutant: after a conflict the same status is sent with the new version.
StatusForced(role) ==
    /\ Writing(role)
    /\ StatusUpdateFails(rec[role].key, rec[role].obj)
    /\ rec' = [rec EXCEPT ![role].obj.rv = stored'[rec[role].key].rv]
    /\ UNCHANGED <<now, rsv, cached, synced, queue, timer>>

\* It failed: Reconcile returns the error and the key is queued again.
StatusFailed(role) ==
    /\ Writing(role)
    /\ StatusUpdateFails(rec[role].key, rec[role].obj)
    /\ rec' = [rec EXCEPT ![role] = Idle]
    /\ queue' = queue \cup {rec[role].key}
    /\ UNCHANGED <<now, rsv, cached, synced, timer>>

\* RequeueAfter: the time until expiry while that is positive, else five
\* minutes.
DueAt(t) == IF t # NoTime /\ t > now THEN t ELSE now + FiveMinutes

\* The queue keeps the earlier of two times for the same key.
Earlier(s, t) == IF s # NoTime /\ s <= t THEN s ELSE t

\* Mutant: no fallback when the expiry has been reached.
RequeueIfAhead(role) ==
    LET k == rec[role].key
        t == rec[role].obj.expiresAt
    IN /\ rec[role].pc = "requeue"
       /\ timer' = IF t # NoTime /\ t > now THEN [timer EXCEPT ![k] = Earlier(@, t)] ELSE timer
       /\ rec' = [rec EXCEPT ![role] = Idle]
       /\ UNCHANGED <<kubeVars, queue>>

Requeue(role) ==
    LET k == rec[role].key IN
    /\ rec[role].pc = "requeue"
    /\ timer' = [timer EXCEPT ![k] = Earlier(@, DueAt(rec[role].obj.expiresAt))]
    /\ rec' = [rec EXCEPT ![role] = Idle]
    /\ UNCHANGED <<kubeVars, queue>>

\* The agent process dies and is started again: what it kept in memory is gone.
ControllersStop ==
    /\ synced' = FALSE
    /\ cached' = [k \in Key |-> Absent]
    /\ queue' = {}
    /\ timer' = [k \in Key |-> NoTime]
    /\ rec' = [role \in Role |-> Idle]
    /\ UNCHANGED <<now, rsv, stored>>

-----------------------------------------------------------------------------

Wake == CacheSync \/ \E k \in Key : Deliver(k) \/ TimerFires(k)

Reconcile(role) ==
    \/ \E k \in {x \in Key : x.role = role} :
          \/ ReconcileNotFound(k)
          \/ ReconcileExpired(k)
          \/ ReconcileSettled(k)
          \/ ReconcileAcked(k)
          \/ ReconcileNew(k)
    \/ StatusWritten(role)
    \/ StatusFailed(role)
    \/ Requeue(role)

-----------------------------------------------------------------------------
(* What must hold of the controllers whichever transport feeds them.       *)

\* Nothing is left to do for an instruction that has expired and is not
\* acknowledged.
Settled(k) == Expired(stored[k].expiresAt) /\ ~stored[k].acked

\* Something will make the controller look at k again.
Wakeup(k) ==
    \/ ~synced
    \/ k \in queue
    \/ timer[k] # NoTime
    \/ cached[k].rv # stored[k].rv
    \/ rec[k.role].pc # "idle" /\ rec[k.role].key = k

\* A worker that is busy holds a key of its own kind.
OwnKey == \A role \in Role : rec[role].pc # "idle" =>
              rec[role].key \in Key /\ rec[role].key.role = role

\* The cache never runs ahead of the server, and where the two agree on the
\* version they agree on the object.
CacheCoherent == \A k \in Key :
    /\ cached[k].rv <= stored[k].rv
    /\ synced /\ cached[k].rv = stored[k].rv => cached[k] = stored[k]

\* A status update the server would accept was computed from the object as it
\* still is: same expiry, the mark still called for, and what the branch of
\* Reconcile was taken for still holds.
FreshVerdict == \A role \in Role : Writing(role) =>
    LET k == rec[role].key
        obj == rec[role].obj
    IN /\ obj.rv <= stored[k].rv
       /\ obj.rv = stored[k].rv => obj.expiresAt = stored[k].expiresAt
       /\ rec[role].pc = "acknowledge" => obj.acked
       /\ rec[role].pc = "expire" =>
            /\ Expired(obj.expiresAt) /\ ~obj.acked
            /\ obj.rv = stored[k].rv => MustMark(k, stored[k])

\* No wake-up is lost: an instruction that still has to be acknowledged, or
\* whose acknowledgement still has to be withdrawn at its expiry, is queued,
\* scheduled, announced by an undelivered event or in the worker's hands.
\* (Every branch of the two Reconcile functions that returns without an error
\* must schedule the object again unless it is expired and marked.)
NoLostWakeup == \A k \in Key : stored[k].exists /\ ~Settled(k) => Wakeup(k)

\* A reconciliation that read k before its expiry and is about to acknowledge it.
LateAck(k) == rec[k.role].pc = "acknowledge" /\ rec[k.role].key = k

LeftAlone(k) == stored'[k] = stored[k] \/ ~stored'[k].exists

\* The hold an instruction stands for: what calculateReservedResources counts
\* is exactly what is in force.
HoldOf(k) ==
    IF ~stored[k].exists THEN "none"
    ELSE IF Expired(stored[k].expiresAt) THEN "over"
    ELSE IF stored[k].acked THEN "inForce" ELSE "noted"

Lifecycle == INSTANCE InstructionLifecycle WITH hold <- [k \in Key |-> HoldOf(k)]

=============================================================================
