------------------------------- MODULE HttpAgent -------------------------------
(***************************************************************************)
(* The agent run with --broker-transport=http, as far as instructions go:  *)
(* the reservation poller and the two instruction controllers over one     *)
(* cluster, which main starts side by side.                                *)
(***************************************************************************)
EXTENDS InstructionControllers, ReservationPoller

vars == <<kubeVars, ctrlVars, poll>>

Init == KubeInit /\ CtrlInit /\ PollInit

\* The process is killed, at any step of any of its loops.
Restart ==
    /\ Upset
    /\ ControllersStop
    /\ PollerStop

EnvironmentStep == Environment /\ UNCHANGED <<ctrlVars, poll>>
WakeStep        == Wake /\ UNCHANGED poll
ReconcileStep   == \E role \in Role : Reconcile(role) /\ UNCHANGED poll
PollStep        == Poll /\ UNCHANGED ctrlVars

Next == EnvironmentStep \/ WakeStep \/ ReconcileStep \/ PollStep \/ Restart

Spec == Init /\ [][Next]_vars

\* Time passes, the manager starts its cache, watch events arrive, due timers
\* fire, each worker and the polling loop keep running. Nothing is assumed of
\* the broker, the operator or failures.
Fairness ==
    /\ WF_vars(Tick /\ UNCHANGED <<ctrlVars, poll>>)
    /\ WF_vars(CacheSync /\ UNCHANGED poll)
    /\ \A k \in Key : WF_vars(Deliver(k) /\ UNCHANGED poll)
    /\ \A k \in Key : WF_vars(TimerFires(k) /\ UNCHANGED poll)
    /\ \A role \in Role : WF_vars(Reconcile(role) /\ UNCHANGED poll)
    /\ WF_vars(PollStep)

FairSpec == Spec /\ Fairness

-----------------------------------------------------------------------------

TypeOK == KubeTypeOK /\ CtrlTypeOK /\ PollTypeOK

\* The poller handles the reservations of the role it fetched.
OwnReservations ==
    /\ \A d \in poll.todo : d.id \in InRole(poll.role)
    /\ poll.pc = "create" => poll.key \in Key

\* The inductive invariant: what NoLostWakeup, the refinement and
\* DeliveredSettlesForGood rest on. A reconciliation works on a snapshot, so its
\* verdict counts only while the version it carries is still the current one;
\* a stale one is refused by the server and the key queued again.
Inv ==
    /\ TypeOK
    /\ OwnKey
    /\ OwnReservations
    /\ CacheCoherent
    /\ FreshVerdict
    /\ NoLostWakeup

\* The poller and the controllers implement the lifecycle: between them they
\* never drop a hold that is in force before its stored expiry, and never
\* revive one that is over.
ImplementsLifecycle == Lifecycle!Spec

-----------------------------------------------------------------------------
(* What happens to an instruction at and after its expiry.                 *)

\* Once a ReservationInstruction has expired and is marked undelivered its
\* controller never writes it again (the "if Status.Delivered" around the
\* status update), unless an acknowledgement was already under way.
DeliveredSettlesForGood ==
    [][\A k \in Key : k.role = "requester" /\ stored[k].exists /\ Settled(k) /\ ~LateAck(k)
          => LeftAlone(k)]_vars

\* Of a ProviderInstruction the code says "No need to requeue - it's expired":
\* once its controller has written that it expired, it does not write it again.
\* Nothing else over HTTP writes a status, so one that is not acknowledged and
\* has a LastUpdateTime has been marked before.
EnforcedSettlesForGood ==
    [][\A k \in Key : /\ k.role = "provider" /\ stored[k].exists /\ Settled(k) /\ ~LateAck(k)
                      /\ stored[k].lastUpdate # NoTime
          => LeftAlone(k)]_vars

\* The bounded clock ends before the controller's next look at k.
BeyondClock(k) == timer[k] # NoTime /\ timer[k] > MaxTime

\* An acknowledgement does not outlive its instruction's expiry for ever, not
\* even one that was written after the expiry or whose timer was set for the
\* very instant of it: Enforced and Delivered are withdrawn.
ExpiredIsReleased ==
    \A k \in Key : stored[k].exists /\ stored[k].acked /\ Expired(stored[k].expiresAt)
        ~> ~stored[k].acked \/ BeyondClock(k)

\* Every reservation the broker holds for this cluster is acknowledged by its
\* controller, whatever fetches, creations, status updates and processes fail
\* on the way, unless the broker lets go of it or its time passes first.
ReservedIsHeld ==
    \A k \in Key : rsv[k.id].phase = "Reserved"
        ~> \/ stored[k].acked
           \/ rsv[k.id].phase # "Reserved"
           \/ Expired(Marshal(rsv[k.id].expiresAt))

\* "ExpiresAt mirrors broker expiry": an instruction in the cluster comes to
\* carry the expiry the broker has for the reservation, as long as the broker
\* holds it and the instruction is not deleted.
ExpiryMirrored ==
    \A k \in Key : stored[k].exists /\ rsv[k.id].phase = "Reserved"
        ~> \/ stored[k].expiresAt = Marshal(rsv[k.id].expiresAt)
           \/ rsv[k.id].phase # "Reserved"
           \/ ~stored[k].exists

=============================================================================
