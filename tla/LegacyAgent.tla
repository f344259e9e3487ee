------------------------------ MODULE LegacyAgent ------------------------------
(***************************************************************************)
(* The agent run with the legacy Kubernetes transport: the reservation     *)
(* watcher in place of the poller, over the same cluster and beside the    *)
(* same two instruction controllers. Here both the watcher and a controller*)
(* write an instruction's status.                                          *)
(***************************************************************************)
EXTENDS InstructionControllers, ReservationWatcher

vars == <<kubeVars, ctrlVars, watchVars>>

Init == KubeInit /\ CtrlInit /\ WatchInit

Restart ==
    /\ Upset
    /\ ControllersStop
    /\ WatcherStop

\* Deletion takes the recorded resourceVersion with the rest of the status.
InstructionDeleted(k) ==
    /\ OperatorDelete(k)
    /\ observed' = [observed EXCEPT ![k] = NoSnapshot]
    /\ UNCHANGED <<watch, events>>

EnvironmentStep ==
    /\ \/ Tick /\ UNCHANGED watchVars
       \/ \E r \in Reservation : ReservationModified(r) \/ ReservationDeleted(r)
       \/ \E k \in Key : InstructionDeleted(k)
    /\ UNCHANGED ctrlVars
WakeStep      == Wake /\ UNCHANGED watchVars
ReconcileStep == \E role \in Role : Reconcile(role) /\ UNCHANGED watchVars
WatchStep     == Watch /\ UNCHANGED ctrlVars

Next == EnvironmentStep \/ WakeStep \/ ReconcileStep \/ WatchStep \/ Restart

Spec == Init /\ [][Next]_vars

\* As in HttpAgent, with the watching loop in place of the polling loop. That
\* a watch is ever closed is not assumed.
Fairness ==
    /\ WF_vars(Tick /\ UNCHANGED <<ctrlVars, watchVars>>)
    /\ WF_vars(CacheSync /\ UNCHANGED watchVars)
    /\ \A k \in Key : WF_vars(Deliver(k) /\ UNCHANGED watchVars)
    /\ \A k \in Key : WF_vars(TimerFires(k) /\ UNCHANGED watchVars)
    /\ \A role \in Role : WF_vars(Reconcile(role) /\ UNCHANGED watchVars)
    /\ WF_vars(WatchStep)

FairSpec == Spec /\ Fairness

-----------------------------------------------------------------------------

TypeOK == KubeTypeOK /\ CtrlTypeOK /\ WatchTypeOK

\* The watcher's events are applied in order: whatever is dropped, replayed by
\* a new watch, refused with a conflict or cut short by a restart, a written
\* instruction never goes back from a later expiry to an earlier one.
ExpiryNeverGoesBack ==
    [][\A k \in Key : stored[k].exists /\ stored'[k].exists
          => \/ stored'[k].expiresAt = stored[k].expiresAt
             \/ stored'[k].expiresAt > stored[k].expiresAt]_vars

\* An acknowledgement is taken back by the controller after the expiry, or by the
\* last write of an upsert of the same instruction. In particular no verdict
\* "expired" from before a renewal reaches the renewed instruction, and an upsert
\* whose object has been written since does not reset it.
OnlyAResetTakesBack ==
    [][\A k \in Key : stored[k].exists /\ stored[k].acked /\ stored'[k].exists /\ ~stored'[k].acked
          => \/ Expired(stored[k].expiresAt)
             \/ (ResetWritten \/ ResetFailed) /\ k = Current /\ watch.obj.rv = stored[k].rv]_vars

\* An instruction whose acknowledgement is missing, because it is new or
\* because the watcher has just taken it back, is acknowledged again unless it
\* expires or is deleted first: the two writers of its status do not keep each
\* other from it.
ResetIsMadeGood ==
    \A k \in Key : stored[k].exists /\ ~stored[k].acked
        ~> stored[k].acked \/ Expired(stored[k].expiresAt) \/ ~stored[k].exists

\* An event that was dropped, because the cache was not running yet, a write
\* failed or the channel was closed with events in it, is made good by the next
\* watch: once that is opened with the cache running and no more failures to
\* come, every reservation held until its expiry gets its instruction.
NewWatchBringsItBack ==
    \A k \in Key :
       watch.pc = "down" /\ synced /\ upsets = MaxUpsets /\ rsv[k.id].phase = "Reserved"
         ~> stored[k].exists \/ rsv[k.id].phase # "Reserved" \/ Expired(rsv[k.id].expiresAt)

\* "ObservedReservationResourceVersion is used to avoid double processing": a
\* reservation that has not changed since its instruction was last written
\* does not cost that instruction its acknowledgement.
NotProcessedTwice ==
    [][\A k \in Key : k.role = "requester" /\ stored[k].acked /\ stored'[k].exists /\ ~stored'[k].acked
          => Expired(stored[k].expiresAt) \/ observed'[k] # observed[k]]_vars

=============================================================================
