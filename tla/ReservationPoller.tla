--------------------------- MODULE ReservationPoller ---------------------------
(***************************************************************************)
(* The HTTP transport's ReservationPoller: a loop of its own that asks the *)
(* broker for this cluster's reservations, first as requester and then as  *)
(* provider, and creates an instruction for each one in phase Reserved that*)
(* has none. The answer is a snapshot: the broker and the controllers move *)
(* on while the poller works through it.                                   *)
(***************************************************************************)
EXTENDS KubeCluster

VARIABLE poll    \* where the loop is

\* A ReservationDTO, reduced to what the poller reads of it.
ReservationDTO == [id : Reservation, expiresAt : Time]

PollSteps == {"waiting", "fetch", "process", "create"}

PollState == [pc : PollSteps, role : Role, todo : SUBSET ReservationDTO, key : Key \cup {NoKey},
              expiresAt : Time]

Waiting == [pc |-> "waiting", role |-> "requester", todo |-> {}, key |-> NoKey, expiresAt |-> NoTime]

PollTypeOK == poll \in PollState

PollInit == poll = Waiting

InRole(role) == IF role = "requester" THEN Requester ELSE Provider

KeyOf(role, id) == [role |-> role, id |-> id]

-----------------------------------------------------------------------------

\* The ticker fires (or Start polls for the first time).
PollStart ==
    /\ poll.pc = "waiting"
    /\ poll' = [Waiting EXCEPT !.pc = "fetch"]
    /\ UNCHANGED kubeVars

\* pollAndProcess: the fetched reservations that are not Reserved are skipped.
FetchReservations ==
    /\ poll.pc = "fetch"
    /\ poll' = [poll EXCEPT !.pc = "process",
                            !.todo = {[id |-> r, expiresAt |-> rsv[r].expiresAt] :
                                      r \in {x \in InRole(poll.role) : rsv[x].phase = "Reserved"}}]
    /\ UNCHANGED kubeVars

\* Mutant: one role too many.
RoleBeyond == [Waiting EXCEPT !.pc = "fetch",
                              !.role = IF poll.role = "requester" THEN "provider" ELSE "none"]

\* The role after the requester's is the provider's; then the loop waits.
RoleDone == IF poll.role = "requester" THEN [Waiting EXCEPT !.pc = "fetch", !.role = "provider"]
            ELSE Waiting

\* Mutant: the first error ends the loop.
FetchFatal ==
    /\ poll.pc = "fetch"
    /\ Upset
    /\ poll' = [Waiting EXCEPT !.pc = "ended"]
    /\ UNCHANGED <<now, rsv, stored, cached, synced>>

FetchFailed ==
    /\ poll.pc = "fetch"
    /\ Upset
    /\ poll' = RoleDone
    /\ UNCHANGED <<now, rsv, stored, cached, synced>>

AllProcessed ==
    /\ poll.pc = "process" /\ poll.todo = {}
    /\ poll' = RoleDone
    /\ UNCHANGED kubeVars

\* The instruction is there already, or the cache cannot be read yet (the loop
\* is started before the manager): this reservation is left for the next poll.
InstructionExists(d) ==
    /\ poll.pc = "process" /\ d \in poll.todo
    /\ synced => cached[KeyOf(poll.role, d.id)].exists
    /\ poll' = [poll EXCEPT !.todo = @ \ {d}]
    /\ UNCHANGED kubeVars

InstructionMissing(d) ==
    /\ poll.pc = "process" /\ d \in poll.todo
    /\ synced /\ ~cached[KeyOf(poll.role, d.id)].exists
    /\ poll' = [poll EXCEPT !.pc = "create", !.todo = @ \ {d},
                            !.key = KeyOf(poll.role, d.id), !.expiresAt = d.expiresAt]
    /\ UNCHANGED kubeVars

\* The object createRequesterInstruction and createProviderInstruction build;
\* convertTimePtr keeps nil, marshalling cuts the rest to the second.
NewInstruction(t) == [Absent EXCEPT !.exists = TRUE, !.expiresAt = Marshal(t)]

Processed == [poll EXCEPT !.pc = "process", !.key = NoKey, !.expiresAt = NoTime]

InstructionCreated ==
    /\ poll.pc = "create"
    /\ CreateSucceeds(poll.key, NewInstruction(poll.expiresAt))
    /\ poll' = Processed
    /\ UNCHANGED <<now, rsv, cached, synced>>

\* The error is logged; the other reservations are processed all the same.
CreateFailed ==
    /\ poll.pc = "create"
    /\ CreateFails(poll.key, NewInstruction(poll.expiresAt))
    /\ poll' = Processed
    /\ UNCHANGED <<now, rsv, cached, synced>>

PollerStop == poll' = Waiting

-----------------------------------------------------------------------------

Poll ==
    \/ PollStart
    \/ FetchReservations
    \/ FetchFailed
    \/ AllProcessed
    \/ \E d \in poll.todo : InstructionExists(d) \/ InstructionMissing(d)
    \/ InstructionCreated
    \/ CreateFailed

=============================================================================
