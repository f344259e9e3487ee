--------------------------- MODULE ReservationWatcher ---------------------------
(***************************************************************************)
(* The legacy Kubernetes transport's ReservationWatcher: a loop of its own *)
(* that watches the broker's Reservation objects and writes the instruction*)
(* of every one it sees in phase Reserved, whatever the kind of the event. *)
(* An upsert is a read from the cache and two writes; an error on the way  *)
(* drops the event, and nothing but a new watch brings it back.            *)
(***************************************************************************)
EXTENDS KubeCluster, Sequences

VARIABLES
    watch,     \* where the loop is
    events,    \* the watch channel, for each reservation in order
    observed   \* Status.ObservedReservationResourceVersion of each instruction

watchVars == <<watch, events, observed>>

\* A Reservation object as an event carries it. The broker never comes back to
\* a state it has left and a deletion is a version of its own, so that state and
\* deletion together stand for the resourceVersion too.
Snapshot == [phase : {"Pending", "Reserved", "Released"}, expiresAt : Time, deleted : BOOLEAN]

\* The object in state v, in an event that does or does not tell its deletion.
Shown(v, deleted) == [phase |-> v.phase, expiresAt |-> v.expiresAt, deleted |-> deleted]

\* The resourceVersion an instruction that was never processed records.
NoSnapshot == [phase |-> "none", expiresAt |-> NoTime, deleted |-> FALSE]

WatchSteps == {"down", "next", "get", "create", "update", "status"}

WatchState == [pc : WatchSteps, todo : SUBSET Role, id : Reservation \cup {NoKey},
               seen : Snapshot \cup {NoSnapshot}, obj : Instruction]

Down == [pc |-> "down", todo |-> {}, id |-> NoKey, seen |-> NoSnapshot, obj |-> Absent]

Listening == [Down EXCEPT !.pc = "next"]

Silence == [r \in Reservation |-> <<>>]

WatchTypeOK ==
    /\ watch \in WatchState
    /\ events \in [Reservation -> Seq(Snapshot)]
    /\ observed \in [Key -> Snapshot \cup {NoSnapshot}]

WatchInit ==
    /\ watch = Down
    /\ events = Silence
    /\ observed = [k \in Key |-> NoSnapshot]

-----------------------------------------------------------------------------
(* The watch on the broker.                                                *)

\* Mutant: the watch resumes where the last one ended.
WatchResumes ==
    /\ watch.pc = "down"
    /\ watch' = Listening
    /\ events' = Silence
    /\ UNCHANGED <<kubeVars, observed>>

\* A watch without a resourceVersion starts with an ADDED event for every
\* reservation there is.
WatchOpens ==
    /\ watch.pc = "down"
    /\ watch' = Listening
    /\ events' = [r \in Reservation |-> <<Shown(rsv[r], FALSE)>>]
    /\ UNCHANGED <<kubeVars, observed>>

\* The loop sleeps and tries again.
WatchFails ==
    /\ watch.pc = "down"
    /\ Upset
    /\ UNCHANGED <<now, rsv, stored, cached, synced, watchVars>>

\* The channel is closed, with events in it or without.
WatchCloses ==
    /\ watch.pc = "next"
    /\ Upset
    /\ watch' = Down
    /\ events' = Silence
    /\ UNCHANGED <<now, rsv, stored, cached, synced, observed>>

\* What the watch makes of a change at the broker.
Announce(r, s) == events' = IF watch.pc = "down" THEN events
                            ELSE [events EXCEPT ![r] = Append(@, s)]

\* A MODIFIED event carries the new state; a DELETED event carries the last one
\* under the resourceVersion of the deletion.
ReservationModified(r) ==
    /\ BrokerReserve(r) \/ BrokerRenew(r) \/ BrokerRelease(r)
    /\ Announce(r, Shown(rsv'[r], FALSE))
    /\ UNCHANGED <<watch, observed>>

ReservationDeleted(r) ==
    /\ BrokerRelease(r)
    /\ Announce(r, Shown(rsv[r], TRUE))
    /\ UNCHANGED <<watch, observed>>

-----------------------------------------------------------------------------
(* The loop body.                                                          *)

RolesOf(r) == {role \in Role : r \in (IF role = "requester" THEN Requester ELSE Provider)}

\* Start: the next event. The requester's part comes before the provider's.
EventSkipped(r) ==
    /\ watch.pc = "next" /\ events[r] # <<>> /\ Head(events[r]).phase # "Reserved"
    /\ events' = [events EXCEPT ![r] = Tail(@)]
    /\ UNCHANGED <<kubeVars, watch, observed>>

\* Mutant: the latest event is handled first.
LatestTaken(r) ==
    LET n == Len(events[r]) IN
    /\ watch.pc = "next" /\ n > 0 /\ events[r][n].phase = "Reserved"
    /\ watch' = [Listening EXCEPT !.pc = "get", !.todo = RolesOf(r), !.id = r, !.seen = events[r][n]]
    /\ events' = [events EXCEPT ![r] = SubSeq(@, 1, n - 1)]
    /\ UNCHANGED <<kubeVars, observed>>

EventTaken(r) ==
    /\ watch.pc = "next" /\ events[r] # <<>> /\ Head(events[r]).phase = "Reserved"
    /\ watch' = [Listening EXCEPT !.pc = "get", !.todo = RolesOf(r), !.id = r, !.seen = Head(events[r])]
    /\ events' = [events EXCEPT ![r] = Tail(@)]
    /\ UNCHANGED <<kubeVars, observed>>

Current == [role |-> IF "requester" \in watch.todo THEN "requester" ELSE "provider", id |-> watch.id]

\* The upsert of one role is over, whether it went well or the error was logged.
UpsertDone == LET rest == watch.todo \ {Current.role}
              IN IF rest = {} THEN Listening
                 ELSE [watch EXCEPT !.pc = "get", !.todo = rest, !.obj = Absent]

\* The spec made of the event; an expiry that is missing or cannot be parsed is
\* NoTime already, the agent tells neither from the other.
SpecOf(t) == [Absent EXCEPT !.exists = TRUE, !.expiresAt = Marshal(t)]

\* Get from a cache that is not running yet is an error other than NotFound.
GetFails ==
    /\ watch.pc = "get" /\ ~synced
    /\ watch' = UpsertDone
    /\ UNCHANGED <<kubeVars, events, observed>>

GetNotFound ==
    /\ watch.pc = "get" /\ synced /\ ~cached[Current].exists
    /\ watch' = [watch EXCEPT !.pc = "create", !.obj = SpecOf(watch.seen.expiresAt)]
    /\ UNCHANGED <<kubeVars, events, observed>>

GetFound ==
    /\ watch.pc = "get" /\ synced /\ cached[Current].exists
    /\ watch' = [watch EXCEPT !.pc = "update",
                              !.obj = [cached[Current] EXCEPT !.expiresAt = Marshal(watch.seen.expiresAt)]]
    /\ UNCHANGED <<kubeVars, events, observed>>

\* The client decodes the server's answer into the object it sent.
SpecWritten ==
    /\ \/ watch.pc = "create" /\ CreateSucceeds(Current, watch.obj)
       \/ watch.pc = "update" /\ SpecUpdateSucceeds(Current, watch.obj)
    /\ watch' = [watch EXCEPT !.pc = "status", !.obj = stored'[Current]]
    /\ UNCHANGED <<now, rsv, cached, synced, events, observed>>

SpecFailed ==
    /\ \/ watch.pc = "create" /\ CreateFails(Current, watch.obj)
       \/ watch.pc = "update" /\ SpecUpdateFails(Current, watch.obj)
    /\ watch' = UpsertDone
    /\ UNCHANGED <<now, rsv, cached, synced, events, observed>>

\* The last write takes the acknowledgement back, so that the controller gives
\* it anew.
Reset(obj) == [obj EXCEPT !.acked = FALSE, !.lastUpdate = Sec(now)]

\* Mutant: the reservation's name is recorded in place of its version.
RecordName(k) == [observed EXCEPT ![k] = watch.id]

\* A ReservationInstruction also records the reservation's resourceVersion.
Record(k) == IF k.role = "requester" THEN [observed EXCEPT ![k] = watch.seen] ELSE observed

\* The store after the last write; a new record alone makes a new version.
PutReset(k) ==
    IF Record(k) = observed THEN PutStatus(k, Reset(watch.obj))
    ELSE [stored EXCEPT ![k].acked = FALSE, ![k].lastUpdate = Sec(now), ![k].rv = @ + 1]

\* Mutant: the status is patched without a resourceVersion.
ResetPatched ==
    /\ stored[Current].exists
    /\ stored' = PutReset(Current)
    /\ observed' = Record(Current)

ResetAccepted ==
    /\ Updatable(Current, watch.obj)
    /\ stored' = PutReset(Current)
    /\ observed' = Record(Current)

ResetWritten ==
    /\ watch.pc = "status"
    /\ ResetAccepted
    /\ watch' = UpsertDone
    /\ UNCHANGED <<now, rsv, cached, synced, upsets, events>>

ResetFailed ==
    /\ watch.pc = "status"
    /\ \/ ~Updatable(Current, watch.obj) /\ UNCHANGED <<stored, observed, upsets>>
       \/ Upset /\ (UNCHANGED <<stored, observed>> \/ ResetAccepted)
    /\ watch' = UpsertDone
    /\ UNCHANGED <<now, rsv, cached, synced, events>>

WatcherStop == watch' = Down /\ events' = Silence /\ UNCHANGED observed

-----------------------------------------------------------------------------

Watch ==
    \/ WatchOpens
    \/ WatchFails
    \/ WatchCloses
    \/ \E r \in Reservation : EventSkipped(r) \/ EventTaken(r)
    \/ GetFails \/ GetNotFound \/ GetFound
    \/ SpecWritten \/ SpecFailed
    \/ ResetWritten \/ ResetFailed

=============================================================================
