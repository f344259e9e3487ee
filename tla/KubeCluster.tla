------------------------------ MODULE KubeCluster ------------------------------
(***************************************************************************)
(* What the agent's components share: the wall clock, the reservations the *)
(* broker holds, the instruction objects in the cluster's API server and   *)
(* the informer cache through which the manager's client reads them.       *)
(*                                                                         *)
(* The API server, the informer and the broker are external to the         *)
(* repository; they are modelled from how the agent uses them:             *)
(*   - every write that changes an object gives it a fresh resourceVersion,*)
(*     a write that changes nothing leaves it alone;                       *)
(*   - an update carries the resourceVersion it was read at and fails with *)
(*     a conflict when the object has moved on;                            *)
(*   - Get reads the cache, which lags the server, Create and Update go to *)
(*     the server.                                                         *)
(***************************************************************************)
EXTENDS Naturals, FiniteSets

CONSTANTS
    Provider,        \* reservations in which this cluster is the target
    Requester,       \* reservations this cluster asked for
    Expiries,        \* expiry times the broker may grant, NoTime among them or not
    NoTime,          \* a nil *time.Time
    NoKey,           \* no object key
    TicksPerSecond,  \* clock ticks in a second, the precision metav1.Time keeps
    MaxTime,         \* bound: the clock stops here
    MaxUpsets,       \* bound: API errors, broker errors, restarts and deletions
    MaxReserved,     \* bound: reservations the broker grants
    CanRenew         \* does the broker move the expiry of a reservation it holds?

ASSUME KubeAssumption ==
    /\ TicksPerSecond \in Nat \ {0}
    /\ MaxTime \in Nat
    /\ MaxUpsets \in Nat
    /\ MaxReserved \in Nat
    /\ NoTime \notin Nat
    /\ Expiries \subseteq Nat \cup {NoTime}
    /\ CanRenew \in BOOLEAN

Role == {"requester", "provider"}
Reservation == Provider \cup Requester

\* One ReservationInstruction per requested reservation, one
\* ProviderInstruction per provided one; the two kinds never share a name.
Key == [role : {"requester"}, id : Requester] \cup [role : {"provider"}, id : Provider]

ASSUME KeyAssumption == NoKey \notin Key

Time == Nat \cup {NoTime}

\* acked is Status.Enforced of a ProviderInstruction and Status.Delivered of
\* a ReservationInstruction; expiresAt is Spec.ExpiresAt, lastUpdate
\* Status.LastUpdateTime in seconds.
Instruction == [exists : BOOLEAN, rv : Nat, expiresAt : Time, acked : BOOLEAN, lastUpdate : Time]

Absent == [exists |-> FALSE, rv |-> 0, expiresAt |-> NoTime, acked |-> FALSE, lastUpdate |-> NoTime]

VARIABLES
    now,      \* wall clock, in ticks
    rsv,      \* the broker's reservations
    stored,   \* the API server's instruction objects
    cached,   \* the informer cache
    synced,   \* has the manager's cache been started and filled?
    upsets    \* upsets so far, at most MaxUpsets

kubeVars == <<now, rsv, stored, cached, synced, upsets>>

KubeTypeOK ==
    /\ now \in Nat
    /\ rsv \in [Reservation -> [phase : {"Pending", "Reserved", "Released"}, expiresAt : Time]]
    /\ stored \in [Key -> Instruction]
    /\ cached \in [Key -> Instruction]
    /\ synced \in BOOLEAN
    /\ upsets \in Nat

KubeInit ==
    /\ now = 0
    /\ rsv = [r \in Reservation |-> [phase |-> "Pending", expiresAt |-> NoTime]]
    /\ stored = [k \in Key |-> Absent]
    /\ cached = [k \in Key |-> Absent]
    /\ synced = FALSE
    /\ upsets = 0

-----------------------------------------------------------------------------
(* Time as the code compares and stores it.                                *)

Sec(t) == t \div TicksPerSecond

\* metav1.Time marshals as RFC 3339 without a fraction: the stored expiry is
\* the broker's, cut down to its second.
Marshal(t) == IF t = NoTime THEN NoTime ELSE Sec(t) * TicksPerSecond

\* ExpiresAt != nil && ExpiresAt.Time.Before(time.Now())
Expired(t) == t # NoTime /\ t < now

-----------------------------------------------------------------------------
(* Writes to the API server. Each operator gives the store after the write *)
(* took effect.                                                            *)

Put(k, obj) == IF obj = stored[k] THEN stored
               ELSE [stored EXCEPT ![k] = [obj EXCEPT !.rv = stored[k].rv + 1]]

\* The status subresource takes the status of obj and nothing else.
PutStatus(k, obj) ==
    Put(k, [stored[k] EXCEPT !.acked = obj.acked, !.lastUpdate = obj.lastUpdate])

\* The server refuses an update of an object it does not have (NotFound) or
\* whose resourceVersion is not the caller's (Conflict).
Updatable(k, obj) == stored[k].exists /\ stored[k].rv = obj.rv

Upset == upsets < MaxUpsets /\ upsets' = upsets + 1

\* A write may also fail on the way. The caller then sees an error whether or
\* not the server had already accepted it.
FailedWrite(accepted, after) ==
    /\ Upset
    /\ stored' \in {stored} \cup (IF accepted THEN {after} ELSE {})

\* An update of the object itself takes its spec and leaves its status alone.
PutSpec(k, obj) == Put(k, [stored[k] EXCEPT !.expiresAt = obj.expiresAt])

SpecUpdateSucceeds(k, obj) ==
    /\ Updatable(k, obj)
    /\ stored' = PutSpec(k, obj)
    /\ UNCHANGED upsets

SpecUpdateFails(k, obj) ==
    \/ ~Updatable(k, obj) /\ UNCHANGED <<stored, upsets>>
    \/ FailedWrite(Updatable(k, obj), PutSpec(k, obj))

StatusUpdateSucceeds(k, obj) ==
    /\ Updatable(k, obj)
    /\ stored' = PutStatus(k, obj)
    /\ UNCHANGED upsets

StatusUpdateFails(k, obj) ==
    \/ ~Updatable(k, obj) /\ UNCHANGED <<stored, upsets>>
    \/ FailedWrite(Updatable(k, obj), PutStatus(k, obj))

CreateSucceeds(k, obj) ==
    /\ ~stored[k].exists
    /\ stored' = Put(k, [obj EXCEPT !.rv = stored[k].rv])
    /\ UNCHANGED upsets

CreateFails(k, obj) ==
    \/ stored[k].exists /\ UNCHANGED <<stored, upsets>>
    \/ FailedWrite(~stored[k].exists, Put(k, [obj EXCEPT !.rv = stored[k].rv]))

-----------------------------------------------------------------------------
(* The environment.                                                        *)

Tick ==
    /\ now < MaxTime
    /\ now' = now + 1
    /\ UNCHANGED <<rsv, stored, cached, synced, upsets>>

BrokerReserve(r) ==
    /\ rsv[r].phase = "Pending"
    /\ Cardinality({q \in Reservation : rsv[q].phase # "Pending"}) < MaxReserved
    /\ \E e \in Expiries :
         /\ ~Expired(e)
         /\ rsv' = [rsv EXCEPT ![r] = [phase |-> "Reserved", expiresAt |-> e]]
    /\ UNCHANGED <<now, stored, cached, synced, upsets>>

BrokerRenew(r) ==
    /\ CanRenew
    /\ rsv[r].phase = "Reserved"
    /\ \E e \in Expiries \ {NoTime} :
         /\ rsv[r].expiresAt # NoTime /\ e > rsv[r].expiresAt
         /\ rsv' = [rsv EXCEPT ![r].expiresAt = e]
    /\ UNCHANGED <<now, stored, cached, synced, upsets>>

\* Active, Released and Failed are alike to the agent: not "Reserved".
BrokerRelease(r) ==
    /\ rsv[r].phase = "Reserved"
    /\ rsv' = [rsv EXCEPT ![r].phase = "Released"]
    /\ UNCHANGED <<now, stored, cached, synced, upsets>>

\* An operator deletes an instruction; the agent itself never does.
OperatorDelete(k) ==
    /\ stored[k].exists
    /\ Upset
    /\ stored' = [stored EXCEPT ![k] = [Absent EXCEPT !.rv = stored[k].rv + 1]]
    /\ UNCHANGED <<now, rsv, cached, synced>>

Environment ==
    \/ Tick
    \/ \E r \in Reservation : BrokerReserve(r) \/ BrokerRenew(r) \/ BrokerRelease(r)
    \/ \E k \in Key : OperatorDelete(k)

=============================================================================
