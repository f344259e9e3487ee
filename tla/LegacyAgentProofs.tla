--------------------------- MODULE LegacyAgentProofs ---------------------------
(***************************************************************************)
(* Theorems about LegacyAgent, for every set of reservations, every expiry *)
(* and every bound. The controllers' part of the invariant is the one of   *)
(* ControllerProofs; here the watcher, which writes specs and takes        *)
(* acknowledgements back, is shown to be foreign in its sense. The second  *)
(* part is about the order of the events.                                  *)
(***************************************************************************)
EXTENDS LegacyAgent, ControllerProofs

-----------------------------------------------------------------------------
(* Types, and which reservation the watcher works on.                      *)

Upserting == watch.pc \in {"get", "create", "update", "status"}

WatchShape ==
    /\ WatchTypeOK
    /\ Upserting => /\ watch.id \in Reservation /\ watch.seen \in Snapshot
                    /\ watch.todo # {} /\ watch.todo \subseteq RolesOf(watch.id)

Shape == CtrlShape /\ WatchShape

\* The instruction an upsert is about is one of this cluster's.
LEMMA CurrentType == ASSUME WatchShape, Upserting PROVE Current \in Key
  <1>1. Current.role \in RolesOf(watch.id) /\ Current.id = watch.id
    BY DEF WatchShape, Current, RolesOf, Role
  <1>2. Current = [role |-> Current.role, id |-> watch.id]
    BY DEF Current
  <1> QED BY <1>1, <1>2 DEF RolesOf, Role, Key

\* The values the loop starts from and comes back to are well typed.
LEMMA DownType ==
  /\ Down \in WatchState /\ Down.pc = "down"
  /\ Listening \in WatchState /\ Listening.pc = "next"
  <1>1. Down \in WatchState /\ Down.pc = "down"
    BY AbsentType DEF Down, WatchState, WatchSteps
  <1> QED BY <1>1 DEF Listening, WatchState, WatchSteps

\* After one role's upsert the loop goes on with the other role or listens.
LEMMA UpsertDoneShape ==
  ASSUME WatchShape, Upserting, watch' = UpsertDone,
         events' \in [Reservation -> Seq(Snapshot)],
         observed' \in [Key -> Snapshot \cup {NoSnapshot}]
  PROVE  WatchShape'
  <1> DEFINE rest == watch.todo \ {Current.role}
  <1>1. CASE rest = {}
    <2>1. watch' = Listening
      BY <1>1 DEF UpsertDone
    <2> QED BY <2>1, DownType DEF WatchShape, WatchTypeOK, Upserting
  <1>2. CASE rest # {}
    <2>1. watch' = [watch EXCEPT !.pc = "get", !.todo = rest, !.obj = Absent]
      BY <1>2 DEF UpsertDone
    <2>2. watch' \in WatchState
      BY <2>1, AbsentType DEF WatchShape, WatchTypeOK, WatchState, WatchSteps
    <2>3. /\ watch'.id = watch.id /\ watch'.seen = watch.seen
          /\ watch'.todo # {} /\ watch'.todo \subseteq watch.todo
      BY <1>2, <2>1 DEF WatchShape, WatchTypeOK, WatchState
    <2> QED BY <2>2, <2>3 DEF WatchShape, WatchTypeOK, Upserting, RolesOf
  <1> QED BY <1>1, <1>2

\* The agent starts in that shape.
LEMMA InitShape == Init => Shape
  <1> SUFFICES ASSUME Init PROVE Shape
    OBVIOUS
  <1>1. events \in [Reservation -> Seq(Snapshot)] /\ observed \in [Key -> Snapshot \cup {NoSnapshot}]
    BY DEF Init, WatchInit, Silence
  <1>2. WatchShape
    BY <1>1, DownType DEF Init, WatchInit, WatchShape, WatchTypeOK, Upserting
  <1> QED BY <1>2, CtrlInitShape DEF Init, Shape

\* What a change at the broker appends to the channel is a snapshot.
LEMMA AnnounceType ==
  ASSUME WatchShape, NEW r \in Reservation, NEW s \in Snapshot, Announce(r, s)
  PROVE  events' \in [Reservation -> Seq(Snapshot)]
  BY DEF Announce, WatchShape, WatchTypeOK

\* A step that leaves the watch alone, and keeps the types of the rest, keeps
\* the shape.
LEMMA WatchAlone ==
  ASSUME WatchShape, UNCHANGED watch, events' \in [Reservation -> Seq(Snapshot)],
         observed' \in [Key -> Snapshot \cup {NoSnapshot}]
  PROVE  WatchShape'
  BY DEF WatchShape, WatchTypeOK, Upserting

\* The last write of an upsert keeps the store well typed and raises the version
\* of what it changes, also where it does no more than record a version.
LEMMA ResetMoves ==
  ASSUME Shape, Upserting, ResetAccepted
  PROVE  /\ stored' \in [Key -> Instruction]
         /\ \A k \in Key : Kept(k) \/ Raised(k)
         /\ \A k \in Key \ {Current} : Kept(k)
         /\ \A k \in Key : stored'[k].exists = stored[k].exists /\ stored'[k].expiresAt = stored[k].expiresAt
         /\ observed' \in [Key -> Snapshot \cup {NoSnapshot}]
  <1> DEFINE k == Current
             obj == Reset(watch.obj)
             status == [stored[k] EXCEPT !.acked = obj.acked, !.lastUpdate = obj.lastUpdate]
  <1>1. /\ k \in Key /\ stored \in [Key -> Instruction] /\ now \in Nat /\ watch.obj \in Instruction
        /\ Sec(now) \in Nat /\ watch.seen \in Snapshot
    BY CurrentType, SecType DEF Shape, CtrlShape, KubeTypeOK, WatchShape, WatchTypeOK, WatchState
  <1>2. obj \in Instruction
    BY <1>1 DEF Reset, Instruction, Time
  <1>3. observed' \in [Key -> Snapshot \cup {NoSnapshot}]
    BY <1>1 DEF ResetAccepted, Record, Shape, WatchShape, WatchTypeOK
  <1>4. CASE Record(k) = observed
    <2>1. stored' = Put(k, status)
      BY <1>4 DEF ResetAccepted, PutReset, PutStatus
    <2>2. status \in Instruction
      BY <1>1, <1>2, WrittenType
    <2>3. /\ stored' \in [Key -> Instruction]
          /\ \A x \in Key \ {k} : Kept(x)
          /\ Kept(k) \/ (stored'[k] = [status EXCEPT !.rv = stored[k].rv + 1] /\ Raised(k))
      BY <1>1, <2>1, <2>2, PutMoves
    <2>4. stored'[k].exists = stored[k].exists /\ stored'[k].expiresAt = stored[k].expiresAt
      <3>1. CASE Kept(k)
        BY <3>1 DEF Kept
      <3>2. CASE stored'[k] = [status EXCEPT !.rv = stored[k].rv + 1]
        BY <1>1, <3>2 DEF Instruction
      <3> QED BY <2>3, <3>1, <3>2
    <2> QED BY <1>3, <2>3, <2>4 DEF Kept
  <1>5. CASE Record(k) # observed
    <2>1. stored' = [stored EXCEPT ![k].acked = FALSE, ![k].lastUpdate = Sec(now), ![k].rv = @ + 1]
      BY <1>5 DEF ResetAccepted, PutReset
    <2>2. stored' = [stored EXCEPT ![k] = [stored[k] EXCEPT !.acked = FALSE, !.lastUpdate = Sec(now),
                                                            !.rv = stored[k].rv + 1]]
      BY <1>1, <2>1, Zenon DEF Instruction
    <2>3. [stored[k] EXCEPT !.acked = FALSE, !.lastUpdate = Sec(now), !.rv = stored[k].rv + 1] \in Instruction
      <3>1. stored[k] \in Instruction /\ Sec(now) \in Time
        BY <1>1 DEF Time
      <3>2. stored[k].rv + 1 \in Nat
        BY <3>1 DEF Instruction
      <3> HIDE DEF k
      <3> QED BY <3>1, <3>2 DEF Instruction
    <2>4. /\ stored' \in [Key -> Instruction] /\ \A x \in Key \ {k} : Kept(x)
          /\ stored'[k] = [stored[k] EXCEPT !.acked = FALSE, !.lastUpdate = Sec(now), !.rv = stored[k].rv + 1]
      BY <1>1, <2>2, <2>3 DEF Kept
    <2>5. /\ Raised(k) /\ stored'[k].exists = stored[k].exists
          /\ stored'[k].expiresAt = stored[k].expiresAt
      BY <1>1, <2>4 DEF Instruction, Raised
    <2> QED BY <1>3, <2>4, <2>5 DEF Kept
  <1> QED BY <1>4, <1>5

\* A reservation as the broker keeps it.
Holding == [phase : {"Pending", "Reserved", "Released"}, expiresAt : Time]

\* What an event shows of it is a snapshot with the same phase and expiry.
LEMMA ShownType ==
  ASSUME NEW v \in Holding, NEW d \in BOOLEAN
  PROVE  /\ Shown(v, d) \in Snapshot
         /\ Shown(v, d).phase = v.phase /\ Shown(v, d).expiresAt = v.expiresAt
  BY DEF Holding, Snapshot, Shown

\* The watcher's steps keep its own state in shape and are foreign to the
\* controllers.
LEMMA WatchIsForeign == ASSUME Shape, WatchStep PROVE Foreign /\ WatchShape'
  <1> USE DEF Shape, CtrlShape, KubeTypeOK
  <1>1. ASSUME UNCHANGED <<now, rsv, cached, synced>>, upsets' \in Nat,
               stored' \in [Key -> Instruction], \A k \in Key : Kept(k) \/ Raised(k)
        PROVE  Foreign
    BY <1>1 DEF Foreign, WatchStep
  <1>2. ASSUME UNCHANGED <<now, rsv, stored, cached, synced>>, upsets' \in Nat PROVE Foreign
    BY <1>1, <1>2 DEF Kept
  <1>3. /\ events \in [Reservation -> Seq(Snapshot)]
        /\ observed \in [Key -> Snapshot \cup {NoSnapshot}]
        /\ watch \in WatchState
    BY DEF WatchShape, WatchTypeOK
  <1>4. CASE WatchOpens \/ WatchFails \/ WatchCloses
    <2>1. events' \in [Reservation -> Seq(Snapshot)]
      <3>1. ASSUME NEW r \in Reservation PROVE <<Shown(rsv[r], FALSE)>> \in Seq(Snapshot)
        <4>1. rsv[r] \in Holding
          BY DEF Holding
        <4> QED BY <4>1 DEF Holding, Snapshot, Shown
      <3>2. CASE WatchOpens
        BY <3>1, <3>2 DEF WatchOpens, Shown
      <3>3. CASE WatchFails
        BY <1>3, <3>3 DEF WatchFails, watchVars
      <3>4. CASE WatchCloses
        BY <3>4 DEF WatchCloses, Silence
      <3> QED BY <1>4, <3>2, <3>3, <3>4
    <2>2. WatchShape'
      BY <1>3, <1>4, <2>1, DownType
         DEF WatchOpens, WatchFails, WatchCloses, watchVars, WatchShape, WatchTypeOK, Upserting
    <2>3. UNCHANGED <<now, rsv, stored, cached, synced>> /\ upsets' \in Nat
      BY <1>4 DEF WatchOpens, WatchFails, WatchCloses, Upset, kubeVars, Shown
    <2> QED BY <1>2, <2>2, <2>3
  <1>5. ASSUME NEW r \in Reservation, EventSkipped(r) \/ EventTaken(r) PROVE Foreign /\ WatchShape'
    <2>1. Head(events[r]) \in Snapshot /\ Tail(events[r]) \in Seq(Snapshot)
      BY <1>3, <1>5 DEF EventSkipped, EventTaken
    <2>2. events' \in [Reservation -> Seq(Snapshot)]
      BY <1>3, <1>5, <2>1 DEF EventSkipped, EventTaken
    <2>3. CASE EventSkipped(r)
      BY <1>2, <1>3, <2>2, <2>3, WatchAlone DEF EventSkipped, kubeVars
    <2>4. CASE EventTaken(r)
      <3>1. watch' = [Listening EXCEPT !.pc = "get", !.todo = RolesOf(r), !.id = r, !.seen = Head(events[r])]
        BY <2>4 DEF EventTaken
      <3>2. RolesOf(r) # {} /\ RolesOf(r) \in SUBSET Role
        BY DEF RolesOf, Role, Reservation
      <3>3. /\ watch' \in WatchState /\ watch'.id = r /\ watch'.seen = Head(events[r])
            /\ watch'.todo = RolesOf(r)
        BY <2>1, <3>1, <3>2, DownType DEF WatchState, WatchSteps
      <3>4. WatchShape'
        BY <1>3, <2>1, <2>2, <2>4, <3>2, <3>3 DEF EventTaken, WatchShape, WatchTypeOK, Upserting, RolesOf
      <3> QED BY <1>2, <2>4, <3>4 DEF EventTaken, kubeVars
    <2> QED BY <1>5, <2>3, <2>4
  <1>6. CASE GetFails
    <2>1. WatchShape'
      BY <1>3, <1>6, UpsertDoneShape DEF GetFails, Upserting
    <2> QED BY <1>2, <1>6, <2>1 DEF GetFails, kubeVars
  <1>7. CASE GetNotFound \/ GetFound
    <2>1. Upserting /\ Current \in Key /\ watch.seen \in Snapshot /\ watch.seen.expiresAt \in Time
      BY <1>7, CurrentType DEF GetNotFound, GetFound, Upserting, WatchShape, Snapshot
    <2>2. Marshal(watch.seen.expiresAt) \in Time /\ cached[Current] \in Instruction
      BY <2>1, MarshalType
    <2>3. /\ SpecOf(watch.seen.expiresAt) \in Instruction
          /\ [cached[Current] EXCEPT !.expiresAt = Marshal(watch.seen.expiresAt)] \in Instruction
      BY <2>2, AbsentType DEF SpecOf, Instruction
    <2>4. \E pc \in {"create", "update"}, obj \in Instruction :
             watch' = [watch EXCEPT !.pc = pc, !.obj = obj]
      BY <1>7, <2>3 DEF GetNotFound, GetFound
    <2>5. /\ watch' \in WatchState /\ watch'.id = watch.id /\ watch'.seen = watch.seen
          /\ watch'.todo = watch.todo
      BY <1>3, <2>4 DEF WatchState, WatchSteps
    <2>6. WatchShape'
      BY <1>3, <1>7, <2>1, <2>5
         DEF GetNotFound, GetFound, WatchShape, WatchTypeOK, Upserting, RolesOf
    <2> QED BY <1>2, <1>7, <2>6 DEF GetNotFound, GetFound, kubeVars
  <1>8. CASE SpecWritten \/ SpecFailed
    <2>1. Upserting /\ Current \in Key /\ watch.obj \in Instruction
      BY <1>3, <1>8, CurrentType DEF SpecWritten, SpecFailed, Upserting, WatchState
    <2>2. /\ stored' \in [Key -> Instruction] /\ upsets' \in Nat
          /\ \A k \in Key : Kept(k) \/ Raised(k)
      BY <1>8, <2>1, WriteMoves DEF SpecWritten, SpecFailed
    <2>3. WatchShape'
      <3>1. CASE SpecWritten
        <4>1. watch' = [watch EXCEPT !.pc = "status", !.obj = stored'[Current]] /\ stored'[Current] \in Instruction
          BY <2>1, <2>2, <3>1 DEF SpecWritten
        <4>2. /\ watch' \in WatchState /\ watch'.id = watch.id /\ watch'.seen = watch.seen
              /\ watch'.todo = watch.todo
          BY <1>3, <4>1 DEF WatchState, WatchSteps
        <4> QED BY <1>3, <2>1, <3>1, <4>2 DEF SpecWritten, WatchShape, WatchTypeOK, Upserting, RolesOf
      <3>2. CASE SpecFailed
        BY <1>3, <2>1, <3>2, UpsertDoneShape DEF SpecFailed
      <3> QED BY <1>8, <3>1, <3>2
    <2> QED BY <1>1, <1>8, <2>2, <2>3 DEF SpecWritten, SpecFailed
  <1>9. CASE ResetWritten \/ ResetFailed
    <2>1. Upserting
      BY <1>9 DEF ResetWritten, ResetFailed, Upserting
    <2>2. ResetAccepted \/ UNCHANGED <<stored, observed>>
      BY <1>9 DEF ResetWritten, ResetFailed
    <2>3. /\ stored' \in [Key -> Instruction]
          /\ \A k \in Key : Kept(k) \/ Raised(k)
          /\ observed' \in [Key -> Snapshot \cup {NoSnapshot}]
      BY <1>3, <2>1, <2>2, ResetMoves DEF Kept
    <2>4. WatchShape'
      BY <1>3, <1>9, <2>1, <2>3, UpsertDoneShape DEF ResetWritten, ResetFailed
    <2> QED BY <1>1, <1>9, <2>3, <2>4 DEF ResetWritten, ResetFailed, Upset
  <1> QED BY <1>4, <1>5, <1>6, <1>7, <1>8, <1>9 DEF WatchStep, Watch

\* So are the environment's, and what a watch makes of them keeps the shape.
LEMMA EnvironmentStepMoves == ASSUME Shape, EnvironmentStep PROVE Foreign /\ WatchShape'
  <1>1. Environment /\ UNCHANGED <<ctrlVars, watch>>
    BY DEF EnvironmentStep, Environment, ReservationModified, ReservationDeleted, InstructionDeleted,
       watchVars
  <1>2. Foreign
    BY <1>1, EnvironmentIsForeign DEF Shape, CtrlShape
  <1>3. events \in [Reservation -> Seq(Snapshot)] /\ observed \in [Key -> Snapshot \cup {NoSnapshot}]
    BY DEF Shape, WatchShape, WatchTypeOK
  <1>4. CASE Tick /\ UNCHANGED watchVars
    BY <1>2, <1>3, <1>4, WatchAlone DEF Shape, watchVars
  <1>5. ASSUME NEW r \in Reservation, ReservationModified(r) \/ ReservationDeleted(r)
        PROVE  WatchShape'
    <2>1. Shown(rsv[r], TRUE) \in Snapshot /\ Shown(rsv'[r], FALSE) \in Snapshot
      <3>1. rsv[r] \in Holding /\ rsv'[r] \in Holding
        BY <1>2 DEF Shape, CtrlShape, KubeTypeOK, Foreign, Holding
      <3> QED BY <3>1, ShownType
    <2>2. events' \in [Reservation -> Seq(Snapshot)]
      BY <1>5, <2>1, AnnounceType DEF Shape, ReservationModified, ReservationDeleted
    <2> QED BY <1>1, <1>3, <1>5, <2>2, WatchAlone DEF Shape, ReservationModified, ReservationDeleted
  <1>6. ASSUME NEW k \in Key, InstructionDeleted(k) PROVE WatchShape'
    <2>1. observed' \in [Key -> Snapshot \cup {NoSnapshot}]
      BY <1>3, <1>6 DEF InstructionDeleted
    <2> QED BY <1>1, <1>3, <1>6, <2>1, WatchAlone DEF Shape, InstructionDeleted
  <1> QED BY <1>2, <1>4, <1>5, <1>6 DEF EnvironmentStep

\* Every step is one the controllers allow for, and keeps the watcher in shape.
LEMMA AgentStep == ASSUME Shape, [Next]_vars PROVE CtrlStep /\ WatchShape'
  <1>1. CASE EnvironmentStep
    BY <1>1, EnvironmentStepMoves DEF CtrlStep
  <1>2. CASE WakeStep \/ ReconcileStep
    <2>1. UNCHANGED watchVars
      BY <1>2 DEF WakeStep, ReconcileStep
    <2>2. WatchShape'
      BY <2>1, WatchAlone DEF Shape, WatchShape, WatchTypeOK, watchVars
    <2> QED BY <1>2, <2>2 DEF WakeStep, ReconcileStep, CtrlStep
  <1>3. CASE WatchStep
    BY <1>3, WatchIsForeign DEF CtrlStep
  <1>4. CASE Restart
    <2>1. Stopped
      BY <1>4 DEF Restart, Upset, Stopped, Shape, CtrlShape, KubeTypeOK
    <2>2. events' \in [Reservation -> Seq(Snapshot)]
      BY <1>4 DEF Restart, WatcherStop, Silence
    <2>3. WatchShape'
      BY <1>4, <2>2, DownType DEF Restart, WatcherStop, Shape, WatchShape, WatchTypeOK, Upserting
    <2> QED BY <2>1, <2>3 DEF CtrlStep
  <1>5. CASE UNCHANGED vars
    <2>1. Foreign
      BY <1>5 DEF vars, kubeVars, Foreign, Kept, Shape, CtrlShape, KubeTypeOK
    <2>2. WatchShape'
      BY <1>5, WatchAlone DEF vars, watchVars, Shape, WatchShape, WatchTypeOK
    <2> QED BY <2>1, <2>2 DEF CtrlStep
  <1> QED BY <1>1, <1>2, <1>3, <1>4, <1>5 DEF Next

\* Every step keeps the shape.
LEMMA ShapeStep == ASSUME Shape, [Next]_vars PROVE Shape'
  BY AgentStep, CtrlShapeStep DEF Shape

\* The legacy agent's state is well typed at every moment; in particular an upsert
\* always names an instruction of this cluster.
THEOREM LegacyTypeCorrect == Spec => []TypeOK
  <1>1. Init => Shape
    BY InitShape
  <1>2. Shape /\ [Next]_vars => Shape'
    BY ShapeStep
  <1>3. Shape => TypeOK
    BY DEF Shape, CtrlShape, WatchShape, TypeOK
  <1> QED BY <1>1, <1>2, <1>3, PTL DEF Spec

\* The controllers' invariant survives a second writer of the status.
THEOREM LegacyInvariant == Spec => [](CtrlInv /\ WatchShape)
  <1>1. Init => CtrlInv /\ WatchShape
    BY CtrlInitInv, InitShape DEF Init, Shape
  <1>2. CtrlInv /\ WatchShape /\ [Next]_vars => CtrlInv' /\ WatchShape'
    <2> SUFFICES ASSUME CtrlInv, WatchShape, [Next]_vars PROVE CtrlInv' /\ WatchShape'
      OBVIOUS
    <2>1. Shape
      BY DEF CtrlInv, Shape
    <2> QED BY <2>1, AgentStep, ControllersKeepInv
  <1> QED BY <1>1, <1>2, PTL DEF Spec

\* No wake-up is lost beside the watcher either: when it takes an acknowledgement
\* back, moves an expiry or only records a version, the controller is queued,
\* scheduled, at work or about to be told.
THEOREM LegacyNoWakeupLost == Spec => []NoLostWakeup
  <1>1. CtrlInv /\ WatchShape => NoLostWakeup
    BY DEF CtrlInv
  <1> QED BY <1>1, LegacyInvariant, PTL

\* A verdict that passes the server's version check is still right, although the
\* watcher may have rewritten the instruction in the middle of a reconciliation.
THEOREM LegacyVerdictsAreFresh == Spec => []FreshVerdict
  <1>1. CtrlInv /\ WatchShape => FreshVerdict
    BY DEF CtrlInv
  <1> QED BY <1>1, LegacyInvariant, PTL

\* What takes an acknowledgement back without removing the instruction.
TakenBack(k) == stored[k].exists /\ stored[k].acked /\ stored'[k].exists /\ ~stored'[k].acked

\* The first write of an upsert does not: an update leaves the status alone, and
\* a creation meets no instruction.
LEMMA SpecTakesNothing ==
  ASSUME Shape, SpecWritten \/ SpecFailed, NEW k \in Key PROVE ~TakenBack(k)
  <1> DEFINE x == Current
             obj == watch.obj
             updated == [stored[x] EXCEPT !.expiresAt = obj.expiresAt]
             created == [obj EXCEPT !.rv = stored[x].rv]
  <1>1. x \in Key /\ obj \in Instruction /\ stored \in [Key -> Instruction] /\ stored[x] \in Instruction
    BY CurrentType DEF SpecWritten, SpecFailed, Upserting, Shape, CtrlShape, KubeTypeOK, WatchShape,
       WatchTypeOK, WatchState
  <1>2. updated \in Instruction /\ created \in Instruction
    BY <1>1, WrittenType
  <1>3. \/ stored' = stored \/ stored' = Put(x, updated)
        \/ ~stored[x].exists /\ stored' = Put(x, created)
    BY DEF SpecWritten, SpecFailed, SpecUpdateSucceeds, SpecUpdateFails, CreateSucceeds, CreateFails,
       FailedWrite, PutSpec
  <1>4. CASE k # x \/ stored' = stored
    <2>1. Kept(k)
      BY <1>1, <1>2, <1>3, <1>4, PutMoves DEF Kept
    <2> QED BY <2>1 DEF Kept, TakenBack
  <1>5. CASE k = x /\ stored' = Put(x, updated)
    <2>1. Kept(x) \/ stored'[x] = [updated EXCEPT !.rv = stored[x].rv + 1]
      BY <1>1, <1>2, <1>5, PutMoves
    <2>2. stored'[x].acked = stored[x].acked
      BY <1>1, <2>1 DEF Kept, Instruction
    <2> QED BY <1>5, <2>2 DEF TakenBack
  <1> QED BY <1>3, <1>4, <1>5 DEF TakenBack

\* An acknowledgement is taken back by the controller after the expiry or by the
\* watcher's reset of the version it has in hand, and by nobody else.
LEMMA TakenBackBy ==
  ASSUME CtrlInv, WatchShape, [Next]_vars, NEW k \in Key, TakenBack(k)
  PROVE  \/ Expired(stored[k].expiresAt)
         \/ (ResetWritten \/ ResetFailed) /\ k = Current /\ watch.obj.rv = stored[k].rv
  <1>0. Shape /\ k.role \in Role /\ ~Kept(k)
    BY RoleKey DEF CtrlInv, Shape, TakenBack, Kept
  <1>1. CASE EnvironmentStep
    <2>1. ASSUME NEW x \in Key, OperatorDelete(x) PROVE Kept(k) \/ ~stored'[k].exists
      <3>1. stored \in [Key -> Instruction]
        BY <1>0 DEF Shape, CtrlShape, KubeTypeOK
      <3> QED BY <2>1, <3>1 DEF OperatorDelete, Absent, Kept
    <2>2. Kept(k) \/ ~stored'[k].exists
      BY <1>1, <2>1 DEF EnvironmentStep, Tick, ReservationModified, ReservationDeleted, BrokerReserve,
         BrokerRenew, BrokerRelease, InstructionDeleted, Kept
    <2> QED BY <1>0, <2>2 DEF TakenBack
  <1>2. CASE WakeStep \/ Restart \/ UNCHANGED vars
    BY <1>0, <1>2 DEF WakeStep, Wake, CacheSync, Deliver, TimerFires, Restart, ControllersStop, vars,
       kubeVars, Kept
  <1>3. ASSUME NEW role \in Role, Reconcile(role) PROVE Expired(stored[k].expiresAt)
    <2>1. /\ Writing(k.role) /\ rec[k.role].key = k /\ rec[k.role].obj.rv = stored[k].rv
          /\ stored'[k].acked = rec[k.role].obj.acked
      BY <1>0, <1>3, ReconcileMoves DEF Shape, Marked
    <2>2. rec[k.role].pc # "acknowledge"
      BY <1>0, <2>1 DEF CtrlInv, FreshVerdict, TakenBack
    <2> QED BY <1>0, <2>1, <2>2 DEF CtrlInv, FreshVerdict, Writing
  <1>4. CASE SpecWritten \/ SpecFailed
    BY <1>0, <1>4, SpecTakesNothing
  <1>5. CASE ResetWritten \/ ResetFailed
    <2>1. Upserting
      BY <1>5 DEF ResetWritten, ResetFailed, Upserting
    <2>2. ResetAccepted
      BY <1>0, <1>5 DEF ResetWritten, ResetFailed, Kept
    <2>3. k = Current
      BY <1>0, <2>1, <2>2, ResetMoves
    <2> QED BY <1>5, <2>2, <2>3 DEF ResetAccepted, Updatable
  <1>6. CASE WatchStep /\ ~(SpecWritten \/ SpecFailed \/ ResetWritten \/ ResetFailed)
    BY <1>0, <1>6 DEF WatchStep, Watch, WatchOpens, WatchFails, WatchCloses, EventSkipped, EventTaken,
       GetFails, GetNotFound, GetFound, kubeVars, Kept
  <1> QED BY <1>1, <1>2, <1>3, <1>4, <1>5, <1>6 DEF Next, ReconcileStep

\* Beside the watcher an acknowledgement is withdrawn only after the expiry or by
\* a reset of the very version it was read in: a verdict "expired" from before a
\* renewal, and a reset overtaken by the controller, are refused by the server.
THEOREM ResetAloneTakesBack == Spec => OnlyAResetTakesBack
  <1> DEFINE A == \A k \in Key :
                    stored[k].exists /\ stored[k].acked /\ stored'[k].exists /\ ~stored'[k].acked
                      => \/ Expired(stored[k].expiresAt)
                         \/ (ResetWritten \/ ResetFailed) /\ k = Current /\ watch.obj.rv = stored[k].rv
  <1>1. CtrlInv /\ WatchShape /\ [Next]_vars => [A]_vars
    BY TakenBackBy DEF TakenBack
  <1> QED BY <1>1, LegacyInvariant, PTL DEF Spec, OnlyAResetTakesBack

-----------------------------------------------------------------------------
(* The order of the events. Along the way an expiry takes, from the broker *)
(* through the channel and the watcher's hands into the cluster, none is   *)
(* earlier than the next: what is stored, what the watcher has in hand, the*)
(* events that wait, the broker's own.                                     *)

\* A reservation without an expiry keeps none; one that has one keeps one.
NotLater(s, t) == s = t \/ (s \in Nat /\ t \in Nat /\ s <= t)

\* The expiry of a snapshot as it will be stored.
Due(v) == Marshal(v.expiresAt)

\* The broker has granted r, until t or later.
Granted(t, r) == rsv[r].phase # "Pending" /\ NotLater(t, Due(rsv[r]))

\* No waiting event that will be handled has an expiry before t.
Ahead(t, s) == \A i \in 1 .. Len(s) : s[i].phase = "Reserved" => NotLater(t, Due(s[i]))

Ordered(s) ==
    \A i, j \in 1 .. Len(s) :
       i <= j /\ s[i].phase = "Reserved" /\ s[j].phase = "Reserved" => NotLater(Due(s[i]), Due(s[j]))

WaitingInOrder(r) ==
    /\ Ordered(events[r])
    /\ \A i \in 1 .. Len(events[r]) :
          events[r][i].phase = "Reserved" => Granted(Due(events[r][i]), r)

SeenInOrder == Upserting =>
    /\ Granted(Due(watch.seen), watch.id)
    /\ Ahead(Due(watch.seen), events[watch.id])
    /\ watch.pc \in {"create", "update"} => watch.obj.expiresAt = Due(watch.seen)

StoredInOrder(k) == stored[k].exists =>
    /\ Granted(stored[k].expiresAt, k.id)
    /\ Ahead(stored[k].expiresAt, events[k.id])
    /\ Upserting /\ watch.id = k.id => NotLater(stored[k].expiresAt, Due(watch.seen))

InOrder ==
    /\ \A r \in Reservation : WaitingInOrder(r)
    /\ SeenInOrder
    /\ \A k \in Key : StoredInOrder(k)

\* Marshalling does not swap two times.
LEMMA MarshalMonotone ==
  ASSUME NEW s \in Nat, NEW t \in Nat, s <= t
  PROVE  NotLater(Marshal(s), Marshal(t))
  <1>1. Sec(s) \in Nat /\ Sec(t) \in Nat /\ Sec(s) <= Sec(t)
    BY KubeAssumption DEF Sec
  <1>2. \A a, b \in Nat : a <= b => a * TicksPerSecond <= b * TicksPerSecond
    BY KubeAssumption
  <1>3. Sec(s) * TicksPerSecond \in Nat /\ Sec(t) * TicksPerSecond \in Nat
    BY <1>1, KubeAssumption
  <1> QED BY <1>1, <1>2, <1>3, KubeAssumption DEF Marshal, NotLater

\* The order of expiries, where nil is alone, is transitive.
LEMMA NotLaterTransitive ==
  \A s, t, u : NotLater(s, t) /\ NotLater(t, u) => NotLater(s, u)
  BY DEF NotLater

\* Taking the first event leaves the others in order, and ahead of it.
LEMMA TailInOrder ==
  ASSUME NEW s \in Seq(Snapshot), s # <<>>
  PROVE  /\ Ordered(s) => Ordered(Tail(s))
         /\ \A t : Ahead(t, s) => Ahead(t, Tail(s))
         /\ Ordered(s) /\ Head(s).phase = "Reserved" => Ahead(Due(Head(s)), Tail(s))
  <1>1. /\ Len(s) \in Nat /\ Len(s) >= 1 /\ Len(Tail(s)) = Len(s) - 1 /\ Head(s) = s[1]
        /\ \A i \in 1 .. Len(Tail(s)) : Tail(s)[i] = s[i + 1] /\ i + 1 \in 1 .. Len(s)
    OBVIOUS
  <1>2. Ordered(s) => Ordered(Tail(s))
    BY <1>1 DEF Ordered
  <1>3. \A t : Ahead(t, s) => Ahead(t, Tail(s))
    BY <1>1 DEF Ahead
  <1>4. Ordered(s) /\ Head(s).phase = "Reserved" => Ahead(Due(Head(s)), Tail(s))
    BY <1>1 DEF Ordered, Ahead
  <1> QED BY <1>2, <1>3, <1>4

\* Announcing a snapshot that is not earlier keeps them in order.
LEMMA AppendInOrder ==
  ASSUME NEW s \in Seq(Snapshot), NEW v \in Snapshot
  PROVE  /\ \A t : Ahead(t, s) /\ NotLater(t, Due(v)) => Ahead(t, Append(s, v))
         /\ Ordered(s) /\ (\A i \in 1 .. Len(s) : s[i].phase = "Reserved" => NotLater(Due(s[i]), Due(v)))
               => Ordered(Append(s, v))
  <1> DEFINE a == Append(s, v)
  <1>1. /\ Len(s) \in Nat /\ Len(a) = Len(s) + 1 /\ a[Len(s) + 1] = v
        /\ \A i \in 1 .. Len(s) : a[i] = s[i]
        /\ \A i \in 1 .. Len(a) : i \in 1 .. Len(s) \/ i = Len(s) + 1
    OBVIOUS
  <1> HIDE DEF a
  <1>2. \A t : Ahead(t, s) /\ NotLater(t, Due(v)) => Ahead(t, a)
    BY <1>1 DEF Ahead
  <1>3. ASSUME Ordered(s), \A i \in 1 .. Len(s) : s[i].phase = "Reserved" => NotLater(Due(s[i]), Due(v))
        PROVE  Ordered(a)
    <2> SUFFICES ASSUME NEW i \in 1 .. Len(a), NEW j \in 1 .. Len(a), i <= j,
                        a[i].phase = "Reserved", a[j].phase = "Reserved"
                 PROVE  NotLater(Due(a[i]), Due(a[j]))
      BY DEF Ordered
    <2>1. CASE j = Len(s) + 1
      BY <1>1, <1>3, <2>1 DEF NotLater
    <2>2. CASE j \in 1 .. Len(s)
      <3>1. i \in 1 .. Len(s)
        BY <1>1, <2>2
      <3> QED BY <1>1, <1>3, <2>2, <3>1 DEF Ordered
    <2> QED BY <1>1, <2>1, <2>2
  <1> QED BY <1>2, <1>3 DEF a

\* What a step may do to the expiry of an instruction that exists afterwards:
\* nothing, or store the one the watcher has in hand.
StoredAs(k) ==
    \/ stored[k].exists /\ stored'[k].expiresAt = stored[k].expiresAt
    \/ Upserting /\ watch.id = k.id /\ stored'[k].expiresAt = Due(watch.seen)

\* The first write of an upsert stores the expiry in hand.
LEMMA SpecMoves ==
  ASSUME Shape, SpecWritten \/ SpecFailed
  PROVE  \A k \in Key : Kept(k) \/ (k = Current /\ stored'[k].expiresAt = watch.obj.expiresAt)
  <1> DEFINE k == Current
             obj == watch.obj
             updated == [stored[k] EXCEPT !.expiresAt = obj.expiresAt]
             created == [obj EXCEPT !.rv = stored[k].rv]
  <1>1. k \in Key /\ obj \in Instruction /\ stored \in [Key -> Instruction] /\ stored[k] \in Instruction
    BY CurrentType DEF SpecWritten, SpecFailed, Upserting, Shape, CtrlShape, KubeTypeOK, WatchShape,
       WatchTypeOK, WatchState
  <1>2. updated \in Instruction /\ created \in Instruction
    BY <1>1, WrittenType
  <1>3. stored' = stored \/ stored' = Put(k, updated) \/ stored' = Put(k, created)
    BY DEF SpecWritten, SpecFailed, SpecUpdateSucceeds, SpecUpdateFails, CreateSucceeds, CreateFails,
       FailedWrite, PutSpec
  <1>4. \A x \in Key \ {k} : Kept(x)
    BY <1>1, <1>2, <1>3, PutMoves
  <1>5. \/ Kept(k) \/ stored'[k] = [updated EXCEPT !.rv = stored[k].rv + 1]
        \/ stored'[k] = [created EXCEPT !.rv = stored[k].rv + 1]
    BY <1>1, <1>2, <1>3, PutMoves
  <1>6. Kept(k) \/ stored'[k].expiresAt = obj.expiresAt
    BY <1>1, <1>5 DEF Instruction
  <1> QED BY <1>4, <1>6

\* No step does anything else to it: the watcher alone writes specs.
LEMMA ExpiryMoves ==
  ASSUME Shape, SeenInOrder, [Next]_vars
  PROVE  \A k \in Key : stored'[k].exists => StoredAs(k)
  <1>1. ASSUME \A k \in Key : Kept(k) PROVE \A k \in Key : stored'[k].exists => StoredAs(k)
    BY <1>1 DEF Kept, StoredAs
  <1>2. CASE EnvironmentStep
    <2>1. ASSUME NEW x \in Key, OperatorDelete(x)
          PROVE  \A k \in Key : Kept(k) \/ ~stored'[k].exists
      <3>1. stored \in [Key -> Instruction]
        BY DEF Shape, CtrlShape, KubeTypeOK
      <3> QED BY <2>1, <3>1 DEF OperatorDelete, Absent, Kept
    <2>2. \A k \in Key : Kept(k) \/ ~stored'[k].exists
      BY <1>2, <2>1 DEF EnvironmentStep, Tick, ReservationModified, ReservationDeleted, BrokerReserve,
         BrokerRenew, BrokerRelease, InstructionDeleted, Kept
    <2> QED BY <2>2 DEF Kept, StoredAs
  <1>3. CASE WakeStep \/ Restart \/ UNCHANGED vars
    BY <1>1, <1>3 DEF WakeStep, Wake, CacheSync, Deliver, TimerFires, Restart, ControllersStop, vars,
       kubeVars, Kept
  <1>4. ASSUME NEW role \in Role, Reconcile(role)
        PROVE  \A k \in Key : stored'[k].exists => StoredAs(k)
    BY <1>4, ReconcileMoves DEF Shape, Kept, Marked, StoredAs
  <1>5. CASE SpecWritten \/ SpecFailed
    <2>1. Upserting /\ watch.obj.expiresAt = Due(watch.seen)
      BY <1>5 DEF SpecWritten, SpecFailed, Upserting, SeenInOrder
    <2>2. Current.id = watch.id
      BY DEF Current
    <2> QED BY <1>5, <2>1, <2>2, SpecMoves DEF Kept, StoredAs
  <1>6. CASE ResetWritten \/ ResetFailed
    <2>1. Upserting
      BY <1>6 DEF ResetWritten, ResetFailed, Upserting
    <2>2. ResetAccepted \/ \A k \in Key : Kept(k)
      BY <1>6 DEF ResetWritten, ResetFailed, Kept
    <2> QED BY <1>1, <2>1, <2>2, ResetMoves DEF StoredAs
  <1>7. CASE WatchStep /\ ~(SpecWritten \/ SpecFailed \/ ResetWritten \/ ResetFailed)
    BY <1>1, <1>7 DEF WatchStep, Watch, WatchOpens, WatchFails, WatchCloses, EventSkipped, EventTaken,
       GetFails, GetNotFound, GetFound, kubeVars, Kept
  <1> QED BY <1>2, <1>3, <1>4, <1>5, <1>6, <1>7 DEF Next, ReconcileStep

\* What is stored stays in order while the broker and the channel rest and the
\* watcher, if it is at work, is at work on the same event.
LEMMA OrderKept ==
  ASSUME InOrder, UNCHANGED <<rsv, events>>, \A k \in Key : stored'[k].exists => StoredAs(k),
         Upserting' => /\ Upserting /\ watch'.id = watch.id /\ watch'.seen = watch.seen
                       /\ watch'.pc \in {"create", "update"} => watch'.obj.expiresAt = Due(watch.seen)
  PROVE  InOrder'
  <1>1. \A r \in Reservation : WaitingInOrder(r)'
    BY DEF InOrder, WaitingInOrder, Granted
  <1>2. SeenInOrder'
    BY DEF InOrder, SeenInOrder, Granted
  <1>3. ASSUME NEW k \in Key, stored'[k].exists PROVE StoredInOrder(k)'
    <2>1. CASE stored[k].exists /\ stored'[k].expiresAt = stored[k].expiresAt
      BY <1>3, <2>1 DEF InOrder, StoredInOrder, Granted
    <2>2. CASE Upserting /\ watch.id = k.id /\ stored'[k].expiresAt = Due(watch.seen)
      BY <1>3, <2>2 DEF InOrder, SeenInOrder, StoredInOrder, Granted, NotLater
    <2> QED BY <1>3, <2>1, <2>2 DEF StoredAs
  <1> QED BY <1>1, <1>2, <1>3 DEF InOrder, StoredInOrder

\* The broker only ever moves an expiry on, so what it announces is not earlier
\* than anything before it.
LEMMA OrderAnnounced ==
  ASSUME Shape, InOrder, NEW r \in Reservation, ReservationModified(r) \/ ReservationDeleted(r)
  PROVE  InOrder'
  <1>1. /\ rsv \in [Reservation -> Holding] /\ events \in [Reservation -> Seq(Snapshot)]
        /\ \A k \in Key : k.id \in Reservation
    BY DEF Shape, CtrlShape, KubeTypeOK, WatchShape, WatchTypeOK, Holding, Key, Reservation
  <1>2. PICK v \in Snapshot : /\ \/ events' = events
                                 \/ events' = [events EXCEPT ![r] = Append(events[r], v)]
                              /\ v.expiresAt = rsv'[r].expiresAt
    <2>1. rsv' \in [Reservation -> Holding]
      <3>1. CASE BrokerReserve(r)
        BY <1>1, <3>1, KubeAssumption DEF BrokerReserve, Holding, Time
      <3>2. CASE BrokerRenew(r)
        BY <1>1, <3>2, KubeAssumption DEF BrokerRenew, Holding, Time
      <3>3. CASE BrokerRelease(r)
        BY <1>1, <3>3 DEF BrokerRelease, Holding
      <3> QED BY <3>1, <3>2, <3>3 DEF ReservationModified, ReservationDeleted
    <2>2. CASE ReservationModified(r)
      <3>1. rsv'[r] \in Holding
        BY <2>1
      <3>2. Shown(rsv'[r], FALSE) \in Snapshot /\ Shown(rsv'[r], FALSE).expiresAt = rsv'[r].expiresAt
        BY <3>1, ShownType
      <3> QED BY <2>2, <3>2 DEF ReservationModified, Announce, Shown
    <2>3. CASE ReservationDeleted(r)
      <3>1. rsv'[r].expiresAt = rsv[r].expiresAt
        BY <1>1, <2>3 DEF ReservationDeleted, BrokerRelease, Holding
      <3>2. rsv[r] \in Holding
        BY <1>1
      <3>3. Shown(rsv[r], TRUE) \in Snapshot /\ Shown(rsv[r], TRUE).expiresAt = rsv[r].expiresAt
        BY <3>2, ShownType
      <3> QED BY <2>3, <3>1, <3>3 DEF ReservationDeleted, Announce, Shown
    <2> QED BY <2>2, <2>3
  <1>3. \A x \in Reservation : \A t : Granted(t, x) => Granted(t, x)'
    <2>1. \A x \in Reservation \ {r} : rsv'[x] = rsv[x]
      BY <1>1 DEF ReservationModified, ReservationDeleted, BrokerReserve, BrokerRenew, BrokerRelease
    <2>2. rsv[r].phase # "Pending" => rsv'[r].phase # "Pending" /\ NotLater(Due(rsv[r]), Due(rsv'[r]))
      <3>1. CASE BrokerReserve(r)
        BY <3>1 DEF BrokerReserve
      <3>2. CASE BrokerRenew(r)
        <4>1. /\ rsv[r].expiresAt \in Nat /\ rsv'[r].expiresAt \in Nat
              /\ rsv[r].expiresAt <= rsv'[r].expiresAt /\ rsv'[r].phase = rsv[r].phase
          BY <1>1, <3>2, KubeAssumption DEF BrokerRenew, Holding, Time
        <4> QED BY <4>1, MarshalMonotone DEF Due
      <3>3. CASE BrokerRelease(r)
        BY <1>1, <3>3 DEF BrokerRelease, Holding, Due, NotLater
      <3> QED BY <3>1, <3>2, <3>3 DEF ReservationModified, ReservationDeleted
    <2> QED BY <2>1, <2>2, NotLaterTransitive DEF Granted
  <1>4. rsv'[r].phase # "Pending"
    <2>1. CASE BrokerReserve(r)
      BY <1>1, <2>1 DEF BrokerReserve
    <2>2. CASE BrokerRenew(r)
      BY <1>1, <2>2 DEF BrokerRenew, Holding
    <2>3. CASE BrokerRelease(r)
      BY <1>1, <2>3 DEF BrokerRelease, Holding
    <2> QED BY <2>1, <2>2, <2>3 DEF ReservationModified, ReservationDeleted
  <1>5. \A t : Granted(t, r)' => NotLater(t, Due(v))
    BY <1>2 DEF Granted, Due
  <1>6. ASSUME NEW x \in Reservation, NEW t, Granted(t, x), Ahead(t, events[x])
        PROVE  Ahead(t, events'[x])
    <2>1. CASE events'[x] = events[x]
      BY <1>6, <2>1
    <2>2. CASE x = r /\ events'[r] = Append(events[r], v)
      BY <1>1, <1>3, <1>5, <1>6, <2>2, AppendInOrder
    <2> QED BY <1>1, <1>2, <2>1, <2>2
  <1>7. ASSUME NEW x \in Reservation PROVE WaitingInOrder(x)'
    <2>1. /\ Ordered(events[x])
          /\ \A i \in 1 .. Len(events[x]) :
                events[x][i].phase = "Reserved" => Granted(Due(events[x][i]), x)
      BY DEF InOrder, WaitingInOrder
    <2>2. CASE events'[x] = events[x]
      BY <1>3, <2>1, <2>2 DEF WaitingInOrder
    <2>3. CASE x = r /\ events'[r] = Append(events[r], v)
      <3>1. Ordered(Append(events[r], v))
        BY <1>1, <1>3, <1>5, <2>1, <2>3, AppendInOrder
      <3>2. Granted(Due(v), r)'
        BY <1>2, <1>4 DEF Granted, Due, NotLater
      <3>3. ASSUME NEW i \in 1 .. Len(Append(events[r], v))
            PROVE  \/ Append(events[r], v)[i] = v
                   \/ i \in 1 .. Len(events[r]) /\ Append(events[r], v)[i] = events[r][i]
        BY <1>1
      <3> QED BY <1>3, <2>1, <2>3, <3>1, <3>2, <3>3 DEF WaitingInOrder
    <2> QED BY <1>1, <1>2, <2>2, <2>3
  <1>8. UNCHANGED <<watch, stored>>
    BY DEF ReservationModified, ReservationDeleted, BrokerReserve, BrokerRenew, BrokerRelease
  <1>9. SeenInOrder'
    BY <1>3, <1>6, <1>8 DEF InOrder, SeenInOrder, Upserting, Shape, WatchShape
  <1>10. ASSUME NEW k \in Key PROVE StoredInOrder(k)'
    BY <1>1, <1>3, <1>6, <1>8 DEF InOrder, StoredInOrder, Upserting
  <1> QED BY <1>7, <1>9, <1>10 DEF InOrder

\* A new watch begins with what the broker has now, a watch that ended leaves
\* nothing behind, and taking or skipping an event leaves the others in order.
LEMMA OrderReceived ==
  ASSUME Shape, InOrder,
         \/ WatchOpens \/ WatchCloses \/ Restart
         \/ \E r \in Reservation : EventSkipped(r) \/ EventTaken(r)
  PROVE  InOrder'
  <1>1. UNCHANGED <<rsv, stored>>
    BY DEF WatchOpens, WatchCloses, Restart, ControllersStop, EventSkipped, EventTaken, kubeVars
  <1>2. /\ events \in [Reservation -> Seq(Snapshot)] /\ \A k \in Key : k.id \in Reservation
        /\ rsv \in [Reservation -> Holding]
    BY DEF Shape, CtrlShape, KubeTypeOK, WatchShape, WatchTypeOK, Holding, Key, Reservation
  <1>3. ASSUME ~Upserting', \A r \in Reservation : WaitingInOrder(r)',
               \A r \in Reservation : \A t : Granted(t, r) /\ Ahead(t, events[r]) => Ahead(t, events'[r])
        PROVE  InOrder'
    BY <1>1, <1>2, <1>3 DEF InOrder, SeenInOrder, StoredInOrder, Granted
  <1>4. CASE WatchOpens
    <2>1. \A r \in Reservation :
            /\ Len(events'[r]) = 1
            /\ events'[r][1].phase = rsv[r].phase /\ Due(events'[r][1]) = Due(rsv[r])
      BY <1>4 DEF WatchOpens, Shown, Due
    <2>2. \A r \in Reservation : WaitingInOrder(r)'
      BY <1>1, <2>1 DEF WaitingInOrder, Ordered, Granted, NotLater
    <2>3. \A r \in Reservation : \A t : Granted(t, r) => Ahead(t, events'[r])
      BY <2>1 DEF Ahead, Granted
    <2>4. ~Upserting'
      BY <1>4, DownType DEF WatchOpens, Upserting
    <2> QED BY <1>3, <2>2, <2>3, <2>4
  <1>5. CASE WatchCloses \/ Restart
    <2>1. \A r \in Reservation : events'[r] = <<>> /\ Len(<<>>) = 0
      BY <1>5 DEF WatchCloses, Restart, WatcherStop, Silence
    <2>2. \A r \in Reservation : WaitingInOrder(r)' /\ \A t : Ahead(t, events'[r])
      BY <2>1 DEF WaitingInOrder, Ordered, Ahead
    <2>3. ~Upserting'
      BY <1>5, DownType DEF WatchCloses, Restart, WatcherStop, Upserting
    <2> QED BY <1>3, <2>2, <2>3
  <1>6. ASSUME NEW r \in Reservation, EventSkipped(r) \/ EventTaken(r) PROVE InOrder'
    <2>1. /\ events[r] \in Seq(Snapshot) /\ events[r] # <<>> /\ events'[r] = Tail(events[r])
          /\ \A x \in Reservation \ {r} : events'[x] = events[x]
      BY <1>2, <1>6 DEF EventSkipped, EventTaken
    <2>2. \A x \in Reservation : \A t : Ahead(t, events[x]) => Ahead(t, events'[x])
      BY <2>1, TailInOrder
    <2>3. \A i \in 1 .. Len(Tail(events[r])) :
             Tail(events[r])[i] = events[r][i + 1] /\ i + 1 \in 1 .. Len(events[r])
      BY <2>1
    <2>4. ASSUME NEW x \in Reservation PROVE WaitingInOrder(x)'
      <3>1. WaitingInOrder(x)
        BY DEF InOrder
      <3>2. CASE x # r
        BY <1>1, <2>1, <3>1, <3>2 DEF WaitingInOrder, Granted
      <3>3. CASE x = r
        <4>1. Ordered(Tail(events[r]))
          BY <2>1, <3>1, <3>3, TailInOrder DEF WaitingInOrder
        <4> QED BY <1>1, <2>1, <2>3, <3>1, <3>3, <4>1 DEF WaitingInOrder, Granted
      <3> QED BY <3>2, <3>3
    <2>5. CASE EventSkipped(r)
      <3>1. ~Upserting'
        BY <2>5 DEF EventSkipped, Upserting
      <3> QED BY <1>3, <2>2, <2>4, <3>1
    <2>6. CASE EventTaken(r)
      <3>1. PICK v \in Snapshot :
              /\ v = Head(events[r]) /\ v.phase = "Reserved"
              /\ 1 \in 1 .. Len(events[r]) /\ v = events[r][1]
        <4>1. Head(events[r]) \in Snapshot /\ Head(events[r]) = events[r][1] /\ Len(events[r]) \in Nat \ {0}
          BY <2>1
        <4>2. Head(events[r]).phase = "Reserved"
          BY <2>6 DEF EventTaken
        <4> QED BY <4>1, <4>2
      <3>2. watch' = [Listening EXCEPT !.pc = "get", !.todo = RolesOf(r), !.id = r, !.seen = v]
        BY <2>6, <3>1 DEF EventTaken
      <3>3. watch'.pc = "get" /\ watch'.id = r /\ watch'.seen = v
        BY <3>2, DownType DEF WatchState
      <3>4. WaitingInOrder(r) /\ \A t : Ahead(t, events[r]) => NotLater(t, Due(v))
        BY <3>1 DEF InOrder, Ahead
      <3>5. Granted(Due(v), r)'
        BY <1>1, <3>1, <3>4 DEF WaitingInOrder, Granted
      <3>6. Ahead(Due(v), events'[r])
        BY <2>1, <3>1, <3>4, TailInOrder DEF WaitingInOrder
      <3>7. SeenInOrder'
        BY <3>3, <3>5, <3>6 DEF SeenInOrder
      <3>8. ASSUME NEW k \in Key PROVE StoredInOrder(k)'
        BY <1>1, <1>2, <2>2, <3>3, <3>4 DEF InOrder, StoredInOrder, Granted
      <3> QED BY <2>4, <3>7, <3>8 DEF InOrder
    <2> QED BY <1>6, <2>5, <2>6
  <1> QED BY <1>4, <1>5, <1>6

\* During an upsert the watcher keeps the event it took, and what it is about to
\* write carries that event's expiry.
LEMMA HandMoves ==
  ASSUME Shape,
         \/ GetFails \/ GetNotFound \/ GetFound
         \/ SpecWritten \/ SpecFailed \/ ResetWritten \/ ResetFailed
  PROVE  Upserting' => /\ Upserting /\ watch'.id = watch.id /\ watch'.seen = watch.seen
                       /\ watch'.pc \in {"create", "update"} => watch'.obj.expiresAt = Due(watch.seen)
  <1> SUFFICES ASSUME Upserting'
               PROVE  /\ Upserting /\ watch'.id = watch.id /\ watch'.seen = watch.seen
                      /\ watch'.pc \in {"create", "update"} => watch'.obj.expiresAt = Due(watch.seen)
    OBVIOUS
  <1>1. watch \in WatchState /\ Upserting
    BY DEF Shape, WatchShape, WatchTypeOK, GetFails, GetNotFound, GetFound, SpecWritten, SpecFailed,
       ResetWritten, ResetFailed, Upserting
  <1>2. CASE watch' = UpsertDone
    <2>1. watch' # Listening
      BY DownType DEF Upserting
    <2>2. watch' = [watch EXCEPT !.pc = "get", !.todo = watch.todo \ {Current.role}, !.obj = Absent]
      BY <1>2, <2>1 DEF UpsertDone
    <2> QED BY <1>1, <2>2 DEF WatchState
  <1>3. CASE GetNotFound
    <2>1. watch' = [watch EXCEPT !.pc = "create", !.obj = SpecOf(watch.seen.expiresAt)]
      BY <1>3 DEF GetNotFound
    <2>2. SpecOf(watch.seen.expiresAt).expiresAt = Due(watch.seen)
      BY DEF SpecOf, Absent, Due
    <2> QED BY <1>1, <2>1, <2>2 DEF WatchState
  <1>4. CASE GetFound
    <2>1. watch' = [watch EXCEPT !.pc = "update",
                                 !.obj = [cached[Current] EXCEPT !.expiresAt = Marshal(watch.seen.expiresAt)]]
      BY <1>4 DEF GetFound
    <2>2. cached[Current] \in Instruction
      BY <1>1, CurrentType DEF Shape, CtrlShape, KubeTypeOK
    <2>3. [cached[Current] EXCEPT !.expiresAt = Marshal(watch.seen.expiresAt)].expiresAt = Due(watch.seen)
      BY <2>2 DEF Due, Instruction
    <2> QED BY <1>1, <2>1, <2>3 DEF WatchState
  <1>5. CASE SpecWritten
    BY <1>1, <1>5 DEF SpecWritten, WatchState
  <1> QED BY <1>2, <1>3, <1>4, <1>5 DEF GetFails, SpecFailed, ResetWritten, ResetFailed

\* Every step keeps the order.
LEMMA InOrderStep == ASSUME Shape, InOrder, [Next]_vars PROVE InOrder'
  <1>1. \A k \in Key : stored'[k].exists => StoredAs(k)
    BY ExpiryMoves DEF InOrder
  <1>2. ASSUME UNCHANGED <<rsv, events, watch>> PROVE InOrder'
    <2>1. Upserting' => /\ Upserting /\ watch'.id = watch.id /\ watch'.seen = watch.seen
                        /\ watch'.pc \in {"create", "update"} => watch'.obj.expiresAt = Due(watch.seen)
      BY <1>2 DEF InOrder, SeenInOrder, Upserting
    <2> QED BY <1>1, <1>2, <2>1, OrderKept
  <1>3. CASE EnvironmentStep
    <2>1. CASE Tick /\ UNCHANGED watchVars
      BY <1>2, <2>1 DEF Tick, watchVars
    <2>2. ASSUME NEW r \in Reservation, ReservationModified(r) \/ ReservationDeleted(r) PROVE InOrder'
      BY <2>2, OrderAnnounced
    <2>3. ASSUME NEW k \in Key, InstructionDeleted(k) PROVE InOrder'
      BY <1>2, <2>3 DEF InstructionDeleted, OperatorDelete
    <2> QED BY <1>3, <2>1, <2>2, <2>3 DEF EnvironmentStep
  <1>4. CASE WakeStep
    BY <1>2, <1>4 DEF WakeStep, Wake, CacheSync, Deliver, TimerFires, kubeVars, watchVars
  <1>5. ASSUME NEW role \in Role, Reconcile(role), UNCHANGED watchVars PROVE InOrder'
    BY <1>2, <1>5 DEF Reconcile, ReconcileNotFound, ReconcileExpired, ReconcileSettled, ReconcileAcked,
       ReconcileNew, StatusWritten, StatusFailed, Requeue, kubeVars, watchVars
  <1>6. CASE \/ GetFails \/ GetNotFound \/ GetFound
             \/ SpecWritten \/ SpecFailed \/ ResetWritten \/ ResetFailed
    <2>1. UNCHANGED <<rsv, events>>
      BY <1>6 DEF GetFails, GetNotFound, GetFound, SpecWritten, SpecFailed, ResetWritten, ResetFailed,
         kubeVars
    <2> QED BY <1>1, <1>6, <2>1, HandMoves, OrderKept
  <1>7. CASE \/ WatchOpens \/ WatchCloses \/ Restart
             \/ \E r \in Reservation : EventSkipped(r) \/ EventTaken(r)
    BY <1>7, OrderReceived
  <1>8. CASE WatchFails \/ UNCHANGED vars
    BY <1>2, <1>8 DEF WatchFails, vars, kubeVars, watchVars
  <1> QED BY <1>3, <1>4, <1>5, <1>6, <1>7, <1>8 DEF Next, ReconcileStep, WatchStep, Watch

\* The expiries are in order on their whole way, in every reachable state.
THEOREM EventsStayInOrder == Spec => [](Shape /\ InOrder)
  <1>1. Init => Shape /\ InOrder
    <2> SUFFICES ASSUME Init PROVE InOrder
      BY InitShape
    <2>1. ~Upserting /\ \A r \in Reservation : Len(events[r]) = 0
      BY DownType DEF Init, WatchInit, Silence, Upserting
    <2>2. \A k \in Key : ~stored[k].exists
      BY DEF Init, KubeInit, Absent
    <2> QED BY <2>1, <2>2 DEF InOrder, WaitingInOrder, Ordered, SeenInOrder, StoredInOrder
  <1>2. Shape /\ InOrder /\ [Next]_vars => Shape' /\ InOrder'
    BY ShapeStep, InOrderStep
  <1> QED BY <1>1, <1>2, PTL DEF Spec

\* Whatever is dropped, replayed, refused or cut short, a written instruction
\* never goes back from a later expiry to an earlier one: an upsert stores the
\* expiry of the event in hand, and nothing stored is later than that.
THEOREM ExpiryOnlyMovesOn == Spec => ExpiryNeverGoesBack
  <1> DEFINE A == \A k \in Key : stored[k].exists /\ stored'[k].exists
                      => \/ stored'[k].expiresAt = stored[k].expiresAt
                         \/ stored'[k].expiresAt > stored[k].expiresAt
  <1>1. Shape /\ InOrder /\ [Next]_vars => [A]_vars
    <2> SUFFICES ASSUME Shape, InOrder, [Next]_vars, NEW k \in Key, stored[k].exists, stored'[k].exists
                 PROVE  \/ stored'[k].expiresAt = stored[k].expiresAt
                        \/ stored'[k].expiresAt > stored[k].expiresAt
      OBVIOUS
    <2>1. StoredAs(k) /\ StoredInOrder(k)
      BY ExpiryMoves DEF InOrder
    <2>2. NotLater(stored[k].expiresAt, stored'[k].expiresAt)
      BY <2>1 DEF StoredAs, StoredInOrder, NotLater
    <2> QED BY <2>2 DEF NotLater
  <1> QED BY <1>1, EventsStayInOrder, PTL DEF Spec, ExpiryNeverGoesBack

=============================================================================
