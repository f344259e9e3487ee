---------------------------- MODULE HttpAgentProofs ----------------------------
(***************************************************************************)
(* Theorems about HttpAgent, for every set of reservations, every expiry   *)
(* and every bound. All rest on the inductive invariant Inv: the part of it*)
(* that is about the controllers is proved in ControllerProofs, for whoever*)
(* else writes instructions; here the poller's steps are shown to be       *)
(* foreign ones in the sense of that module.                               *)
(***************************************************************************)
EXTENDS HttpAgent, ControllerProofs

-----------------------------------------------------------------------------
(* Types, and whose key the poller holds.                                  *)

PollShape == PollTypeOK /\ OwnReservations

Shape == CtrlShape /\ PollShape

\* A new instruction is an instruction.
LEMMA NewType == \A t \in Time : NewInstruction(t) \in Instruction
  BY MarshalType DEF NewInstruction, Absent, Instruction, Time

\* An instruction's key is built from a reservation of the role.
LEMMA KeyOfType == \A role \in Role : \A id \in InRole(role) : KeyOf(role, id) \in Key
  BY DEF KeyOf, Key, Role, InRole

\* The poller that waits for its ticker is well typed.
LEMMA WaitingType == Waiting \in PollState
  BY DEF Waiting, PollState, PollSteps, Role, Time

\* The agent starts in that shape.
LEMMA InitShape == Init => Shape
  <1> SUFFICES ASSUME Init PROVE Shape
    OBVIOUS
  <1>1. PollShape
    BY WaitingType DEF Init, PollInit, PollShape, PollTypeOK, OwnReservations, Waiting
  <1> QED BY <1>1, CtrlInitShape DEF Init, Shape

\* The poller's steps keep its own state in shape and are foreign to the
\* controllers: all it ever writes is an instruction that was not there.
LEMMA PollIsForeign == ASSUME Shape, PollStep PROVE Foreign /\ PollShape'
  <1> USE KubeAssumption, KeyAssumption
      DEF Shape, CtrlShape, KubeTypeOK, PollShape, PollTypeOK, OwnReservations
  <1>1. ASSUME UNCHANGED <<now, rsv, stored, cached, synced>>, upsets' \in Nat PROVE Foreign
    BY <1>1 DEF Foreign, Kept, PollStep
  <1>2. RoleDone \in PollState /\ RoleDone.todo = {} /\ RoleDone.pc # "create"
    BY DEF RoleDone, Waiting, PollState, PollSteps, Role, Time
  <1>3. CASE PollStart \/ FetchFailed \/ AllProcessed
    <2>1. PollShape'
      BY <1>2, <1>3 DEF PollStart, FetchFailed, AllProcessed, Waiting, PollState, PollSteps, Role, Time
    <2> QED BY <1>1, <1>3, <2>1 DEF PollStart, FetchFailed, AllProcessed, Upset, kubeVars
  <1>4. CASE FetchReservations
    <2>1. /\ poll'.todo \in SUBSET ReservationDTO
          /\ \A d \in poll'.todo : d.id \in InRole(poll.role)
      BY <1>4 DEF FetchReservations, PollState, ReservationDTO, InRole, Reservation
    <2>2. /\ poll'.pc = "process" /\ poll'.role = poll.role
          /\ poll' = [poll EXCEPT !.pc = "process", !.todo = poll'.todo]
      BY <1>4 DEF FetchReservations, PollState
    <2>3. poll' \in PollState
      BY <2>1, <2>2 DEF PollState, PollSteps
    <2> QED BY <1>1, <1>4, <2>1, <2>2, <2>3 DEF FetchReservations, kubeVars
  <1>5. ASSUME NEW d \in poll.todo, InstructionExists(d) \/ InstructionMissing(d)
        PROVE  Foreign /\ PollShape'
    <2>1. d.id \in InRole(poll.role) /\ d.expiresAt \in Time /\ poll.role \in Role
      BY <1>5 DEF PollState, ReservationDTO
    <2>2. KeyOf(poll.role, d.id) \in Key
      BY <2>1, KeyOfType
    <2>3. CASE InstructionExists(d)
      <3>1. poll' = [poll EXCEPT !.todo = poll.todo \ {d}]
        BY <2>3 DEF InstructionExists
      <3>2. poll' \in PollState /\ OwnReservations'
        BY <3>1 DEF PollState
      <3> QED BY <1>1, <2>3, <3>2 DEF InstructionExists, kubeVars
    <2>4. CASE InstructionMissing(d)
      <3>1. poll' = [poll EXCEPT !.pc = "create", !.todo = poll.todo \ {d},
                                 !.key = KeyOf(poll.role, d.id), !.expiresAt = d.expiresAt]
        BY <2>4 DEF InstructionMissing
      <3>2. poll' \in PollState /\ OwnReservations'
        BY <2>1, <2>2, <3>1 DEF PollState, PollSteps
      <3> QED BY <1>1, <2>4, <3>2 DEF InstructionMissing, kubeVars
    <2> QED BY <1>5, <2>3, <2>4
  <1>6. CASE InstructionCreated \/ CreateFailed
    <2>1. poll.key \in Key /\ poll.expiresAt \in Time
      BY <1>6 DEF InstructionCreated, CreateFailed, PollState
    <2>2. /\ stored' \in [Key -> Instruction] /\ upsets' \in Nat
          /\ \A k \in Key : Kept(k) \/ Raised(k)
      BY <1>6, <2>1, NewType, WriteMoves DEF InstructionCreated, CreateFailed
    <2>3. poll' = [poll EXCEPT !.pc = "process", !.key = NoKey, !.expiresAt = NoTime]
      BY <1>6 DEF InstructionCreated, CreateFailed, Processed
    <2>4. poll' \in PollState /\ OwnReservations'
      BY <2>3 DEF PollState, PollSteps, Time
    <2> QED BY <1>6, <2>2, <2>4 DEF PollStep, InstructionCreated, CreateFailed, Foreign
  <1> QED BY <1>3, <1>4, <1>5, <1>6 DEF PollStep, Poll

\* Every step is one the controllers allow for, and keeps the poller in shape.
LEMMA AgentStep == ASSUME Shape, [Next]_vars PROVE CtrlStep /\ PollShape'
  <1>1. CASE EnvironmentStep
    BY <1>1, EnvironmentIsForeign
       DEF EnvironmentStep, Shape, CtrlShape, CtrlStep, PollShape, PollTypeOK, OwnReservations
  <1>2. CASE WakeStep \/ ReconcileStep
    BY <1>2 DEF WakeStep, ReconcileStep, Shape, CtrlStep, PollShape, PollTypeOK, OwnReservations
  <1>3. CASE PollStep
    BY <1>3, PollIsForeign DEF CtrlStep
  <1>4. CASE Restart
    <2>1. Stopped
      BY <1>4 DEF Restart, Upset, Stopped, Shape, CtrlShape, KubeTypeOK
    <2> QED BY <1>4, <2>1, WaitingType
        DEF Restart, PollerStop, Waiting, CtrlStep, PollShape, PollTypeOK, OwnReservations
  <1>5. CASE UNCHANGED vars
    <2>1. Foreign
      BY <1>5 DEF vars, kubeVars, Foreign, Kept, Shape, CtrlShape, KubeTypeOK
    <2> QED BY <1>5, <2>1 DEF vars, Shape, CtrlStep, PollShape, PollTypeOK, OwnReservations
  <1> QED BY <1>1, <1>2, <1>3, <1>4, <1>5 DEF Next

\* Every step keeps the shape.
LEMMA ShapeStep == ASSUME Shape, [Next]_vars PROVE Shape'
  BY AgentStep, CtrlShapeStep DEF Shape

\* The agent's state is well typed at every moment, and no write, requeue or
\* snapshot takes it out of its type.
THEOREM TypeCorrect == Spec => []TypeOK
  <1>1. Init => Shape
    BY InitShape
  <1>2. Shape /\ [Next]_vars => Shape'
    BY ShapeStep
  <1>3. Shape => TypeOK
    BY DEF Shape, CtrlShape, PollShape, TypeOK
  <1> QED BY <1>1, <1>2, <1>3, PTL DEF Spec

-----------------------------------------------------------------------------
(* The inductive invariant.                                                *)

\* Inv is the controllers' invariant and the poller's shape.
LEMMA InvParts == Inv <=> CtrlInv /\ PollShape
  BY DEF Inv, TypeOK, CtrlInv, CtrlShape, PollShape

\* Inv holds of every reachable state.
THEOREM InvInvariant == Spec => []Inv
  <1>1. Init => Inv
    BY CtrlInitInv, InitShape, InvParts DEF Init, Shape
  <1>2. Inv /\ [Next]_vars => Inv'
    <2> SUFFICES ASSUME Inv, [Next]_vars PROVE Inv'
      OBVIOUS
    <2>1. CtrlInv /\ Shape
      BY InvParts DEF CtrlInv, Shape
    <2>2. CtrlInv' /\ PollShape'
      BY <2>1, AgentStep, ControllersKeepInv
    <2> QED BY <2>2 DEF Inv, TypeOK, CtrlInv, CtrlShape, PollShape
  <1> QED BY <1>1, <1>2, PTL DEF Spec

\* No wake-up is lost: whatever events, timers, conflicts, failed writes and
\* restarts do, an instruction with work left is queued, scheduled, announced
\* or in its worker's hands. Every branch of Reconcile keeps this.
THEOREM NoWakeupLost == Spec => []NoLostWakeup
  <1>1. Inv => NoLostWakeup
    BY DEF Inv
  <1> QED BY <1>1, InvInvariant, PTL

\* A reconciliation whose snapshot is still the stored version holds a verdict
\* that is still right, so the version check of the API server lets no stale one
\* through.
THEOREM VerdictsAreFresh == Spec => []FreshVerdict
  <1>1. Inv => FreshVerdict
    BY DEF Inv
  <1> QED BY <1>1, InvInvariant, PTL

-----------------------------------------------------------------------------
(* What a step may do to a stored instruction: leave it, create it, remove *)
(* it, or write the verdict of the reconciliation that holds its current   *)
(* version. All but the first raise its version by one.                    *)

Created(k) ==
    /\ ~stored[k].exists /\ stored'[k].exists /\ ~stored'[k].acked
    /\ Raised(k)

Removed(k) == ~stored'[k].exists /\ Raised(k)

\* A creation by the poller touches an instruction that is not there.
LEMMA CreateMoves ==
  ASSUME Shape, InstructionCreated \/ CreateFailed
  PROVE  \A k \in Key : Kept(k) \/ Created(k)
  <1> DEFINE k == poll.key
             obj == NewInstruction(poll.expiresAt)
             new == [obj EXCEPT !.rv = stored[k].rv]
             after == Put(k, new)
  <1>1. k \in Key /\ poll.expiresAt \in Time /\ stored \in [Key -> Instruction]
    BY DEF InstructionCreated, CreateFailed, Shape, CtrlShape, KubeTypeOK, PollShape,
           PollTypeOK, OwnReservations, PollState
  <1>2. obj \in Instruction /\ obj.exists /\ ~obj.acked
    BY <1>1, NewType DEF NewInstruction, Absent
  <1>3. new \in Instruction
    BY <1>1, <1>2 DEF Instruction
  <1>4. stored' = stored \/ (~stored[k].exists /\ stored' = after)
    BY DEF InstructionCreated, CreateFailed, CreateSucceeds, CreateFails, FailedWrite
  <1>5. CASE stored' = stored
    BY <1>5 DEF Kept
  <1>6. CASE ~stored[k].exists /\ stored' = after
    <2>1. \A x \in Key \ {k} : Kept(x)
      BY <1>1, <1>3, <1>6, PutMoves
    <2>2. Kept(k) \/ stored'[k] = [[obj EXCEPT !.rv = stored[k].rv] EXCEPT !.rv = stored[k].rv + 1]
      BY <1>1, <1>3, <1>6, PutMoves
    <2>3. Kept(k) \/ Created(k)
      BY <1>1, <1>2, <1>6, <2>2 DEF Created, Raised, Instruction
    <2> QED BY <2>1, <2>3
  <1> QED BY <1>4, <1>5, <1>6

\* No step does anything else to a stored instruction.
LEMMA StoreMoves ==
  ASSUME Shape, [Next]_vars
  PROVE  \A k \in Key : Kept(k) \/ Created(k) \/ Removed(k) \/ Marked(k)
  <1>1. CASE EnvironmentStep
    <2>1. ASSUME NEW x \in Key, OperatorDelete(x) PROVE \A k \in Key : Kept(k) \/ Removed(k)
      <3>1. /\ stored \in [Key -> Instruction]
            /\ stored' = [stored EXCEPT ![x] = [Absent EXCEPT !.rv = stored[x].rv + 1]]
        BY <2>1 DEF OperatorDelete, Shape, CtrlShape, KubeTypeOK
      <3>2. stored'[x] = [Absent EXCEPT !.rv = stored[x].rv + 1] /\ \A k \in Key \ {x} : Kept(k)
        BY <3>1 DEF Kept
      <3> QED BY <3>2 DEF Removed, Raised, Absent
    <2> QED BY <1>1, <2>1 DEF EnvironmentStep, Environment, Tick, BrokerReserve, BrokerRenew,
           BrokerRelease, Kept
  <1>2. CASE WakeStep
    BY <1>2 DEF WakeStep, Wake, CacheSync, Deliver, TimerFires, kubeVars, Kept
  <1>3. ASSUME NEW role \in Role, Reconcile(role) PROVE \A k \in Key : Kept(k) \/ Marked(k)
    BY <1>3, ReconcileMoves DEF Shape
  <1>4. CASE PollStep
    <2>1. CASE InstructionCreated \/ CreateFailed
      BY <2>1, CreateMoves
    <2>2. CASE ~(InstructionCreated \/ CreateFailed)
      BY <1>4, <2>2 DEF PollStep, Poll, PollStart, FetchReservations, FetchFailed, AllProcessed,
         InstructionExists, InstructionMissing, kubeVars, Kept
    <2> QED BY <2>1, <2>2
  <1>5. CASE Restart \/ UNCHANGED vars
    BY <1>5 DEF Restart, ControllersStop, vars, kubeVars, Kept
  <1> QED BY <1>1, <1>2, <1>3, <1>4, <1>5 DEF Next, ReconcileStep

\* The controller of ReservationInstructions never writes one again that has
\* expired and is marked undelivered, unless an acknowledgement decided before
\* the expiry was under way.
THEOREM DeliveredStaysSettled == Spec => DeliveredSettlesForGood
  <1> DEFINE A == \A k \in Key : k.role = "requester" /\ stored[k].exists /\ Settled(k) /\ ~LateAck(k)
                      => LeftAlone(k)
  <1>1. Inv /\ [Next]_vars => [A]_vars
    <2> SUFFICES ASSUME Inv, [Next]_vars, NEW k \in Key, k.role = "requester", stored[k].exists,
                        Settled(k), ~LateAck(k)
                 PROVE  LeftAlone(k)
      OBVIOUS
    <2>1. k.role \in Role /\ Shape
      BY RoleKey, InvParts DEF CtrlInv, Shape
    <2>2. ASSUME Marked(k) PROVE FALSE
      <3>1. rec[k.role].pc = "expire" /\ rec[k.role].key = k /\ rec[k.role].obj.rv = stored[k].rv
        BY <2>2 DEF Marked, Writing, LateAck
      <3>2. MustMark(k, stored[k])
        BY <2>1, <2>2, <3>1 DEF Inv, FreshVerdict, Marked
      <3> QED BY <3>2 DEF MustMark, Settled
    <2> QED BY <2>1, <2>2, StoreMoves DEF Kept, Created, Removed, LeftAlone
  <1> QED BY <1>1, InvInvariant, PTL DEF Spec, DeliveredSettlesForGood

-----------------------------------------------------------------------------
(* The refinement.                                                         *)

\* One hold moves as the lifecycle allows.
LEMMA HoldMoves ==
  ASSUME Inv, [Next]_vars, NEW k \in Key
  PROVE  HoldOf(k)' # HoldOf(k) => <<HoldOf(k), HoldOf(k)'>> \in Lifecycle!Moves
  <1>1. Shape /\ stored[k].expiresAt \in Time /\ k.role \in Role
    BY RoleKey, InvParts DEF CtrlInv, Shape, CtrlShape, KubeTypeOK, Instruction
  <1>2. Expired(stored[k].expiresAt) =>
           Expired(stored[k].expiresAt)' \/ stored'[k].expiresAt # stored[k].expiresAt
    BY <1>1, AgentStep, ExpiredStays DEF Shape, Expired
  <1>3. CASE Kept(k)
    BY <1>2, <1>3 DEF Kept, HoldOf, Lifecycle!Moves
  <1>4. CASE Created(k) \/ Removed(k)
    BY <1>4 DEF Created, Removed, HoldOf, Lifecycle!Moves
  <1>5. CASE Marked(k)
    <2>1. /\ stored[k].exists /\ stored'[k].exists /\ stored'[k].expiresAt = stored[k].expiresAt
          /\ Writing(k.role) /\ rec[k.role].key = k /\ rec[k.role].obj.rv = stored[k].rv
          /\ stored'[k].acked = rec[k.role].obj.acked
      BY <1>5 DEF Marked
    <2>2. CASE rec[k.role].pc = "expire"
      <3>1. Expired(stored[k].expiresAt)
        BY <1>1, <2>1, <2>2 DEF Inv, FreshVerdict
      <3> QED BY <1>2, <2>1, <3>1 DEF HoldOf
    <2>3. CASE rec[k.role].pc = "acknowledge"
      <3>1. stored'[k].acked
        BY <1>1, <2>1, <2>3 DEF Inv, FreshVerdict
      <3> QED BY <1>2, <2>1, <3>1 DEF HoldOf, Lifecycle!Moves
    <2> QED BY <2>1, <2>2, <2>3 DEF Writing
  <1> QED BY <1>1, <1>3, <1>4, <1>5, StoreMoves

\* The poller, the controllers and their failures implement the abstract
\* lifecycle: a hold in force is not dropped before its stored expiry and one
\* that is over is not revived.
THEOREM AgentImplementsLifecycle == Spec => ImplementsLifecycle
  <1> DEFINE hold == [k \in Key |-> HoldOf(k)]
  <1>1. Init => Lifecycle!Init
    BY DEF Init, KubeInit, Lifecycle!Init, HoldOf, Absent
  <1>2. Inv /\ [Next]_vars => [Lifecycle!Next]_hold
    <2> SUFFICES ASSUME Inv, [Next]_vars PROVE Lifecycle!Next
      OBVIOUS
    <2>1. hold' \in [Key -> Lifecycle!Phase]
      BY DEF HoldOf, Lifecycle!Phase
    <2>2. \A k \in Key : hold'[k] # hold[k] => <<hold[k], hold'[k]>> \in Lifecycle!Moves
      BY HoldMoves
    <2> QED BY <2>1, <2>2 DEF Lifecycle!Next
  <1> QED BY <1>1, <1>2, InvInvariant, PTL DEF Spec, ImplementsLifecycle, Lifecycle!Spec

=============================================================================
