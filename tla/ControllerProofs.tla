---------------------------- MODULE ControllerProofs ----------------------------
(***************************************************************************)
(* The two instruction controllers by themselves. What they rely on of     *)
(* everyone else (poller, watcher, broker, operator, clock) is the action  *)
(* Foreign; what they keep, whoever else is there, is CtrlInv. The proofs  *)
(* about HttpAgent and LegacyAgent show that the other steps are Foreign.  *)
(***************************************************************************)
EXTENDS InstructionControllers, TLAPS

-----------------------------------------------------------------------------
(* The operators the actions are built from.                               *)

\* Cutting a time to its second gives a time.
LEMMA SecType == \A t \in Nat : Sec(t) \in Nat
  BY KubeAssumption DEF Sec

\* Marshalling keeps nil and gives a time otherwise.
LEMMA MarshalType == \A t \in Time : Marshal(t) \in Time
  <1>1. \A s \in Nat : s * TicksPerSecond \in Nat
    BY KubeAssumption
  <1> QED BY <1>1, SecType DEF Marshal, Time

\* RequeueAfter always names a time, whatever the queue already holds.
LEMMA RequeueType ==
  ASSUME now \in Nat, NEW s \in Time, NEW t \in Time
  PROVE  Earlier(s, DueAt(t)) \in Nat
  <1>1. DueAt(t) \in Nat
    BY RequeueAssumption, KubeAssumption DEF DueAt, Time
  <1> QED BY <1>1 DEF Earlier, Time

\* A write leaves the store alone or replaces one object, one version up.
LEMMA PutType ==
  ASSUME stored \in [Key -> Instruction], NEW k \in Key, NEW obj \in Instruction
  PROVE  /\ Put(k, obj) \in [Key -> Instruction]
         /\ \A x \in Key \ {k} : Put(k, obj)[x] = stored[x]
         /\ \/ Put(k, obj)[k] = stored[k]
            \/ Put(k, obj)[k] = [obj EXCEPT !.rv = stored[k].rv + 1]
  BY DEF Put, Instruction

\* The object an instruction is marked with is an instruction.
LEMMA SetStatusType ==
  ASSUME now \in Nat, NEW obj \in Instruction, NEW b \in BOOLEAN
  PROVE  SetStatus(obj, b) \in Instruction
  BY SecType DEF SetStatus, Instruction, Time

\* Every key is of one of the two roles.
LEMMA RoleKey == \A k \in Key : k.role \in Role
  BY DEF Key, Role

\* The values every loop starts from and comes back to are well typed.
LEMMA AbsentType == Absent \in Instruction
  BY DEF Absent, Instruction, Time

\* The worker at rest is well typed.
LEMMA IdleType == Idle \in Reconciliation
  BY AbsentType DEF Idle, Reconciliation, Steps

-----------------------------------------------------------------------------
(* What a write may do to the store.                                       *)

Kept(k) == stored'[k] = stored[k]

Raised(k) == stored'[k].rv = stored[k].rv + 1

\* The store after a write of anyone: one object replaced, one version up.
LEMMA PutMoves ==
  ASSUME stored \in [Key -> Instruction], NEW k \in Key, NEW obj \in Instruction,
         stored' = stored \/ stored' = Put(k, obj)
  PROVE  /\ stored' \in [Key -> Instruction]
         /\ \A x \in Key \ {k} : Kept(x)
         /\ \/ Kept(k)
            \/ stored'[k] = [obj EXCEPT !.rv = stored[k].rv + 1] /\ Raised(k)
  <1>1. CASE stored' = stored
    BY <1>1 DEF Kept
  <1>2. CASE stored' = Put(k, obj)
    <2>1. stored'[k] = stored[k] \/ stored'[k] = [obj EXCEPT !.rv = stored[k].rv + 1]
      BY <1>2, PutType
    <2>2. ASSUME stored'[k] = [obj EXCEPT !.rv = stored[k].rv + 1] PROVE Raised(k)
      BY <2>2 DEF Raised, Instruction
    <2>3. \A x \in Key \ {k} : Kept(x)
      BY <1>2 DEF Kept, Put
    <2> QED BY <1>2, <2>1, <2>2, <2>3, PutType DEF Kept
  <1> QED BY <1>1, <1>2

\* The objects the three kinds of write store are instructions.
LEMMA WrittenType ==
  ASSUME stored \in [Key -> Instruction], NEW k \in Key, NEW obj \in Instruction
  PROVE  /\ [stored[k] EXCEPT !.acked = obj.acked, !.lastUpdate = obj.lastUpdate] \in Instruction
         /\ [stored[k] EXCEPT !.expiresAt = obj.expiresAt] \in Instruction
         /\ [obj EXCEPT !.rv = stored[k].rv] \in Instruction
  BY DEF Instruction

\* A status update, a spec update or a creation, whether it succeeds or fails,
\* is such a write.
LEMMA WriteIsPut ==
  ASSUME NEW k, NEW obj,
         \/ StatusUpdateSucceeds(k, obj) \/ StatusUpdateFails(k, obj)
         \/ SpecUpdateSucceeds(k, obj) \/ SpecUpdateFails(k, obj)
         \/ CreateSucceeds(k, obj) \/ CreateFails(k, obj)
  PROVE  \/ stored' = stored
         \/ stored' = Put(k, [stored[k] EXCEPT !.acked = obj.acked, !.lastUpdate = obj.lastUpdate])
         \/ stored' = Put(k, [stored[k] EXCEPT !.expiresAt = obj.expiresAt])
         \/ stored' = Put(k, [obj EXCEPT !.rv = stored[k].rv])
  BY DEF StatusUpdateSucceeds, StatusUpdateFails, SpecUpdateSucceeds, SpecUpdateFails, CreateSucceeds,
     CreateFails, FailedWrite, PutStatus, PutSpec

\* So it keeps the store well typed and raises the version of what it changes.
LEMMA WriteMoves ==
  ASSUME stored \in [Key -> Instruction], upsets \in Nat, NEW k \in Key, NEW obj \in Instruction,
         \/ StatusUpdateSucceeds(k, obj) \/ StatusUpdateFails(k, obj)
         \/ SpecUpdateSucceeds(k, obj) \/ SpecUpdateFails(k, obj)
         \/ CreateSucceeds(k, obj) \/ CreateFails(k, obj)
  PROVE  /\ stored' \in [Key -> Instruction] /\ upsets' \in Nat
         /\ \A x \in Key : Kept(x) \/ Raised(x)
  <1>1. \E new \in Instruction : stored' = stored \/ stored' = Put(k, new)
    BY WrittenType, WriteIsPut
  <1>2. upsets' \in Nat
    BY DEF StatusUpdateSucceeds, StatusUpdateFails, SpecUpdateSucceeds, SpecUpdateFails,
       CreateSucceeds, CreateFails, FailedWrite, Upset
  <1> QED BY <1>1, <1>2, PutMoves

-----------------------------------------------------------------------------
(* What the controllers rely on and what they keep.                        *)

CtrlShape == KubeTypeOK /\ CtrlTypeOK /\ OwnKey

\* A step of anyone else: it does not touch what the controllers hold, and it
\* leaves an instruction alone or raises its version.
Foreign ==
    /\ UNCHANGED <<ctrlVars, cached, synced>>
    /\ now' \in {now, now + 1}
    /\ KubeTypeOK'
    /\ \A k \in Key : Kept(k) \/ Raised(k)

Stopped == ControllersStop /\ upsets' \in Nat

\* A step as the controllers see it.
CtrlStep ==
    \/ Foreign
    \/ Wake
    \/ \E role \in Role : Reconcile(role)
    \/ Stopped

CtrlInv ==
    /\ CtrlShape
    /\ CacheCoherent
    /\ FreshVerdict
    /\ NoLostWakeup

\* The controllers start in that shape.
LEMMA CtrlInitShape == KubeInit /\ CtrlInit => CtrlShape
  <1> SUFFICES ASSUME KubeInit, CtrlInit PROVE CtrlShape
    OBVIOUS
  <1>1. KubeTypeOK
    BY AbsentType DEF KubeInit, KubeTypeOK, Time
  <1>2. CtrlTypeOK /\ OwnKey
    BY IdleType DEF CtrlInit, CtrlTypeOK, OwnKey, Idle, Time
  <1> QED BY <1>1, <1>2 DEF CtrlShape

\* The environment's steps are foreign ones.
LEMMA EnvironmentIsForeign ==
  ASSUME KubeTypeOK, Environment, UNCHANGED ctrlVars PROVE Foreign
  <1> USE DEF KubeTypeOK
  <1>1. CASE Tick
    BY <1>1 DEF Tick, Foreign, Kept
  <1>2. ASSUME NEW r \in Reservation, BrokerReserve(r) \/ BrokerRenew(r) \/ BrokerRelease(r)
        PROVE  Foreign
    <2>1. rsv' \in [Reservation -> [phase : {"Pending", "Reserved", "Released"}, expiresAt : Time]]
      BY <1>2, KubeAssumption DEF BrokerReserve, BrokerRenew, BrokerRelease, Time
    <2> QED BY <1>2, <2>1 DEF BrokerReserve, BrokerRenew, BrokerRelease, Foreign, Kept
  <1>3. ASSUME NEW k \in Key, OperatorDelete(k) PROVE Foreign
    <2>1. [Absent EXCEPT !.rv = stored[k].rv + 1] \in Instruction
      BY AbsentType DEF Instruction
    <2>2. \A x \in Key : Kept(x) \/ Raised(x)
      BY <1>3 DEF OperatorDelete, Absent, Kept, Raised
    <2> QED BY <1>3, <2>1, <2>2 DEF OperatorDelete, Upset, Foreign
  <1> QED BY <1>1, <1>2, <1>3 DEF Environment

\* Every step keeps the types, and whose key each worker holds.
LEMMA CtrlShapeStep == ASSUME CtrlShape, CtrlStep PROVE CtrlShape'
  <1> USE KubeAssumption, KeyAssumption DEF CtrlShape, KubeTypeOK, CtrlTypeOK, OwnKey
  <1>1. CASE Foreign
    BY <1>1 DEF Foreign, ctrlVars
  <1>2. CASE Wake
    <2>1. CASE CacheSync
      BY <2>1 DEF CacheSync
    <2>2. ASSUME NEW k \in Key, Deliver(k) PROVE CtrlShape'
      BY <2>2 DEF Deliver
    <2>3. ASSUME NEW k \in Key, TimerFires(k) PROVE CtrlShape'
      BY <2>3 DEF TimerFires, kubeVars, Time
    <2> QED BY <1>2, <2>1, <2>2, <2>3 DEF Wake
  <1>3. ASSUME NEW role \in Role, Reconcile(role) PROVE CtrlShape'
    <2>1. ASSUME NEW k \in Key, k.role = role, Take(k), NEW obj \in Instruction,
                 NEW step \in Steps, rec' = rec \/ Begin(k, step, obj),
                 UNCHANGED kubeVars
          PROVE  CtrlShape'
      <3>1. timer' \in [Key -> Time] /\ queue' \in SUBSET Key
        BY <2>1 DEF Take, Time
      <3>2. rec' \in [Role -> Reconciliation] /\ OwnKey'
        BY <2>1 DEF Begin, Reconciliation
      <3> QED BY <2>1, <3>1, <3>2 DEF kubeVars
    <2>2. ASSUME NEW k \in Key, k.role = role,
                 \/ ReconcileNotFound(k) \/ ReconcileExpired(k) \/ ReconcileSettled(k)
                 \/ ReconcileAcked(k) \/ ReconcileNew(k)
          PROVE  CtrlShape'
      <3>1. cached[k] \in Instruction
        OBVIOUS
      <3>2. SetStatus(cached[k], TRUE) \in Instruction /\ SetStatus(cached[k], FALSE) \in Instruction
        BY <3>1, SetStatusType
      <3> QED BY <2>1, <2>2, <3>1, <3>2
          DEF ReconcileNotFound, ReconcileExpired, ReconcileSettled, ReconcileAcked, ReconcileNew,
              Steps, kubeVars
    <2>3. CASE StatusWritten(role) \/ StatusFailed(role)
      <3>1. rec[role].key \in Key /\ rec[role].obj \in Instruction
        BY <2>3 DEF StatusWritten, StatusFailed, Writing, Reconciliation
      <3>2. stored' \in [Key -> Instruction] /\ upsets' \in Nat
        BY <2>3, <3>1, WriteMoves DEF StatusWritten, StatusFailed
      <3>3. KubeTypeOK' /\ timer' \in [Key -> Time] /\ queue' \in SUBSET Key
        BY <2>3, <3>1, <3>2 DEF StatusWritten, StatusFailed
      <3>4. \/ rec' = [rec EXCEPT ![role] = Idle]
            \/ rec' = [rec EXCEPT ![role] = [rec[role] EXCEPT !.pc = "requeue"]]
        BY <2>3 DEF StatusWritten, StatusFailed
      <3>5. rec' \in [Role -> Reconciliation] /\ OwnKey'
        BY <2>3, <3>1, <3>4, IdleType DEF StatusWritten, StatusFailed, Writing, Reconciliation, Steps, Idle
      <3> QED BY <3>3, <3>5
    <2>4. CASE Requeue(role)
      <3>1. rec[role].key \in Key /\ rec[role].obj.expiresAt \in Time
        BY <2>4 DEF Requeue, Reconciliation, Instruction
      <3>2. Earlier(timer[rec[role].key], DueAt(rec[role].obj.expiresAt)) \in Time
        BY <3>1, RequeueType DEF Time
      <3> QED BY <2>4, <3>1, <3>2, IdleType DEF Requeue, kubeVars, Idle
    <2> QED BY <1>3, <2>2, <2>3, <2>4 DEF Reconcile
  <1>4. CASE Stopped
    <2>1. KubeTypeOK'
      <3>1. cached' \in [Key -> Instruction] /\ upsets' \in Nat /\ synced' \in BOOLEAN
        BY <1>4, AbsentType DEF Stopped, ControllersStop
      <3> QED BY <1>4, <3>1 DEF Stopped, ControllersStop
    <2>2. CtrlTypeOK' /\ OwnKey'
      BY <1>4, IdleType DEF Stopped, ControllersStop, Idle, Time
    <2> QED BY <2>1, <2>2
  <1> QED BY <1>1, <1>2, <1>3, <1>4 DEF CtrlStep

-----------------------------------------------------------------------------
(* What a step may do to each part of the state.                           *)

\* The verdict of the reconciliation that holds the current version.
Marked(k) ==
    /\ Writing(k.role) /\ rec[k.role].key = k
    /\ rec[k.role].obj.rv = stored[k].rv
    /\ stored[k].exists /\ stored'[k].exists
    /\ stored'[k].expiresAt = stored[k].expiresAt
    /\ stored'[k].acked = rec[k.role].obj.acked
    /\ Raised(k)

\* A status update touches the instruction under reconciliation, and only if
\* its version is still the one that was read.
LEMMA StatusMoves ==
  ASSUME CtrlShape, NEW role \in Role, StatusWritten(role) \/ StatusFailed(role)
  PROVE  \A k \in Key : Kept(k) \/ Marked(k)
  <1> DEFINE k == rec[role].key
             obj == rec[role].obj
             marked == [stored[k] EXCEPT !.acked = obj.acked, !.lastUpdate = obj.lastUpdate]
  <1>1. /\ k \in Key /\ k.role = role /\ obj \in Instruction
        /\ stored \in [Key -> Instruction] /\ Writing(role)
    BY DEF StatusWritten, StatusFailed, Writing, CtrlShape, KubeTypeOK, CtrlTypeOK, OwnKey,
           Reconciliation
  <1>2. marked \in Instruction
    BY <1>1 DEF Instruction
  <1>3. stored' = stored \/ (Updatable(k, obj) /\ stored' = Put(k, marked))
    BY DEF StatusWritten, StatusFailed, StatusUpdateSucceeds, StatusUpdateFails, FailedWrite,
           PutStatus
  <1>4. CASE stored' = stored
    BY <1>4 DEF Kept
  <1>5. CASE Updatable(k, obj) /\ stored' = Put(k, marked)
    <2>1. /\ \A x \in Key \ {k} : Kept(x)
          /\ Kept(k) \/ stored'[k] = [marked EXCEPT !.rv = stored[k].rv + 1]
      BY <1>1, <1>2, <1>5, PutMoves
    <2>2. ASSUME stored'[k] = [marked EXCEPT !.rv = stored[k].rv + 1] PROVE Marked(k)
      <3>1. /\ stored'[k].exists = stored[k].exists /\ stored'[k].expiresAt = stored[k].expiresAt
            /\ stored'[k].acked = obj.acked /\ stored'[k].rv = stored[k].rv + 1
        BY <1>1, <2>2 DEF Instruction
      <3> QED BY <1>1, <1>5, <3>1 DEF Marked, Raised, Updatable
    <2> QED BY <2>1, <2>2
  <1> QED BY <1>3, <1>4, <1>5

\* A reconciliation changes no instruction in any other way.
LEMMA ReconcileMoves ==
  ASSUME CtrlShape, NEW role \in Role, Reconcile(role)
  PROVE  \A k \in Key : Kept(k) \/ Marked(k)
  <1>1. CASE StatusWritten(role) \/ StatusFailed(role)
    BY <1>1, StatusMoves
  <1>2. CASE ~(StatusWritten(role) \/ StatusFailed(role))
    BY <1>2 DEF Reconcile, ReconcileNotFound, ReconcileExpired, ReconcileSettled, ReconcileAcked,
       ReconcileNew, Requeue, kubeVars, Kept
  <1> QED BY <1>1, <1>2

\* Whoever takes the step, an instruction is left alone or its version raised.
LEMMA CtrlStoreMoves ==
  ASSUME CtrlShape, CtrlStep PROVE \A k \in Key : Kept(k) \/ Raised(k)
  <1>1. CASE Foreign
    BY <1>1 DEF Foreign
  <1>2. CASE Wake \/ Stopped
    BY <1>2 DEF Wake, CacheSync, Deliver, TimerFires, Stopped, ControllersStop, kubeVars, Kept
  <1>3. ASSUME NEW role \in Role, Reconcile(role) PROVE \A k \in Key : Kept(k) \/ Raised(k)
    BY <1>3, ReconcileMoves DEF Marked
  <1> QED BY <1>1, <1>2, <1>3 DEF CtrlStep

\* The clock never goes back.
LEMMA ClockStep == ASSUME CtrlShape, CtrlStep PROVE now' \in Nat /\ now' >= now
  <1>1. now \in Nat
    BY DEF CtrlShape, KubeTypeOK
  <1>2. CASE Foreign
    BY <1>1, <1>2 DEF Foreign
  <1>3. CASE ~Foreign
    <2>1. now' = now
      BY <1>3 DEF CtrlStep, Wake, CacheSync, Deliver, TimerFires, Reconcile,
         ReconcileNotFound, ReconcileExpired, ReconcileSettled, ReconcileAcked, ReconcileNew,
         StatusWritten, StatusFailed, Requeue, Stopped, ControllersStop, kubeVars
    <2> QED BY <1>1, <2>1
  <1> QED BY <1>2, <1>3

\* What has expired stays expired.
LEMMA ExpiredStays ==
  ASSUME CtrlShape, CtrlStep, NEW t \in Time, Expired(t)
  PROVE  t # NoTime /\ t < now'
  BY ClockStep, KubeAssumption DEF Expired, Time, CtrlShape, KubeTypeOK

\* What a step does to the cache.
LEMMA CacheMoves ==
  ASSUME CtrlStep
  PROVE  \/ UNCHANGED <<cached, synced>>
         \/ CacheSync
         \/ \E k \in Key : Deliver(k)
         \/ ControllersStop
  BY DEF CtrlStep, Foreign, Wake, TimerFires, Reconcile,
     ReconcileNotFound, ReconcileExpired, ReconcileSettled, ReconcileAcked, ReconcileNew,
     StatusWritten, StatusFailed, Requeue, Stopped, kubeVars

-----------------------------------------------------------------------------
(* The invariant.                                                          *)

\* The cache stays coherent with the server.
LEMMA CoherentStep == ASSUME CtrlInv, CtrlStep PROVE CacheCoherent'
  <1>1. CtrlShape /\ CtrlShape'
    BY CtrlShapeStep DEF CtrlInv
  <1>2. SUFFICES ASSUME NEW k \in Key
                 PROVE  /\ cached'[k].rv <= stored'[k].rv
                        /\ synced' /\ cached'[k].rv = stored'[k].rv => cached'[k] = stored'[k]
    BY DEF CacheCoherent
  <1>3. /\ cached[k] \in Instruction /\ stored[k] \in Instruction /\ stored'[k] \in Instruction
        /\ cached[k].rv \in Nat /\ stored[k].rv \in Nat /\ stored'[k].rv \in Nat
    BY <1>1 DEF CtrlShape, KubeTypeOK, Instruction
  <1>4. /\ cached[k].rv <= stored[k].rv
        /\ synced /\ cached[k].rv = stored[k].rv => cached[k] = stored[k]
    BY DEF CtrlInv, CacheCoherent
  <1>5. Kept(k) \/ Raised(k)
    BY <1>1, CtrlStoreMoves
  <1>6. CASE UNCHANGED <<cached, synced>>
    BY <1>3, <1>4, <1>5, <1>6 DEF Kept, Raised
  <1>7. CASE CacheSync
    BY <1>3, <1>7 DEF CacheSync
  <1>8. ASSUME NEW x \in Key, Deliver(x)
        PROVE  /\ cached'[k].rv <= stored'[k].rv
               /\ synced' /\ cached'[k].rv = stored'[k].rv => cached'[k] = stored'[k]
    <2>1. cached \in [Key -> Instruction] /\ stored' = stored /\ synced' = synced
      BY <1>1, <1>8 DEF Deliver, CtrlShape, KubeTypeOK
    <2>2. CASE k = x
      BY <1>3, <1>8, <2>1, <2>2 DEF Deliver
    <2>3. CASE k # x
      BY <1>3, <1>4, <1>8, <2>1, <2>3 DEF Deliver
    <2> QED BY <2>2, <2>3
  <1>9. CASE ControllersStop
    BY <1>3, <1>9 DEF ControllersStop, Absent
  <1> QED BY <1>6, <1>7, <1>8, <1>9, CacheMoves

\* What a step does to the reconciliation of one role: nothing, start it from
\* the cached object with nothing else of the cluster changed, or take it to a
\* step that writes nothing.
LEMMA RecMoves ==
  ASSUME CtrlShape, CtrlStep, NEW role \in Role
  PROVE  \/ rec'[role] = rec[role]
         \/ \E k \in Key : k.role = role /\ ReconcileExpired(k)
         \/ \E k \in Key : k.role = role /\ ReconcileNew(k)
         \/ rec'[role].pc \in {"idle", "requeue"}
  <1>1. rec \in [Role -> Reconciliation]
    BY DEF CtrlShape, CtrlTypeOK
  <1>2. CASE Foreign \/ Wake
    BY <1>2 DEF Foreign, Wake, CacheSync, Deliver, TimerFires, ctrlVars
  <1>3. CASE Stopped
    BY <1>3 DEF Stopped, ControllersStop, Idle
  <1>4. ASSUME NEW r \in Role, Reconcile(r), r # role PROVE rec'[role] = rec[role]
    <2>1. ASSUME NEW k \in Key, k.role = r, NEW step, NEW obj, Begin(k, step, obj)
          PROVE  rec'[role] = rec[role]
      BY <1>1, <1>4, <2>1 DEF Begin
    <2> QED BY <1>1, <1>4, <2>1 DEF Reconcile, ReconcileNotFound, ReconcileExpired,
           ReconcileSettled, ReconcileAcked, ReconcileNew, StatusWritten, StatusFailed, Requeue
  <1>5. CASE Reconcile(role)
    <2>1. ASSUME NEW k \in Key, k.role = role, ReconcileAcked(k)
          PROVE  rec'[role].pc = "requeue"
      BY <1>1, <2>1 DEF ReconcileAcked, Begin
    <2>2. CASE StatusWritten(role) \/ StatusFailed(role) \/ Requeue(role)
      <3>1. \/ rec' = [rec EXCEPT ![role] = Idle]
            \/ rec' = [rec EXCEPT ![role] = [rec[role] EXCEPT !.pc = "requeue"]]
        BY <2>2 DEF StatusWritten, StatusFailed, Requeue
      <3>2. rec[role] \in Reconciliation
        BY <1>1
      <3> QED BY <1>1, <3>1, <3>2 DEF Idle, Reconciliation
    <2> QED BY <1>5, <2>1, <2>2 DEF Reconcile, ReconcileNotFound, ReconcileSettled
  <1> QED BY <1>2, <1>3, <1>4, <1>5 DEF CtrlStep

\* FreshVerdict, for one role.
Verdict(role) == Writing(role) =>
    /\ rec[role].obj.rv <= stored[rec[role].key].rv
    /\ rec[role].obj.rv = stored[rec[role].key].rv =>
          rec[role].obj.expiresAt = stored[rec[role].key].expiresAt
    /\ rec[role].pc = "acknowledge" => rec[role].obj.acked
    /\ rec[role].pc = "expire" =>
          /\ Expired(rec[role].obj.expiresAt) /\ ~rec[role].obj.acked
          /\ rec[role].obj.rv = stored[rec[role].key].rv =>
                MustMark(rec[role].key, stored[rec[role].key])

\* A verdict stays fresh while the worker holds it: a write by anyone else
\* raises the version past the one it carries.
LEMMA VerdictKept ==
  ASSUME CtrlInv, CtrlStep, NEW role \in Role, rec'[role] = rec[role]
  PROVE  Verdict(role)'
  <1> SUFFICES ASSUME Writing(role) PROVE Verdict(role)'
    BY DEF Verdict, Writing
  <1> DEFINE k == rec[role].key
             obj == rec[role].obj
  <1>1. CtrlShape /\ CtrlShape'
    BY CtrlShapeStep DEF CtrlInv
  <1>2. k \in Key /\ obj \in Instruction
    BY <1>1 DEF CtrlShape, OwnKey, Writing, CtrlTypeOK, Reconciliation
  <1>3. obj.rv \in Nat /\ stored[k].rv \in Nat /\ stored'[k].rv \in Nat /\ obj.expiresAt \in Time
    BY <1>1, <1>2 DEF CtrlShape, KubeTypeOK, Instruction
  <1>4. Verdict(role)
    BY DEF CtrlInv, FreshVerdict, Verdict
  <1>5. rec[role].pc = "expire" => Expired(obj.expiresAt)'
    <2> SUFFICES ASSUME rec[role].pc = "expire" PROVE Expired(obj.expiresAt)'
      OBVIOUS
    <2>1. Expired(obj.expiresAt)
      BY <1>4 DEF Verdict
    <2> QED BY <1>1, <1>3, <2>1, ExpiredStays DEF Expired
  <1>6. Kept(k) \/ Raised(k)
    BY <1>1, <1>2, CtrlStoreMoves
  <1>7. CASE Kept(k)
    BY <1>4, <1>5, <1>7 DEF Verdict, Writing, Kept, MustMark
  <1>8. CASE Raised(k)
    <2>1. obj.rv <= stored'[k].rv /\ obj.rv # stored'[k].rv
      BY <1>3, <1>4, <1>8 DEF Verdict, Raised
    <2> QED BY <1>4, <1>5, <2>1 DEF Verdict, Writing
  <1> QED BY <1>6, <1>7, <1>8

\* A verdict is fresh when the worker takes it: the cache it reads is coherent.
LEMMA VerdictTaken ==
  ASSUME CtrlInv, NEW k \in Key, ReconcileExpired(k) \/ ReconcileNew(k)
  PROVE  Verdict(k.role)'
  <1> DEFINE obj == rec[k.role].obj
  <1>1. /\ rec \in [Role -> Reconciliation] /\ cached[k] \in Instruction /\ k.role \in Role
        /\ stored[k] \in Instruction /\ synced
    BY RoleKey DEF CtrlInv, CtrlShape, KubeTypeOK, CtrlTypeOK, ReconcileExpired, ReconcileNew, Take
  <1>2. UNCHANGED <<now, stored, cached, synced>>
    BY DEF ReconcileExpired, ReconcileNew, kubeVars
  <1>3. /\ cached[k].rv <= stored[k].rv
        /\ cached[k].rv = stored[k].rv => cached[k] = stored[k]
    BY <1>1 DEF CtrlInv, CacheCoherent
  <1>4. CASE ReconcileExpired(k)
    <2>1. rec'[k.role] = [pc |-> "expire", key |-> k, obj |-> SetStatus(cached[k], FALSE)]
      BY <1>1, <1>4 DEF ReconcileExpired, Begin
    <2>2. obj'.rv = cached[k].rv /\ obj'.expiresAt = cached[k].expiresAt /\ ~obj'.acked
      <3>1. obj' = [cached[k] EXCEPT !.acked = FALSE, !.lastUpdate = Sec(now)]
        BY <2>1 DEF SetStatus
      <3> QED BY <1>1, <3>1 DEF Instruction
    <2>3. Expired(obj.expiresAt)' /\ MustMark(k, cached[k])
      BY <1>2, <1>4, <2>2 DEF ReconcileExpired, Expired
    <2>4. rec'[k.role].pc = "expire" /\ rec'[k.role].key = k
      BY <2>1
    <2>5. obj'.rv = stored'[k].rv => obj'.expiresAt = stored'[k].expiresAt /\ MustMark(k, stored'[k])
      BY <1>2, <1>3, <2>2, <2>3
    <2>6. obj'.rv <= stored'[k].rv
      BY <1>2, <1>3, <2>2
    <2> QED BY <2>2, <2>3, <2>4, <2>5, <2>6 DEF Verdict, MustMark
  <1>5. CASE ReconcileNew(k)
    <2>1. rec'[k.role] = [pc |-> "acknowledge", key |-> k, obj |-> SetStatus(cached[k], TRUE)]
      BY <1>1, <1>5 DEF ReconcileNew, Begin
    <2>2. obj'.rv = cached[k].rv /\ obj'.expiresAt = cached[k].expiresAt /\ obj'.acked
      <3>1. obj' = [cached[k] EXCEPT !.acked = TRUE, !.lastUpdate = Sec(now)]
        BY <2>1 DEF SetStatus
      <3> QED BY <1>1, <3>1 DEF Instruction
    <2>3. rec'[k.role].pc = "acknowledge" /\ rec'[k.role].key = k
      BY <2>1
    <2>4. obj'.rv = stored'[k].rv => obj'.expiresAt = stored'[k].expiresAt
      BY <1>2, <1>3, <2>2
    <2>5. obj'.rv <= stored'[k].rv
      BY <1>2, <1>3, <2>2
    <2> QED BY <2>2, <2>3, <2>4, <2>5 DEF Verdict
  <1> QED BY <1>4, <1>5

\* Verdicts stay fresh.
LEMMA FreshStep == ASSUME CtrlInv, CtrlStep PROVE FreshVerdict'
  <1>1. CtrlShape
    BY DEF CtrlInv
  <1>2. ASSUME NEW role \in Role PROVE Verdict(role)'
    <2>1. CASE rec'[role] = rec[role]
      BY <2>1, VerdictKept
    <2>2. ASSUME NEW k \in Key, k.role = role, ReconcileExpired(k) \/ ReconcileNew(k)
          PROVE  Verdict(role)'
      BY <2>2, VerdictTaken
    <2>3. CASE rec'[role].pc \in {"idle", "requeue"}
      BY <2>3 DEF Verdict, Writing
    <2> QED BY <1>1, <2>1, <2>2, <2>3, RecMoves
  <1> QED BY <1>2 DEF FreshVerdict, Verdict

\* An instruction that was just written is announced by an event the cache has
\* not seen.
LEMMA RaisedWakes ==
  ASSUME CtrlInv, CtrlStep, NEW k \in Key, Raised(k)
  PROVE  Wakeup(k)'
  <1>1. cached[k].rv \in Nat /\ stored[k].rv \in Nat /\ cached[k].rv <= stored[k].rv
    BY DEF CtrlInv, CtrlShape, KubeTypeOK, CacheCoherent, Instruction
  <1>2. CASE UNCHANGED <<cached, synced>>
    BY <1>1, <1>2 DEF Raised, Wakeup
  <1>3. CASE CacheSync \/ (\E x \in Key : Deliver(x)) \/ ControllersStop
    BY <1>1, <1>3 DEF Raised, CacheSync, Deliver, ControllersStop
  <1> QED BY <1>2, <1>3, CacheMoves

\* A reconciliation that returns without having scheduled its object found it
\* deleted, or expired and marked.
LEMMA DroppedIsSettled ==
  ASSUME CtrlInv, NEW k \in Key, ReconcileNotFound(k) \/ ReconcileSettled(k),
         stored[k].exists, ~Settled(k)
  PROVE  cached[k].rv # stored[k].rv
  <1>1. synced /\ (cached[k].rv = stored[k].rv => cached[k] = stored[k])
    BY DEF CtrlInv, CacheCoherent, ReconcileNotFound, ReconcileSettled, Take
  <1>2. ~cached[k].exists \/ (Expired(cached[k].expiresAt) /\ ~cached[k].acked)
    BY DEF ReconcileNotFound, ReconcileSettled, MustMark
  <1> QED BY <1>1, <1>2 DEF Settled

\* Writing the mark of an expired instruction settles it.
LEMMA MarkSettles ==
  ASSUME CtrlInv, NEW role \in Role, StatusWritten(role), rec[role].pc = "expire",
         NEW k \in Key, rec[role].key = k, Kept(k)
  PROVE  Settled(k)'
  <1> DEFINE obj == rec[role].obj
             marked == [stored[k] EXCEPT !.acked = obj.acked, !.lastUpdate = obj.lastUpdate]
  <1>1. stored \in [Key -> Instruction] /\ stored[k] \in Instruction /\ Writing(role)
    BY DEF CtrlInv, CtrlShape, KubeTypeOK, StatusWritten, Writing
  <1>2. Expired(obj.expiresAt) /\ ~obj.acked /\ (obj.rv = stored[k].rv => obj.expiresAt = stored[k].expiresAt)
    BY <1>1 DEF CtrlInv, FreshVerdict
  <1>3. obj.rv = stored[k].rv /\ stored' = Put(k, marked) /\ now' = now
    BY DEF StatusWritten, StatusUpdateSucceeds, Updatable, PutStatus
  <1>4. marked.acked = obj.acked
    BY <1>1 DEF Instruction
  <1>5. stored[k].acked = obj.acked
    <2>1. CASE marked = stored[k]
      BY <1>4, <2>1
    <2>2. CASE marked # stored[k]
      <3>1. stored' = [stored EXCEPT ![k] = [marked EXCEPT !.rv = stored[k].rv + 1]]
        BY <1>3, <2>2 DEF Put
      <3>2. stored'[k].rv = stored[k].rv + 1
        BY <1>1, <3>1 DEF Instruction
      <3>3. stored[k].rv \in Nat
        BY <1>1 DEF Instruction
      <3> QED BY <3>2, <3>3 DEF Kept
    <2> QED BY <2>1, <2>2
  <1>6. Expired(stored[k].expiresAt)
    BY <1>2, <1>3
  <1> QED BY <1>2, <1>3, <1>5, <1>6 DEF Settled, Expired, Kept

\* Each step keeps something that will wake an instruction with work left.
LEMMA WakeupStep == ASSUME CtrlInv, CtrlStep PROVE NoLostWakeup'
  <1> SUFFICES ASSUME NEW k \in Key, stored'[k].exists, ~Settled(k)' PROVE Wakeup(k)'
    BY DEF NoLostWakeup
  <1>1. CtrlShape /\ k.role \in Role
    BY RoleKey DEF CtrlInv
  <1>2. CASE Raised(k)
    BY <1>2, RaisedWakes
  <1>3. ASSUME Kept(k) PROVE Wakeup(k)'
    <2>1. stored[k].exists /\ ~Settled(k)
      <3>1. stored[k].expiresAt \in Time
        BY DEF CtrlInv, CtrlShape, KubeTypeOK, Instruction
      <3>2. now \in Nat /\ now' \in Nat /\ now' >= now
        BY <1>1, ClockStep DEF CtrlShape, KubeTypeOK
      <3> QED BY <1>3, <3>1, <3>2, KubeAssumption DEF Kept, Settled, Expired, Time
    <2>2. Wakeup(k)
      BY <2>1 DEF CtrlInv, NoLostWakeup
    <2>3. /\ rec \in [Role -> Reconciliation] /\ timer \in [Key -> Time]
          /\ cached \in [Key -> Instruction]
      BY <1>1 DEF CtrlShape, KubeTypeOK, CtrlTypeOK
    <2>4. CASE Foreign
      BY <1>3, <2>2, <2>4 DEF Foreign, ctrlVars, Kept, Wakeup
    <2>5. CASE Wake
      <3>1. CASE CacheSync
        BY <1>3, <2>1, <3>1 DEF CacheSync, Wakeup, Kept
      <3>2. ASSUME NEW x \in Key, Deliver(x) PROVE Wakeup(k)'
        BY <2>2, <2>3, <3>2 DEF Deliver, Wakeup
      <3>3. ASSUME NEW x \in Key, TimerFires(x) PROVE Wakeup(k)'
        BY <2>2, <2>3, <3>3 DEF TimerFires, Wakeup, kubeVars
      <3> QED BY <2>5, <3>1, <3>2, <3>3 DEF Wake
    <2>6. ASSUME NEW role \in Role, Reconcile(role) PROVE Wakeup(k)'
      <3>1. ASSUME NEW x \in Key, x.role = role, x # k, Take(x), UNCHANGED <<stored, cached, synced>>,
                   rec' = rec \/ \E step, obj : Begin(x, step, obj)
            PROVE  Wakeup(k)'
        <4>1. rec[k.role].pc # "idle" => rec'[k.role] = rec[k.role]
          BY <1>1, <2>3, <3>1 DEF Take, Begin
        <4>2. timer'[k] = timer[k] /\ (k \in queue => k \in queue')
          BY <2>3, <3>1 DEF Take
        <4> QED BY <2>2, <3>1, <4>1, <4>2 DEF Wakeup
      <3>2. ASSUME k.role = role, ReconcileExpired(k) \/ ReconcileAcked(k) \/ ReconcileNew(k)
            PROVE  Wakeup(k)'
        <4>1. \E step \in Steps \ {"idle"} : \E obj : Begin(k, step, obj)
          BY <3>2 DEF ReconcileExpired, ReconcileAcked, ReconcileNew, Steps
        <4>2. rec'[k.role].pc # "idle" /\ rec'[k.role].key = k
          BY <1>1, <2>3, <4>1 DEF Begin
        <4> QED BY <4>2 DEF Wakeup
      <3>3. ASSUME ReconcileNotFound(k) \/ ReconcileSettled(k) PROVE Wakeup(k)'
        <4>1. cached[k].rv # stored[k].rv
          BY <2>1, <3>3, DroppedIsSettled
        <4> QED BY <3>3, <4>1 DEF ReconcileNotFound, ReconcileSettled, kubeVars, Wakeup
      <3>4. CASE StatusWritten(role)
        <4>1. CASE rec[role].key = k /\ rec[role].pc = "expire"
          BY <1>3, <3>4, <4>1, MarkSettles
        <4>2. CASE rec[role].key = k /\ rec[role].pc # "expire"
          <5>1. rec' = [rec EXCEPT ![role] = [rec[role] EXCEPT !.pc = "requeue"]]
            BY <3>4, <4>2 DEF StatusWritten
          <5>2. rec'[role].pc = "requeue" /\ rec'[role].key = k
            BY <2>3, <4>2, <5>1 DEF Reconciliation
          <5>3. k.role = role
            BY <3>4, <4>2 DEF CtrlInv, CtrlShape, OwnKey, StatusWritten, Writing
          <5> QED BY <5>2, <5>3 DEF Wakeup
        <4>3. CASE rec[role].key # k
          <5>1. rec[k.role].key = k => rec'[k.role] = rec[k.role]
            BY <1>1, <2>3, <3>4, <4>3 DEF StatusWritten
          <5> QED BY <1>3, <2>2, <3>4, <5>1 DEF StatusWritten, Wakeup, Kept
        <4> QED BY <4>1, <4>2, <4>3
      <3>5. CASE StatusFailed(role)
        <4>1. CASE rec[role].key = k
          BY <3>5, <4>1 DEF StatusFailed, Wakeup
        <4>2. CASE rec[role].key # k
          <5>1. rec[k.role].key = k => rec'[k.role] = rec[k.role]
            BY <1>1, <2>3, <3>5, <4>2 DEF StatusFailed
          <5> QED BY <1>3, <2>2, <3>5, <5>1 DEF StatusFailed, Wakeup, Kept
        <4> QED BY <4>1, <4>2
      <3>6. CASE Requeue(role)
        <4>1. rec[role].key \in Key /\ rec[role].obj.expiresAt \in Time /\ now \in Nat
          BY <1>1, <3>6 DEF Requeue, CtrlShape, KubeTypeOK, CtrlTypeOK, OwnKey, Reconciliation,
             Instruction
        <4>2. CASE rec[role].key = k
          <5>1. timer'[k] = Earlier(timer[k], DueAt(rec[role].obj.expiresAt))
            BY <2>3, <3>6, <4>2 DEF Requeue
          <5>2. timer'[k] \in Nat
            BY <2>3, <4>1, <5>1, RequeueType
          <5> QED BY <5>2, KubeAssumption DEF Wakeup
        <4>3. CASE rec[role].key # k
          <5>1. rec[k.role].key = k => rec'[k.role] = rec[k.role]
            BY <1>1, <2>3, <3>6, <4>3 DEF Requeue
          <5>2. timer'[k] = timer[k]
            BY <2>3, <3>6, <4>3 DEF Requeue
          <5> QED BY <2>2, <3>6, <5>1, <5>2 DEF Requeue, kubeVars, Wakeup
        <4> QED BY <4>2, <4>3
      <3>7. ASSUME NEW x \in Key, x.role = role,
                   \/ ReconcileNotFound(x) \/ ReconcileExpired(x) \/ ReconcileSettled(x)
                   \/ ReconcileAcked(x) \/ ReconcileNew(x)
            PROVE  Wakeup(k)'
        <4>1. CASE x = k
          BY <3>2, <3>3, <3>7, <4>1
        <4>2. CASE x # k
          BY <3>1, <3>7, <4>2 DEF ReconcileNotFound, ReconcileExpired, ReconcileSettled,
             ReconcileAcked, ReconcileNew, kubeVars
        <4> QED BY <4>1, <4>2
      <3> QED BY <2>6, <3>4, <3>5, <3>6, <3>7 DEF Reconcile
    <2>7. CASE Stopped
      BY <2>7 DEF Stopped, ControllersStop, Wakeup
    <2> QED BY <2>4, <2>5, <2>6, <2>7 DEF CtrlStep
  <1> QED BY <1>1, <1>2, <1>3, CtrlStoreMoves

\* The initial state.
LEMMA CtrlInitInv == KubeInit /\ CtrlInit => CtrlInv
  <1> SUFFICES ASSUME KubeInit, CtrlInit PROVE CtrlInv
    OBVIOUS
  <1>1. CacheCoherent
    BY DEF KubeInit, CacheCoherent, Absent
  <1>2. FreshVerdict
    BY DEF CtrlInit, FreshVerdict, Writing, Idle
  <1>3. NoLostWakeup
    BY DEF KubeInit, NoLostWakeup, Wakeup
  <1> QED BY <1>1, <1>2, <1>3, CtrlInitShape DEF CtrlInv

\* What the controllers guarantee under either transport: as long as everyone
\* else leaves an instruction alone or raises its version, no stale verdict
\* passes the version check and no wake-up is lost, through conflicts, failed
\* writes and restarts.
THEOREM ControllersKeepInv == CtrlInv /\ CtrlStep => CtrlInv'
  <1> SUFFICES ASSUME CtrlInv, CtrlStep PROVE CtrlInv'
    OBVIOUS
  <1>1. CtrlShape'
    BY CtrlShapeStep DEF CtrlInv
  <1> QED BY <1>1, CoherentStep, FreshStep, WakeupStep DEF CtrlInv

=============================================================================
