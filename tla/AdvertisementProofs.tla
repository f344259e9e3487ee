-------------------------- MODULE AdvertisementProofs --------------------------
(***************************************************************************)
(* Proofs about AdvertisementReconciler, for all lists, contents, command  *)
(* lines and numbers of retries: its state is well typed, what is measured *)
(* is what is left of the lists that were read, what is sent is what is    *)
(* stored, and the Reserved field is safe as far as it is read.            *)
(***************************************************************************)
EXTENDS AdvertisementReconciler, CollectorProofs

\* What a reconciliation can have measured.
Measurements == {CollectClusterResources(n, p, i) :
                   n \in NodeLists, p \in PodLists, i \in InstructionLists}

\* The lists a collection has read are lists the cluster has had.
ReadLists ==
    /\ reading.next # "nodes" => reading.nodes \in NodeLists
    /\ reading.next = "instructions" => reading.pods \in PodLists

\* A reconciliation past its collection has measured something; from the spec
\* update on, the object holds it, or has been deleted.
HoldsTheMeasured ==
    /\ rec.ok => rec.content \in Measurements
    /\ rec.pc = "collect" => ~rec.ok
    /\ rec.pc \in {"update", "publish", "publishing"} => rec.ok
    /\ rec.pc \in {"status", "publish", "publishing", "return"} /\ rec.ok /\ adv.exists
         => adv.content = rec.content

\* A publication belongs to a reconciliation, whose measurement it sends over
\* one transport; what it takes for the broker's copy is that copy.
SendsTheMeasured ==
    /\ pub.pc # "idle" => rec.pc = "publishing" /\ pub.content = Sent(rec.content)
    /\ pub.pc \in {"get", "post"} => transport = "http"
    /\ pub.pc \in {"read", "create", "update"} => transport = "kubernetes"
    /\ pub.current => ad.exists /\ pub.reserved = ad.reserved

AdvInv == TypeOK /\ ReadLists /\ HoldsTheMeasured /\ SendsTheMeasured

-----------------------------------------------------------------------------

\* main ends up with one of the three transports, or not at all.
LEMMA ChosenType == ASSUME NEW f \in Flags PROVE Chosen(f) \in Transport \cup {"exit"}
  <1>1. NewCommunicator(f) \in {"http", "exit"}
    BY DEF NewCommunicator, NewHTTPCommunicator
  <1>2. NewBrokerClient(f) \in {"none", "kubernetes", "exit"}
    BY PublisherAssumption DEF NewBrokerClient
  <1> DEFINE t == IF f.kubeconfig # "none" /\ f.transport = "" THEN "kubernetes" ELSE f.transport
  <1> HIDE DEF t
  <1>3. Chosen(f) = CASE t = ""           -> "none"
                      [] t = "http"       -> NewCommunicator(f)
                      [] t = "kubernetes" -> NewBrokerClient(f)
                      [] OTHER            -> "exit"
    BY DEF Chosen, t
  <1> QED BY <1>1, <1>2, <1>3 DEF Transport

\* The values every loop starts from and comes back to are well typed.
LEMMA IdleType == Idle \in Reconciliation
  BY DEF Idle, Reconciliation

\* So is the publisher at rest, which has used no attempt.
LEMMA NotPublishingType == NotPublishing \in Publication /\ NotPublishing.attempt <= maxRetries
  BY PublisherAssumption DEF NotPublishing, Publication

\* A measurement, and what is sent of it, is a content.
LEMMA MeasuredType ==
  ASSUME NEW m \in Measurements PROVE m \in Contents /\ WithoutGPU(m) \in Contents
  <1>1. PICK n \in NodeLists, p \in PodLists, i \in InstructionLists :
          m = CollectClusterResources(n, p, i)
    BY DEF Measurements
  <1> QED BY <1>1, ContentsAssumption

\* The invariant holds at the start.
LEMMA InitInv == Init => AdvInv
  <1> SUFFICES ASSUME Init PROVE AdvInv
    OBVIOUS
  <1>1. transport \in Transport
    BY ChosenType DEF Init, PubInit
  <1>2. PubTypeOK
    BY <1>1, NotPublishingType DEF Init, PubInit, PubTypeOK, Advertisement
  <1>3. TypeOK
    BY <1>2, IdleType DEF Init, TypeOK, CollectorInit, CollectorTypeOK, NotReading, Bootstrapped, Local
  <1>4. ReadLists /\ HoldsTheMeasured /\ SendsTheMeasured
    BY DEF Init, PubInit, CollectorInit, NotReading, Idle, NotPublishing, ReadLists,
           HoldsTheMeasured, SendsTheMeasured
  <1> QED BY <1>3, <1>4 DEF AdvInv

\* What the broker stores of a publication is an advertisement.
LEMMA StoreType ==
  ASSUME pub \in Publication, ad \in Advertisement, UNCHANGED ad \/ Store
  PROVE  ad' \in Advertisement
  <1>1. pub.content \in Contents \cup {NoContent} /\ pub.reserved \in Amounts \cup {NoReserved}
    BY DEF Publication
  <1>2. CASE Store
    BY <1>1, <1>2 DEF Store, Advertisement
  <1> QED BY <1>2

\* A step of a publication keeps the publisher's state well typed, sends what it
\* was given, and is done within its transport.
LEMMA PublishStepKeeps ==
  ASSUME AdvInv, Publish
  PROVE  PubTypeOK' /\ SendsTheMeasured'
  <1>0. PublishStep /\ rec.pc = "publishing" /\ rec' = rec
    BY DEF Publish, advVars
  <1>1. /\ maxRetries \in Nat
        /\ pub \in Publication /\ pub.attempt \in Nat /\ pub.attempt <= maxRetries
        /\ ad \in Advertisement /\ transport \in Transport
    BY PublisherAssumption DEF AdvInv, TypeOK, PubTypeOK, Publication
  <1>2. transport' = transport
    BY <1>0 DEF PublishStep, HttpStep, GetAnswered, GetUseless, GetRetried, PostAnswered, PostRefused,
           PostUnsent, PostFailed, BodyRewound, Cancelled, KubeStep, ReadFound, ReadFailed, CreateAccepted,
           UpdateAccepted, WriteRejected
  <1>3. Sent(rec.content)' = Sent(rec.content) /\ rec' = rec /\ rec.pc = "publishing"
    BY <1>0, <1>2 DEF Sent
  <1>4. CASE Finished /\ (UNCHANGED ad \/ Store)
    <2>1. ad' \in Advertisement
      BY <1>1, <1>4, StoreType
    <2> QED BY <1>1, <1>2, <1>4, <2>1, NotPublishingType
        DEF Finished, PubTypeOK, SendsTheMeasured, NotPublishing
  <1>5. CASE GetAnswered \/ GetUseless \/ GetRetried
    <2>1. pub' \in Publication /\ pub'.attempt <= maxRetries
      <3>1. CASE GetAnswered
        <4>1. ad.reserved \in Amounts \cup {NoReserved}
          BY <1>1 DEF Advertisement
        <4>2. pub' = [pub EXCEPT !.pc = "post", !.attempt = 0, !.reserved = ad.reserved,
                                 !.current = TRUE]
          BY <3>1 DEF GetAnswered
        <4>3. pub' \in Publication
          BY <1>1, <4>1, <4>2 DEF Publication
        <4>4. pub'.attempt = 0
          BY <1>1, <4>2 DEF Publication
        <4> QED BY <1>1, <4>3, <4>4
      <3>2. CASE GetUseless
        <4>1. pub' = [pub EXCEPT !.pc = "post", !.attempt = 0]
          BY <3>2 DEF GetUseless
        <4>2. pub' \in Publication
          BY <1>1, <4>1 DEF Publication
        <4>3. pub'.attempt = 0
          BY <1>1, <4>1 DEF Publication
        <4> QED BY <1>1, <4>2, <4>3
      <3>3. CASE GetRetried
        BY <1>1, <3>3 DEF GetRetried, Retry, Publication
      <3> QED BY <1>5, <3>1, <3>2, <3>3
    <2>2. ad' = ad /\ pub.pc = "get" /\ pub'.pc \in {"get", "post"} /\ pub'.content = pub.content
      BY <1>1, <1>5 DEF GetAnswered, GetUseless, GetRetried, Retry, Publication
    <2>3. pub'.current => ad.exists /\ pub'.reserved = ad.reserved
      BY <1>1, <1>5 DEF AdvInv, SendsTheMeasured, GetAnswered, GetUseless, GetRetried, Retry, Publication
    <2> QED BY <1>1, <1>2, <1>3, <2>1, <2>2, <2>3 DEF AdvInv, PubTypeOK, SendsTheMeasured
  <1>6. CASE pub.pc = "post" /\ Retry /\ UNCHANGED ad
    <2>1. pub' \in Publication /\ pub'.attempt <= maxRetries
      BY <1>1, <1>6 DEF Retry, Publication
    <2>2. /\ pub'.pc = "post" /\ pub'.content = pub.content
          /\ pub'.current = pub.current /\ pub'.reserved = pub.reserved
      BY <1>1, <1>6 DEF Retry, Publication
    <2> QED BY <1>1, <1>2, <1>3, <1>6, <2>1, <2>2 DEF AdvInv, PubTypeOK, SendsTheMeasured
  <1>7. CASE /\ pub.pc = "post" /\ pub.attempt < maxRetries
             /\ UNCHANGED ad \/ Store
             /\ pub' = [pub EXCEPT !.attempt = @ + 1, !.body = "read", !.current = @ /\ ad' = ad]
    <2> DEFINE still == pub.current /\ ad' = ad
    <2> DEFINE next == pub.attempt + 1
    <2>0. /\ pub' = [pub EXCEPT !.attempt = next, !.body = "read", !.current = still]
          /\ still \in BOOLEAN /\ next \in Nat /\ next <= maxRetries
      BY <1>1, <1>7
    <2>1. pub' \in Publication /\ pub'.attempt <= maxRetries
      <3> HIDE DEF still, next
      <3>1. pub' \in Publication
        BY <1>1, <2>0 DEF Publication
      <3>2. pub'.attempt = next
        BY <1>1, <2>0 DEF Publication
      <3> QED BY <2>0, <3>1, <3>2
    <2>2. /\ pub'.pc = "post" /\ pub'.content = pub.content /\ pub'.reserved = pub.reserved
          /\ pub'.current => pub.current /\ ad' = ad
      BY <1>1, <1>7 DEF Publication
    <2>3. ad' \in Advertisement
      BY <1>1, <1>7, StoreType
    <2> QED BY <1>1, <1>2, <1>3, <1>7, <2>1, <2>2, <2>3 DEF AdvInv, PubTypeOK, SendsTheMeasured
  <1>8. CASE ReadFound \/ ReadFailed
    <2>1. pub' \in Publication /\ pub'.attempt <= maxRetries
      BY <1>1, <1>8 DEF ReadFound, ReadFailed, Publication, Advertisement
    <2>2. ad' = ad /\ pub.pc = "read" /\ pub'.pc \in {"create", "update"} /\ pub'.content = pub.content
      BY <1>1, <1>8 DEF ReadFound, ReadFailed, Publication
    <2>3. pub'.current => ad.exists /\ pub'.reserved = ad.reserved
      BY <1>1, <1>8 DEF AdvInv, SendsTheMeasured, ReadFound, ReadFailed, Publication
    <2> QED BY <1>1, <1>2, <1>3, <2>1, <2>2, <2>3 DEF AdvInv, PubTypeOK, SendsTheMeasured
  <1>9. CASE BodyRewound
    <2>1. pub' \in Publication /\ pub'.attempt <= maxRetries
      BY <1>1, <1>9 DEF BodyRewound, Publication
    <2>2. /\ ad' = ad /\ pub.pc = "post" /\ pub'.pc = "post" /\ pub'.content = pub.content
          /\ pub'.current = pub.current /\ pub'.reserved = pub.reserved
      BY <1>1, <1>9 DEF BodyRewound, Publication
    <2> QED BY <1>1, <1>2, <1>3, <2>1, <2>2 DEF AdvInv, PubTypeOK, SendsTheMeasured
  <1> QED BY <1>0, <1>4, <1>5, <1>6, <1>7, <1>8, <1>9
      DEF PublishStep, HttpStep, KubeStep, PostAnswered, PostRefused, PostUnsent, PostFailed,
          Cancelled, CreateAccepted, UpdateAccepted, WriteRejected

\* A write leaves a well-typed object and a well-typed cache.
LEMMA WriteType ==
  ASSUME NEW obj \in Local, seen \in [exists : BOOLEAN, current : BOOLEAN], Write(obj)
  PROVE  adv' = obj /\ adv.exists /\ seen' \in [exists : BOOLEAN, current : BOOLEAN]
  BY DEF Write

\* Every step keeps the invariant.
LEMMA NextInv == ASSUME AdvInv, [Next]_vars PROVE AdvInv'
  <1> USE DEF pubVars, collectorVars, Queue
  <1>0. /\ TypeOK /\ PubTypeOK /\ CollectorTypeOK /\ ReadLists /\ HoldsTheMeasured /\ SendsTheMeasured
        /\ adv \in Local /\ rec \in Reconciliation
        /\ seen \in [exists : BOOLEAN, current : BOOLEAN]
        /\ wake \in [queued : BOOLEAN, scheduled : BOOLEAN]
    BY DEF AdvInv, TypeOK
  <1>1. ASSUME UNCHANGED <<pubVars, rec>> PROVE PubTypeOK' /\ SendsTheMeasured'
    BY <1>0, <1>1 DEF PubTypeOK, SendsTheMeasured, Sent
  <1>2. ASSUME UNCHANGED collectorVars PROVE CollectorTypeOK' /\ ReadLists'
    BY <1>0, <1>2 DEF CollectorTypeOK, ReadLists
  <1>3. ASSUME UNCHANGED <<adv, rec>> PROVE adv' \in Local /\ rec' \in Reconciliation /\ HoldsTheMeasured'
    BY <1>0, <1>3 DEF HoldsTheMeasured
  <1>4. CASE NodeOrPodChanges \/ InstructionChanges
    <2>1. CollectorTypeOK' /\ ReadLists'
      BY <1>0, <1>4 DEF NodeOrPodChanges, InstructionChanges, NodesChange, PodsChange,
             InstructionsChange, CollectorTypeOK, ReadLists
    <2> QED BY <1>0, <1>1, <1>3, <1>4, <2>1 DEF NodeOrPodChanges, InstructionChanges, AdvInv, TypeOK
  <1>5. CASE Deliver \/ TimerFires
    <2>1. /\ seen' \in [exists : BOOLEAN, current : BOOLEAN]
          /\ wake' \in [queued : BOOLEAN, scheduled : BOOLEAN]
      <3>1. adv.exists \in BOOLEAN
        BY <1>0 DEF Local
      <3>2. CASE Deliver
        BY <1>0, <3>1, <3>2 DEF Deliver
      <3>3. CASE TimerFires
        BY <1>0, <3>3 DEF TimerFires
      <3> QED BY <1>5, <3>2, <3>3
    <2> QED BY <1>0, <1>1, <1>2, <1>3, <1>5, <2>1 DEF Deliver, TimerFires, AdvInv, TypeOK
  <1>6. CASE OperatorDeletes
    <2>1. adv' \in Local /\ ~adv'.exists
      BY <1>6 DEF OperatorDeletes, Bootstrapped, Local
    <2>2. rec' \in Reconciliation /\ rec' = [rec EXCEPT !.current = FALSE]
      BY <1>0, <1>6 DEF OperatorDeletes, Reconciliation
    <2>3. rec'.pc = rec.pc /\ rec'.ok = rec.ok /\ rec'.content = rec.content
      BY <1>0, <2>2 DEF Reconciliation
    <2>4. HoldsTheMeasured' /\ SendsTheMeasured' /\ PubTypeOK'
      BY <1>0, <1>6, <2>1, <2>3 DEF OperatorDeletes, HoldsTheMeasured, SendsTheMeasured, PubTypeOK, Sent
    <2> QED BY <1>0, <1>2, <1>6, <2>1, <2>2, <2>4 DEF OperatorDeletes, AdvInv, TypeOK
  <1>7. CASE Restart
    <2>1. adv' \in Local /\ rec' = Idle /\ pub' = NotPublishing /\ ad' = ad /\ transport' = transport
      BY <1>0, <1>7 DEF Restart, Started, Bootstrapped, Local
    <2>2. CollectorTypeOK' /\ ReadLists'
      BY <1>0, <1>7 DEF Restart, NotReading, CollectorTypeOK, ReadLists
    <2>3. PubTypeOK' /\ SendsTheMeasured' /\ HoldsTheMeasured'
      BY <1>0, <2>1, NotPublishingType DEF PubTypeOK, SendsTheMeasured, HoldsTheMeasured, Idle, NotPublishing
    <2> QED BY <1>7, <2>1, <2>2, <2>3, IdleType DEF Restart, Started, AdvInv, TypeOK
  <1>8. CASE BrokerLocks /\ UNCHANGED advVars
    <2>1. pub' \in Publication /\ pub'.attempt <= maxRetries /\ ad' \in Advertisement
      BY <1>0, <1>8 DEF BrokerLocks, PubTypeOK, Publication, Advertisement
    <2>2. pub'.pc = pub.pc /\ pub'.content = pub.content /\ ~pub'.current /\ transport' = transport
      BY <1>0, <1>8 DEF BrokerLocks, PubTypeOK, Publication
    <2>3. PubTypeOK' /\ SendsTheMeasured'
      BY <1>0, <1>8, <2>1, <2>2 DEF PubTypeOK, SendsTheMeasured, Sent, advVars
    <2> QED BY <1>0, <1>2, <1>3, <1>8, <2>3 DEF advVars, AdvInv, TypeOK
  <1>9. CASE Publish
    BY <1>0, <1>2, <1>3, <1>9, PublishStepKeeps DEF Publish, advVars, AdvInv, TypeOK
  <1>10. CASE UNCHANGED vars
    BY <1>0, <1>1, <1>2, <1>3, <1>10 DEF vars, advVars, AdvInv, TypeOK
  <1>11. ASSUME UNCHANGED pubVars, rec.pc # "publishing" \/ pub.pc = "idle"
         PROVE  PubTypeOK' /\ SendsTheMeasured'
    <2>1. pub.pc = "idle" /\ pub' = pub /\ ad' = ad /\ transport' = transport
      BY <1>0, <1>11 DEF SendsTheMeasured
    <2> QED BY <1>0, <2>1 DEF PubTypeOK, SendsTheMeasured
  <1>12. CASE ReconcileNotFound \/ ReconcileFound
    <2>1. /\ wake' \in [queued : BOOLEAN, scheduled : BOOLEAN]
          /\ rec.pc = "idle" /\ adv' = adv /\ seen' = seen
      BY <1>0, <1>12 DEF ReconcileNotFound, ReconcileFound, Take
    <2>2. rec' \in Reconciliation /\ HoldsTheMeasured'
      <3>1. CASE ReconcileNotFound
        BY <1>0, <1>3, <3>1 DEF ReconcileNotFound
      <3>2. CASE ReconcileFound
        BY <1>0, <3>2 DEF ReconcileFound, Idle, Reconciliation, HoldsTheMeasured
      <3> QED BY <1>12, <3>1, <3>2
    <2> QED BY <1>0, <1>2, <1>11, <1>12, <2>1, <2>2 DEF ReconcileNotFound, ReconcileFound, AdvInv, TypeOK
  <1>13. CASE Collect
    <2>1. CollectorTypeOK' /\ ReadLists'
      BY <1>0, <1>13 DEF Collect, ListNodes, ListPods, CollectorTypeOK, ReadLists
    <2> QED BY <1>0, <1>1, <1>3, <1>13, <2>1 DEF Collect, AdvInv, TypeOK
  <1>14. CASE Collected \/ CollectFails
    <2>1. CollectorTypeOK' /\ ReadLists'
      BY <1>0, <1>14 DEF Collected, CollectFails, ListInstructions, ListFails, NotReading,
             CollectorTypeOK, ReadLists
    <2>2. rec' \in Reconciliation /\ HoldsTheMeasured'
      <3>1. CASE Collected
        <4>1. Measured \in Measurements
          BY <1>0, <3>1 DEF Collected, ListInstructions, CollectorTypeOK, ReadLists, Measured, Measurements
        <4>2. rec' = [rec EXCEPT !.pc = "update", !.content = Measured, !.ok = TRUE]
          BY <3>1 DEF Collected
        <4>3. rec' \in Reconciliation
          BY <1>0, <4>1, <4>2, MeasuredType DEF Reconciliation
        <4>4. rec'.pc = "update" /\ rec'.content = Measured
          BY <1>0, <4>2 DEF Reconciliation
        <4>5. rec'.ok
          BY <1>0, <4>2 DEF Reconciliation
        <4> QED BY <4>1, <4>3, <4>4, <4>5 DEF HoldsTheMeasured
      <3>2. CASE CollectFails
        <4>1. rec' = [rec EXCEPT !.pc = "status"]
          BY <3>2 DEF CollectFails
        <4>2. rec' \in Reconciliation /\ rec'.pc = "status" /\ rec'.ok = rec.ok /\ rec'.content = rec.content
          BY <1>0, <4>1 DEF Reconciliation
        <4> QED BY <1>0, <3>2, <4>2 DEF CollectFails, HoldsTheMeasured
      <3> QED BY <1>14, <3>1, <3>2
    <2> QED BY <1>0, <1>11, <1>14, <2>1, <2>2 DEF Collected, CollectFails, AdvInv, TypeOK
  <1>15. CASE SpecWritten
    <2> DEFINE obj == [adv EXCEPT !.content = rec.content]
    <2>1. rec.ok /\ rec.content \in Contents \cup {NoContent}
      BY <1>0, <1>15 DEF SpecWritten, HoldsTheMeasured, Reconciliation
    <2>2. obj \in Local /\ obj.content = rec.content
      BY <1>0, <2>1 DEF Local
    <2>3. adv' = obj /\ seen' \in [exists : BOOLEAN, current : BOOLEAN]
      BY <1>0, <1>15, <2>2, WriteType DEF SpecWritten
    <2>4. rec' \in Reconciliation /\ rec'.pc = "status" /\ rec'.ok = rec.ok /\ rec'.content = rec.content
      BY <1>0, <1>15 DEF SpecWritten, Reconciliation
    <2>5. HoldsTheMeasured'
      BY <1>0, <2>2, <2>3, <2>4 DEF HoldsTheMeasured
    <2> QED BY <1>0, <1>2, <1>11, <1>15, <2>2, <2>3, <2>4, <2>5 DEF SpecWritten, AdvInv, TypeOK
  <1>16. CASE SpecFailed
    <2> DEFINE obj == [adv EXCEPT !.content = rec.content]
    <2>1. obj \in Local
      BY <1>0 DEF Local, Reconciliation
    <2>2. adv' \in Local /\ seen' \in [exists : BOOLEAN, current : BOOLEAN]
      BY <1>0, <1>16, <2>1, WriteType DEF SpecFailed
    <2>3. HoldsTheMeasured'
      BY <1>16 DEF SpecFailed, Idle, HoldsTheMeasured
    <2> QED BY <1>0, <1>2, <1>11, <1>16, <2>2, <2>3, IdleType DEF SpecFailed, AdvInv, TypeOK
  <1>17. CASE StatusWritten \/ StatusFailed
    <2>0. rec.ok \in BOOLEAN /\ rec.pc = "status" /\ UNCHANGED <<pubVars, wake, collectorVars>>
      BY <1>0, <1>17 DEF StatusWritten, StatusFailed, Reconciliation
    <2>1. WithStatus \in Local /\ WithStatus.content = adv.content /\ WithStatus.exists = adv.exists
      BY <1>0, <2>0 DEF WithStatus, Local
    <2>2. /\ adv' \in {adv, WithStatus}
          /\ seen' \in [exists : BOOLEAN, current : BOOLEAN]
      BY <1>0, <1>17, <2>1, WriteType DEF StatusWritten, StatusFailed
    <2>3. /\ rec' \in Reconciliation /\ rec'.ok = rec.ok /\ rec'.content = rec.content
          /\ rec'.pc = IF rec.ok THEN "publish" ELSE "return"
      BY <1>0, <1>17 DEF StatusWritten, StatusFailed, Reconciliation
    <2>4. HoldsTheMeasured'
      BY <1>0, <2>0, <2>1, <2>2, <2>3 DEF HoldsTheMeasured
    <2> QED BY <1>0, <1>2, <1>11, <2>0, <2>1, <2>2, <2>3, <2>4 DEF AdvInv, TypeOK
  <1>18. CASE StartPublishing
    <2>1. rec.content \in Measurements /\ rec.pc = "publish" /\ rec.ok
      BY <1>0, <1>18 DEF StartPublishing, HoldsTheMeasured
    <2>2. Sent(rec.content) \in Contents
      BY <2>1, MeasuredType DEF Sent
    <2>3. /\ rec' \in Reconciliation /\ rec'.pc = "publishing"
          /\ rec'.ok = rec.ok /\ rec'.content = rec.content
      BY <1>0, <1>18 DEF StartPublishing, Reconciliation
    <2>4. HoldsTheMeasured'
      BY <1>0, <1>18, <2>1, <2>3 DEF StartPublishing, HoldsTheMeasured
    <2>5. UNCHANGED <<transport, ad>> /\ Sent(rec.content)' = Sent(rec.content)
      BY <1>18, <2>3 DEF StartPublishing, PublishAdvertisement, HttpPublish, KubePublish, Sent
    <2>6. PICK step \in {"get", "read"} :
            /\ pub' = [NotPublishing EXCEPT !.pc = step, !.content = Sent(rec.content)]
            /\ transport = IF step = "get" THEN "http" ELSE "kubernetes"
      BY <1>18 DEF StartPublishing, PublishAdvertisement, HttpPublish, KubePublish
    <2>7. /\ pub' \in Publication /\ pub'.attempt <= maxRetries
          /\ pub'.pc = step /\ pub'.content = Sent(rec.content)
      <3>1. pub' \in Publication
        BY <2>2, <2>6 DEF NotPublishing, Publication
      <3>2. pub'.attempt = 0 /\ pub'.pc = step /\ pub'.content = Sent(rec.content)
        BY <2>6 DEF NotPublishing
      <3> QED BY <3>1, <3>2, PublisherAssumption
    <2>8. ~pub'.current
      BY <2>6 DEF NotPublishing
    <2>9. PubTypeOK' /\ SendsTheMeasured'
      BY <1>0, <2>3, <2>5, <2>6, <2>7, <2>8 DEF PubTypeOK, SendsTheMeasured, Sent
    <2> QED BY <1>0, <1>2, <1>18, <2>3, <2>4, <2>9 DEF StartPublishing, AdvInv, TypeOK
  <1>19. CASE NothingToPublishTo \/ Published
    <2>1. /\ rec.pc \in {"publish", "publishing"}
          /\ rec.pc # "publishing" \/ pub.pc = "idle"
          /\ rec' = [rec EXCEPT !.pc = "return"] /\ UNCHANGED <<pubVars, adv, seen, wake, collectorVars>>
      BY <1>19 DEF NothingToPublishTo, Published
    <2>2. rec' \in Reconciliation /\ rec'.pc = "return" /\ rec'.ok = rec.ok /\ rec'.content = rec.content
      BY <1>0, <2>1 DEF Reconciliation
    <2>3. HoldsTheMeasured'
      BY <1>0, <2>1, <2>2 DEF HoldsTheMeasured
    <2> QED BY <1>0, <1>2, <1>11, <2>1, <2>2, <2>3 DEF AdvInv, TypeOK
  <1>20. CASE Return
    <2>1. wake' \in [queued : BOOLEAN, scheduled : BOOLEAN]
      BY <1>0, <1>20 DEF Return
    <2>2. HoldsTheMeasured'
      BY <1>20 DEF Return, Idle, HoldsTheMeasured
    <2> QED BY <1>0, <1>2, <1>11, <1>20, <2>1, <2>2, IdleType DEF Return, AdvInv, TypeOK
  <1> QED BY <1>4, <1>5, <1>6, <1>7, <1>8, <1>9, <1>10, <1>12, <1>13, <1>14, <1>15, <1>16, <1>17,
             <1>18, <1>19, <1>20 DEF Next, Reconcile

-----------------------------------------------------------------------------

\* The invariant holds in every state of every instance.
THEOREM AdvInvariant == Spec => []AdvInv
  <1> QED BY InitInv, NextInv, PTL DEF Spec

\* The advertisement loop's state is well typed at every moment: among other
\* things no request is tried more often than maxRetries allows, and what is
\* stored or sent is always a measurement of lists the cluster has had.
THEOREM AdvTypeCorrect == Spec => []TypeOK
  <1>1. AdvInv => TypeOK
    BY DEF AdvInv
  <1> QED BY <1>1, AdvInvariant, PTL

\* Whatever the nodes, pods and instructions become while the agent runs, what
\* CollectClusterResources computes as available is what they leave.
THEOREM AvailableAlwaysWhatIsLeft == Spec => []AvailableIsWhatIsLeft
  <1>1. TypeOK => AvailableIsWhatIsLeft
    BY TotalsAreRight DEF TypeOK
  <1> QED BY <1>1, AdvTypeCorrect, PTL

\* Nor does any pod or instruction ever cost another its share of the totals.
THEOREM EachAlwaysCountsForItself == Spec => []EachCountsForItself
  <1>1. TypeOK => EachCountsForItself
    BY TotalsAreRight DEF TypeOK
  <1> QED BY <1>1, AdvTypeCorrect, PTL

\* The nodes and the pods a collection read earlier, and the instructions it reads
\* now, are what its result accounts for, however much the cluster has changed
\* between the three readings.
MeasuresWhatItRead ==
    [][Collected => \A r \in Resource :
         rec'.content.available[r]
           = WhatIsLeft(reading.nodes, reading.pods, cluster.instructions, r)]_vars

\* A reconciliation advertises what is left of the lists it has read: nothing of
\* an earlier collection is left in it, and none of it is counted twice.
THEOREM AdvertisesWhatItRead == Spec => MeasuresWhatItRead
  <1>1. ASSUME AdvInv, Collected
        PROVE  \A r \in Resource :
                 rec'.content.available[r]
                   = WhatIsLeft(reading.nodes, reading.pods, cluster.instructions, r)
    <2>1. reading.next = "instructions" /\ rec'.content = Measured
      BY <1>1 DEF Collected, ListInstructions, AdvInv, TypeOK, Reconciliation
    <2>2. /\ reading.nodes \in NodeLists /\ reading.pods \in PodLists
          /\ cluster.instructions \in InstructionLists
      BY <1>1, <2>1 DEF AdvInv, ReadLists, TypeOK, CollectorTypeOK
    <2>3. IsListOf(IsNode, reading.nodes)
      BY <2>2, ListsAssumption
    <2>4. IsListOf(IsPod, reading.pods)
      BY <2>2, ListsAssumption
    <2>5. cluster.instructions \in Seq(Instruction)
      BY <2>2, ListsAssumption
    <2> QED BY <2>1, <2>3, <2>4, <2>5, CollectedIsWhatIsLeft DEF Measured
  <1>2. AdvInv /\ [Next]_vars
          => [Collected => \A r \in Resource :
                rec'.content.available[r]
                  = WhatIsLeft(reading.nodes, reading.pods, cluster.instructions, r)]_vars
    BY <1>1
  <1> QED BY <1>2, AdvInvariant, PTL DEF Spec, MeasuresWhatItRead

\* What is sent to the broker is what the Advertisement object says.
THEOREM SendsTheStored == Spec => []PublishesTheStored
  <1>1. AdvInv => PublishesTheStored
    BY DEF AdvInv, HoldsTheMeasured, SendsTheMeasured, PublishesTheStored
  <1> QED BY <1>1, AdvInvariant, PTL

\* A step that changes the Reserved field of the broker's advertisement is the
\* broker's own, over the legacy transport always, over HTTP if the value sent
\* was read and the broker's copy has not changed since.
LEMMA ReservedStep ==
  ASSUME AdvInv, [Next]_vars, transport = "kubernetes" \/ pub.current, ReservedChanged
  PROVE  BrokerLocks
  <1>1. CASE Publish
    <2>1. ad \in Advertisement /\ pub \in Publication
      BY DEF AdvInv, TypeOK, PubTypeOK
    <2>2. CASE Store
      <3>1. ad'.reserved = pub.reserved
        BY <2>2 DEF Store
      <3>2. pub.current => FALSE
        BY <3>1 DEF AdvInv, SendsTheMeasured, ReservedChanged
      <3>3. transport # "http"
        BY <3>2 DEF AdvInv
      <3> QED BY <1>1, <2>2, <3>2, <3>3
          DEF Publish, PublishStep, HttpStep, KubeStep, GetAnswered, GetUseless, GetRetried,
              PostAnswered, PostRefused, PostUnsent, PostFailed, BodyRewound, Cancelled, ReadFound, ReadFailed,
              CreateAccepted, UpdateAccepted, WriteRejected, ReservedChanged, AdvInv, SendsTheMeasured
    <2>3. CASE ad' = ad
      BY <2>3 DEF ReservedChanged
    <2> QED BY <1>1, <2>2, <2>3
        DEF Publish, PublishStep, HttpStep, KubeStep, GetAnswered, GetUseless, GetRetried,
            PostAnswered, PostRefused, PostUnsent, PostFailed, BodyRewound, Cancelled, ReadFound, ReadFailed,
            CreateAccepted, UpdateAccepted, WriteRejected
  <1>2. CASE ad' = ad
    BY <1>2 DEF ReservedChanged
  <1>3. BrokerLocks \/ Publish \/ ad' = ad
    BY DEF Next, vars, pubVars, NodeOrPodChanges, InstructionChanges, OperatorDeletes, Restart,
           Deliver, TimerFires, Reconcile, ReconcileNotFound, ReconcileFound, Collect, Collected,
           CollectFails, SpecWritten, SpecFailed, StatusWritten, StatusFailed, StartPublishing,
           PublishAdvertisement, HttpPublish, KubePublish, NothingToPublishTo, Published, Return
  <1> QED BY <1>1, <1>2, <1>3

\* Over the legacy transport the agent never changes the Reserved field.
THEOREM LegacyReservedIsSafe == Spec => LegacyKeepsReserved
  <1>1. AdvInv /\ [Next]_vars => [transport = "kubernetes" /\ ReservedChanged => BrokerLocks]_vars
    BY ReservedStep
  <1> QED BY <1>1, AdvInvariant, PTL DEF Spec, LegacyKeepsReserved

\* Over HTTP it changes the field only where it was not read or has changed since.
THEOREM HttpReservedAsRead == Spec => HttpKeepsReservedItRead
  <1>1. AdvInv /\ [Next]_vars
          => [transport = "http" /\ pub.current /\ ReservedChanged => BrokerLocks]_vars
    BY ReservedStep
  <1> QED BY <1>1, AdvInvariant, PTL DEF Spec, HttpKeepsReservedItRead

=============================================================================
