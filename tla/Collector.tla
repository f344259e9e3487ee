------------------------------- MODULE Collector -------------------------------
(***************************************************************************)
(* The metrics collector: what a cluster's nodes, pods and provider        *)
(* instructions add up to, and the three lists it reads one after the      *)
(* other, so that each may be of a different moment.                       *)
(*                                                                         *)
(* Quantities are integers in their base unit. A Kubernetes ResourceList is*)
(* a function on the resources it names.                                   *)
(***************************************************************************)
EXTENDS Integers, SequencesExt

CONSTANTS
    NodeLists,         \* what the node list may be
    PodLists,          \* what the pod list may be
    InstructionLists,  \* what the list of ProviderInstructions may be
    Nil,               \* a nil *resource.Quantity
    NoText,            \* an empty string where a quantity is expected
    Unparsable         \* a string that is no quantity

VARIABLES
    cluster,   \* the lists as the informer caches hold them
    reading    \* the collection under way: the lists it has read

collectorVars == <<cluster, reading>>

Resource == {"cpu", "memory", "gpu"}

Named(list, r) == r \in DOMAIN list
Of(list, r) == IF Named(list, r) THEN list[r] ELSE 0

\* What a loop over a list adds up, one amount for each entry.
SumOf(amounts) == FoldLeft(LAMBDA total, a : total + a, 0, amounts)

\* The largest amount that a loop over a list meets, if it is above zero.
LargestOf(amounts) == FoldLeft(LAMBDA largest, a : IF a > largest THEN a ELSE largest, 0, amounts)

\* ResourceQuantities: the GPU pointer is set only if a GPU was met.
Quantities(amount(_), hasGPU) ==
    [r \in Resource |-> IF r = "gpu" /\ ~hasGPU THEN Nil ELSE amount(r)]

OrZero(q) == IF q = Nil THEN 0 ELSE q

\* What the API server lets in: requests and capacities are not negative. The
\* quantities of an instruction are strings, which nothing checks.
IsResourceList(list) == \A r \in DOMAIN list : list[r] \in Nat

IsListOf(Is(_), s) == s \in Seq(Range(s)) /\ \A i \in DOMAIN s : Is(s[i])

IsNode(node) == IsResourceList(node.capacity) /\ IsResourceList(node.allocatable)

IsPod(pod) ==
    /\ IsListOf(IsResourceList, pod.containers)
    /\ IsListOf(IsResourceList, pod.initContainers)
    /\ IsResourceList(pod.overhead)

Text == Int \cup {NoText, Unparsable}

Instruction == [enforced : BOOLEAN, expired : BOOLEAN, cpu : Text, memory : Text]

ASSUME ListsAssumption ==
    /\ \A l \in NodeLists : IsListOf(IsNode, l)
    /\ \A l \in PodLists : IsListOf(IsPod, l)
    /\ InstructionLists \subseteq Seq(Instruction)

ASSUME NilAssumption == Nil \notin Int

-----------------------------------------------------------------------------
(* CollectClusterResources, given the three lists.                         *)

\* The Ready condition may also be missing, or Unknown.
isNodeReady(node) == node.ready = "True"

\* Only Capacity decides whether the cluster has GPUs.
HasGPU(nodes) == \E i \in DOMAIN nodes : isNodeReady(nodes[i]) /\ Named(nodes[i].capacity, "gpu")

\* The loop over the nodes passes over those that are not ready.
IfReady(node, list, r) == IF isNodeReady(node) THEN Of(list, r) ELSE 0

Capacity(nodes) ==
    Quantities(LAMBDA r : SumOf([i \in DOMAIN nodes |-> IfReady(nodes[i], nodes[i].capacity, r)]),
               HasGPU(nodes))

Allocatable(nodes) ==
    Quantities(LAMBDA r : SumOf([i \in DOMAIN nodes |-> IfReady(nodes[i], nodes[i].allocatable, r)]),
               HasGPU(nodes))

IsCounted(pod) == pod.phase \in {"Running", "Pending"}

Asks(containers, r) == [i \in DOMAIN containers |-> Of(containers[i], r)]

ContainerSum(pod, r) == SumOf(Asks(pod.containers, r))

\* Mutant: init containers are taken to run all at once.
InitSum(pod, r) == SumOf(Asks(pod.initContainers, r))

\* initCPUMax and its like, which start at zero for each pod.
InitMax(pod, r) == LargestOf(Asks(pod.initContainers, r))

Contribution(pod, r) ==
    IF InitMax(pod, r) > ContainerSum(pod, r) THEN InitMax(pod, r) ELSE ContainerSum(pod, r)

ContainersNameGPU(pod) ==
    \E s \in {pod.containers, pod.initContainers} : \E i \in DOMAIN s : Named(s[i], "gpu")

\* One turn of the loop over the pods. hasGPU outlives the turn, and the GPUs
\* of a pod's containers are added only where it is set.
AddPod(so, pod) ==
    LET hasGPU == so.hasGPU \/ ContainersNameGPU(pod)
    IN IF ~IsCounted(pod) THEN so ELSE
       [hasGPU |-> hasGPU \/ Named(pod.overhead, "gpu"),
        sum |-> [r \in Resource |->
                   so.sum[r] + (IF r = "gpu" /\ ~hasGPU THEN 0 ELSE Contribution(pod, r))
                             + Of(pod.overhead, r)]]

calculateAllocatedResources(pods) ==
    LET total == FoldLeft(AddPod, [hasGPU |-> FALSE, sum |-> [r \in Resource |-> 0]], pods)
    IN Quantities(LAMBDA r : total.sum[r], total.hasGPU)

InForce(i) == i.enforced /\ ~i.expired

\* ParseQuantity of a string that is a quantity; an empty one is skipped.
Parsed(text) == IF text = NoText THEN 0 ELSE text

\* Mutant: an instruction that cannot be read ends the loop.
AddInstructionOrStop(so, i) ==
    IF so.gpu = 1 \/ ~InForce(i) THEN so
    ELSE IF i.cpu = Unparsable THEN [so EXCEPT !.gpu = 1]
    ELSE [so EXCEPT !.cpu = @ + Parsed(i.cpu),
                    !.memory = @ + (IF i.memory = Unparsable THEN 0 ELSE Parsed(i.memory))]

\* One turn of the loop over the instructions. A CPU that cannot be read skips
\* the instruction; by the time the memory is read, the CPU has been added.
AddInstruction(so, i) ==
    IF ~InForce(i) \/ i.cpu = Unparsable THEN so
    ELSE [so EXCEPT !.cpu = @ + Parsed(i.cpu),
                    !.memory = @ + (IF i.memory = Unparsable THEN 0 ELSE Parsed(i.memory))]

\* Instructions ask for no GPUs.
calculateReservedResources(instructions) ==
    LET total == FoldLeft(AddInstruction, [r \in Resource |-> 0], instructions)
    IN Quantities(LAMBDA r : total[r], FALSE)

Available(allocatable, allocated, reserved) ==
    [r \in Resource |-> IF allocatable[r] = Nil THEN Nil
                        ELSE allocatable[r] - OrZero(allocated[r]) - OrZero(reserved[r])]

CollectClusterResources(nodes, pods, instructions) ==
    LET allocated == calculateAllocatedResources(pods)
    IN [capacity    |-> Capacity(nodes),
        allocatable |-> Allocatable(nodes),
        allocated   |-> allocated,
        available   |-> Available(Allocatable(nodes), allocated,
                                  calculateReservedResources(instructions))]

-----------------------------------------------------------------------------
(* The collection, one list at a time.                                     *)

NotReading == [next |-> "nodes", nodes |-> <<>>, pods |-> <<>>]

CollectorTypeOK ==
    /\ cluster \in [nodes : NodeLists, pods : PodLists, instructions : InstructionLists]
    /\ reading \in [next : {"nodes", "pods", "instructions"},
                    nodes : NodeLists \cup {<<>>}, pods : PodLists \cup {<<>>}]

CollectorInit ==
    /\ cluster \in [nodes : NodeLists, pods : PodLists, instructions : InstructionLists]
    /\ reading = NotReading

ListNodes ==
    /\ reading.next = "nodes" /\ cluster.nodes # <<>>
    /\ reading' = [reading EXCEPT !.next = "pods", !.nodes = cluster.nodes]
    /\ UNCHANGED cluster

ListPods ==
    /\ reading.next = "pods"
    /\ reading' = [reading EXCEPT !.next = "instructions", !.pods = cluster.pods]
    /\ UNCHANGED cluster

\* What the collection returns if it reads the last list now.
Measured == CollectClusterResources(reading.nodes, reading.pods, cluster.instructions)

ListInstructions ==
    /\ reading.next = "instructions"
    /\ reading' = NotReading
    /\ UNCHANGED cluster

\* A list cannot be read, or there is no node.
ListFails ==
    /\ reading' = NotReading
    /\ UNCHANGED cluster

NodesChange == \E l \in NodeLists \ {cluster.nodes} : cluster' = [cluster EXCEPT !.nodes = l]

PodsChange == \E l \in PodLists \ {cluster.pods} : cluster' = [cluster EXCEPT !.pods = l]

\* A controller enforces or marks an instruction, the poller or the watcher
\* writes one, or the clock passes its expiry.
InstructionsChange ==
    \E l \in InstructionLists \ {cluster.instructions} : cluster' = [cluster EXCEPT !.instructions = l]

-----------------------------------------------------------------------------
(* What the sums are meant to be.                                          *)

\* What Kubernetes sets aside for a pod: its containers run together, after its
\* init containers have run one by one, in a sandbox that costs its overhead.
EffectiveRequest(pod, r) ==
    Max({SumFunction(Asks(pod.containers, r))} \cup Range(Asks(pod.initContainers, r))) + Of(pod.overhead, r)

\* What an instruction in force holds, as far as it can be read in order.
Held(i, r) ==
    IF ~InForce(i) \/ i.cpu = Unparsable THEN 0
    ELSE CASE r = "cpu"                            -> Parsed(i.cpu)
           [] r = "memory" /\ i.memory # Unparsable -> Parsed(i.memory)
           [] OTHER                                -> 0

\* What the ready nodes offer of a resource, less the effective request of every
\* pod that runs or waits and what every instruction in force holds, in no order.
WhatIsLeft(nodes, pods, instructions, r) ==
    LET Ready == {i \in DOMAIN nodes : isNodeReady(nodes[i])}
        Counted == {i \in DOMAIN pods : IsCounted(pods[i])}
    IN IF r = "gpu" /\ ~HasGPU(nodes) THEN Nil
       ELSE SumFunction([i \in Ready |-> Of(nodes[i].allocatable, r)])
            - SumFunction([i \in Counted |-> EffectiveRequest(pods[i], r)])
            - SumFunction([i \in DOMAIN instructions |-> Held(instructions[i], r)])

\* "Available = Allocatable - Allocated - Reserved" (collector.go:93): whatever
\* the order of the lists, which come from a cache in none, and wherever in them
\* a GPU is named first, the three loops arrive at what is left. The comment of
\* the field itself (advertisement_types.go:55, "Allocatable minus Allocated")
\* leaves Reserved out: it contradicts this property, and the code, wherever an
\* instruction in force holds something.
AvailableIsWhatIsLeft ==
    LET m == CollectClusterResources(cluster.nodes, cluster.pods, cluster.instructions)
    IN \A r \in Resource :
         m.available[r] = WhatIsLeft(cluster.nodes, cluster.pods, cluster.instructions, r)

\* An entry that cannot be read, is not counted or names no GPU costs no other
\* entry its share: taking one instruction out of the list, or one pod, lowers
\* the total by what that one adds up to alone.
EachCountsForItself ==
    \A r \in Resource :
      /\ \A i \in DOMAIN cluster.instructions :
           LET Reserved(s) == OrZero(calculateReservedResources(s)[r])
           IN Reserved(cluster.instructions)
                = Reserved(RemoveAt(cluster.instructions, i)) + Reserved(<<cluster.instructions[i]>>)
      /\ \A i \in DOMAIN cluster.pods :
           LET Allocated(s) == OrZero(calculateAllocatedResources(s)[r])
           IN Allocated(cluster.pods)
                = Allocated(RemoveAt(cluster.pods, i)) + Allocated(<<cluster.pods[i]>>)

=============================================================================
