------------------------------ MODULE MCAlgorithms ------------------------------
EXTENDS Collector, ClockSync

Nothing == [r \in {} |-> 0]

Node(ready, capacity, allocatable) ==
    [ready |-> ready, capacity |-> capacity, allocatable |-> allocatable]

Plain == Node("True", [cpu |-> 4, memory |-> 8], [cpu |-> 3, memory |-> 7])
Accelerated == Node("True", [cpu |-> 4, memory |-> 8, gpu |-> 2], [cpu |-> 4, memory |-> 8, gpu |-> 2])
Lost == Node("Unknown", [cpu |-> 4, memory |-> 8, gpu |-> 2], [cpu |-> 4, memory |-> 8, gpu |-> 2])

MCNodeLists == {<<>>, <<Plain, Lost>>, <<Plain, Accelerated>>}

Pod(phase, containers, initContainers, overhead) ==
    [phase |-> phase, containers |-> containers, initContainers |-> initContainers,
     overhead |-> overhead]

\* Two containers; init containers that need more, or GPUs; GPUs as overhead;
\* a pod that is over.
MCPods == {
    Pod("Running", <<[cpu |-> 1, memory |-> 2], [cpu |-> 1]>>, <<[cpu |-> 1]>>, Nothing),
    Pod("Pending", <<[cpu |-> 1]>>, <<[cpu |-> 2, gpu |-> 1], [cpu |-> 3, memory |-> 1]>>, [cpu |-> 1]),
    Pod("Running", <<[gpu |-> 1]>>, <<>>, Nothing),
    Pod("Running", <<Nothing>>, <<>>, [memory |-> 1, gpu |-> 1]),
    Pod("Succeeded", <<[cpu |-> 2, gpu |-> 1]>>, <<>>, Nothing)}

MCPodLists == BoundedSeq(MCPods, 2)

Holds(enforced, expired, cpu, memory) ==
    [enforced |-> enforced, expired |-> expired, cpu |-> cpu, memory |-> memory]

Good == Holds(TRUE, FALSE, 1, 2)
NoCPU == Holds(TRUE, FALSE, NoText, 1)
BadCPU == Holds(TRUE, FALSE, Unparsable, 1)
BadMemory == Holds(TRUE, FALSE, 2, Unparsable)
Over == Holds(TRUE, TRUE, 1, 1)
Noted == Holds(FALSE, FALSE, 1, 1)

MCInstructionLists == {<<>>, <<Good, NoCPU>>, <<BadCPU, Good>>, <<BadMemory, Good>>,
                       <<Over, Noted, Good>>}

\* What the calculations start from changes in any order.
Inputs == <<collectorVars, clock>>

Init == CollectorInit /\ clock = 0

Next ==
    \/ (NodesChange \/ PodsChange \/ InstructionsChange) /\ UNCHANGED <<reading, clock>>
    \/ ClockTick /\ UNCHANGED collectorVars

Spec == Init /\ [][Next]_Inputs

=============================================================================
