------------------------------- MODULE MCSchedule -------------------------------
EXTENDS AdvertisementSchedule

Node == [ready |-> "True", capacity |-> [cpu |-> 4, memory |-> 8, gpu |-> 1],
         allocatable |-> [cpu |-> 4, memory |-> 8, gpu |-> 1]]

Pod == [phase |-> "Running", containers |-> <<[cpu |-> 2, memory |-> 1]>>,
        initContainers |-> <<>>, overhead |-> [cpu |-> 1]]

Hold(enforced) == [enforced |-> enforced, expired |-> FALSE, cpu |-> 1, memory |-> 1]

NoNodeOrOne == {<<>>, <<Node>>}
APod == {<<Pod>>}
AnInstruction == {<<Hold(enforced)>> : enforced \in BOOLEAN}

MCContents ==
    UNION {LET m == CollectClusterResources(n, p, i) IN {m, WithoutGPU(m)} :
             n \in NodeLists, p \in PodLists, i \in InstructionLists}

KubeconfigOnly == {[transport |-> "", kubeconfig |-> "usable", url |-> FALSE, cert |-> "none"]}

=============================================================================
