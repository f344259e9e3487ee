---------------------------- MODULE MCAdvertisement ----------------------------
EXTENDS AdvertisementReconciler

Node == [ready |-> "True", capacity |-> [cpu |-> 4, memory |-> 8, gpu |-> 1],
         allocatable |-> [cpu |-> 4, memory |-> 8, gpu |-> 1]]

Pod(phase) == [phase |-> phase, containers |-> <<[cpu |-> 2, memory |-> 1]>>,
               initContainers |-> <<>>, overhead |-> [cpu |-> 1]]

Hold == [enforced |-> TRUE, expired |-> FALSE, cpu |-> 1, memory |-> 1]

OneNode == {<<Node>>}
NoNodeOrOne == {<<>>, <<Node>>}
APod == {<<Pod("Running")>>}
APodThatEnds == {<<Pod(phase)>> : phase \in {"Running", "Succeeded"}}
NoInstruction == {<<>>}
OneOrNone == {<<>>, <<Hold>>}

MCContents ==
    UNION {LET m == CollectClusterResources(n, p, i) IN {m, WithoutGPU(m)} :
             n \in NodeLists, p \in PodLists, i \in InstructionLists}

Files == {"none", "unusable", "usable"}

AllFlags == [transport : {"", "http", "kubernetes", "mqtt"}, kubeconfig : Files,
             url : BOOLEAN, cert : Files]

=============================================================================
