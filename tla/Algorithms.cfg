SPECIFICATION Spec
CONSTANTS
    NodeLists <- MCNodeLists
    PodLists <- MCPodLists
    InstructionLists <- MCInstructionLists
    Nil = Nil
    NoText = NoText
    Unparsable = Unparsable
    SecondsPerMinute = 2
    MinutesPerHour = 60
    Intervals = {0, 1, 2, 3, 4, 10, 30, 60, 90, 120, 180}
INVARIANTS AvailableIsWhatIsLeft EachCountsForItself AgentsAgree
