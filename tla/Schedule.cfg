SPECIFICATION ScheduleSpec
CONSTANTS
    NodeLists <- NoNodeOrOne
    PodLists <- APod
    InstructionLists <- AnInstruction
    Nil = Nil
    NoText = NoText
    Unparsable = Unparsable
    Contents <- MCContents
    NoContent = NoContent
    Amounts = {}
    NoReserved = NoReserved
    maxRetries = 0
    Flags <- KubeconfigOnly
    SecondsPerMinute = 2
    MinutesPerHour = 1
    interval = 2
    Intervals = {2}
INVARIANTS ScheduleTypeOK StopsOnlyAtABoundary
PROPERTIES TruthIsPublished
