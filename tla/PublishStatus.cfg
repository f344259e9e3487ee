SPECIFICATION Spec
CONSTANTS
    NodeLists <- OneNode
    PodLists <- APodThatEnds
    InstructionLists <- NoInstruction
    Nil = Nil
    NoText = NoText
    Unparsable = Unparsable
    Contents <- MCContents
    Flags <- AllFlags
    NoContent = NoContent
    Amounts = {0, 1}
    NoReserved = NoReserved
    maxRetries = 3
INVARIANTS PublishedMeansPublished
