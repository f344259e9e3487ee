SPECIFICATION FairSpec
CONSTANTS
    NodeLists <- NoNodeOrOne
    PodLists <- APod
    InstructionLists <- OneOrNone
    Nil = Nil
    NoText = NoText
    Unparsable = Unparsable
    Contents <- MCContents
    Flags <- AllFlags
    NoContent = NoContent
    Amounts = {0, 1}
    NoReserved = NoReserved
    maxRetries = 3
INVARIANTS TypeOK PublishesTheStored
PROPERTIES LegacyKeepsReserved HttpKeepsReservedItRead PublicationEnds
