CONSTANTS
    Jobs = {a}
    Keys = {k, l}
    NoJob = NoJob
    MaxItems = 3
    MaxFaults = 3
    MaxCrashes = 1
SPECIFICATION Spec
CHECK_DEADLOCK FALSE
INVARIANTS
    ProcessedAreLive
    MissingCountsAreFaults
    CompletedMeansDelivered
    StuckJobLeavesTrace
PROPERTIES
    LedgerSpec
    StatementsAreBounded
