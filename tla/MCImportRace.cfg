CONSTANTS
    Jobs = {a, b}
    Keys = {k}
    NoJob = NoJob
    MaxItems = 2
    MaxFaults = 2
    MaxCrashes = 1
SYMMETRY MCSymmetry
SPECIFICATION Spec
CHECK_DEADLOCK FALSE
INVARIANTS
    IndInv
    AuditAgreesWithJob
    VerdictIsAboutPayload
    ProcessedKeyIsLive
    FaultFreeReport
    
