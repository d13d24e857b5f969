CONSTANTS
    Jobs = {a}
    Keys = {k}
    NoJob = NoJob
    MaxItems = 3
    MaxFaults = 2
    MaxCrashes = 1
SPECIFICATION FairSpec
CHECK_DEADLOCK FALSE
PROPERTIES
    GoroutinesEnd
    JobsSettle
