CONSTANTS
    Ingests = {a, b}
    Readers = {r}
    Scores <- MCScores
    Stamps <- MCStamps
    StrategyCount = 2
    Asked <- MCAsked
    DefaultLimit = 1
    MaxLimit = 2
    PoolSize = 2
    MaxFaults = 1
SPECIFICATION FairSpec
CHECK_DEADLOCK FALSE
INVARIANTS
    StrategiesAllOrNone
    AnsweredAreWhole
    PagesMissOnlyTies
    RepeatsNeedNewcomers
    IngestTrail
    IndInv
PROPERTIES
    RequestsEnd
    RequestsAreBounded
