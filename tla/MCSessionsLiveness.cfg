CONSTANTS
    Users = {u}
    Slots = {s, t}
    AccessTTL = 2
    RefreshTTL = 3
    MaxLatency = 1
SPECIFICATION FairSpec
PROPERTIES
    RolesConverge
