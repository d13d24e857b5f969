CONSTANTS
    Users = {u, v}
    Slots = {s, t}
    AccessTTL = 1
    RefreshTTL = 1
    MaxLatency = 1
SYMMETRY MCSymmetry
SPECIFICATION Spec
INVARIANTS
    TypeOK
    StaleRolesExpire
    OnlyRecentAdminsChangeRoles
    IndInv
