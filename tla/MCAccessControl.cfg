CONSTANTS
    Emails = {ann, bob}
    Normal <- MCNormal
    Passwords = {p}
    Callers = {c, d}
    LogCanFail = TRUE
SYMMETRY MCSymmetry
SPECIFICATION AccessSpec
INVARIANTS
    HandlersServeHolders
    NothingWithoutOperator
    OnlyRoleChangesDemote
    AccessInv
PROPERTIES
    AuthoritySpec
