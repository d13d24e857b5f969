CONSTANTS
    Emails = {ann, bob}
    Normal <- MCNormal
    Passwords = {p}
    Callers = {c, d}
    LogCanFail = FALSE
SYMMETRY MCSymmetry
SPECIFICATION AccessSpec
INVARIANTS
    RoleChangesAreLogged
