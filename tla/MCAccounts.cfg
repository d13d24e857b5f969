CONSTANTS
    Emails <- MCEmails
    Normal <- MCNormal
    Passwords = {p, q}
    Callers = {c, d}
SYMMETRY MCSymmetry
SPECIFICATION Spec
INVARIANTS
    TypeOK
    RegisteredCanLogIn
    CreatedAdminsStayAdmins
