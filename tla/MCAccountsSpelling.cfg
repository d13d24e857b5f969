CONSTANTS
    Emails <- MCEmails
    Normal <- MCNormal
    Passwords = {p, q}
    Callers = {c, d}
SPECIFICATION Spec
INVARIANTS
    CreatedAdminsCanLogIn
