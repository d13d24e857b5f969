------------------------------ MODULE Accounts ------------------------------
(***************************************************************************)
(* How accounts come to be: POST /api/auth/register and the operator's     *)
(* cmd/createadmin, which look an address up and insert it in two          *)
(* statements with a bcrypt hash between them, while others do the same.   *)
(* The one thing they share is the users table, whose email is UNIQUE.     *)
(* No code deletes an account; an admin's changes of roles are in Sessions.*)
(***************************************************************************)
EXTENDS Naturals

CONSTANTS
    Emails,       \* addresses as they are typed
    Normal(_),    \* strings.TrimSpace(strings.ToLower(email))
    Passwords,
    Callers       \* requests and runs of createadmin that overlap

ASSUME AccountsAssumption ==
    \A e \in Emails : Normal(e) \in Emails /\ Normal(Normal(e)) = Normal(e)

VARIABLES
    users,     \* the users table: the row of an address, or NoRow
    call,      \* where each caller is, with what it read and was given
    answered   \* what callers were told had succeeded

vars == <<users, call, answered>>

Roles == {"admin", "analyst", "viewer"}
NoRow == [role |-> "none"]
Row(role, password) == [role |-> role, password |-> password]
Exists(e) == users[e] # NoRow

Idle == [at |-> "idle"]
Under(at, email, password) == [at |-> at, email |-> email, password |-> password]
Told(what, email, password, asked) ==
    [what |-> what, email |-> email, password |-> password, asked |-> asked]

Init ==
    /\ users = [e \in Emails |-> NoRow]
    /\ call = [c \in Callers |-> Idle]
    /\ answered = {}

Goto(c, state) == call' = [call EXCEPT ![c] = state]

\* Mutant: the address is inserted or overwritten.
Upsert(e, row) == users' = [users EXCEPT ![e] = row]

\* INSERT INTO users: the UNIQUE constraint refuses an address that is there.
Insert(e, row) == ~Exists(e) /\ users' = [users EXCEPT ![e] = row]

-----------------------------------------------------------------------------
(* Register *)

Stored(e) == Normal(e)

\* FindByEmail; a caller whose address is taken is told so and is idle again.
Register(c) ==
    /\ call[c] = Idle
    /\ \E e \in Emails, p \in Passwords :
          /\ ~Exists(Stored(e))
          /\ Goto(c, Under("register", e, p))
    /\ UNCHANGED <<users, answered>>

\* Mutant: the role that was asked for is stored.
CreateUserAsAsked(c) ==
    /\ call[c].at = "register"
    /\ \E asked \in Roles :
          /\ Insert(Stored(call[c].email), Row(asked, call[c].password))
          /\ \/ answered' = answered \cup
                {Told("registered", call[c].email, call[c].password, asked)}
             \/ UNCHANGED answered
    /\ Goto(c, Idle)

\* Create, after the hash.  Whatever role was asked for, the row is a viewer's.
CreateUser(c) ==
    /\ call[c].at = "register"
    /\ Insert(Stored(call[c].email), Row("viewer", call[c].password))
    /\ \/ \E asked \in Roles : answered' = answered \cup
             {Told("registered", call[c].email, call[c].password, asked)}
       \/ UNCHANGED answered     \* committed, and the answer lost
    /\ Goto(c, Idle)

-----------------------------------------------------------------------------
(* cmd/createadmin: ADMIN_EMAIL is used as it is typed, and ADMIN_PASSWORD   *)
(* only for an account that is new.                                          *)

FindAdmin(c) ==
    /\ call[c] = Idle
    /\ \E e \in Emails, p \in Passwords :
          Goto(c, Under(IF Exists(e) THEN "promote" ELSE "createAdmin", e, p))
    /\ UNCHANGED <<users, answered>>

Promote(c) ==
    /\ call[c].at = "promote"
    /\ users' = [users EXCEPT ![call[c].email] =
                    Row("admin", users[call[c].email].password)]
    /\ \/ answered' = answered \cup
             {Told("promoted", call[c].email, call[c].password, "admin")}
       \/ UNCHANGED answered
    /\ Goto(c, Idle)

CreateAdmin(c) ==
    /\ call[c].at = "createAdmin"
    /\ Insert(call[c].email, Row("admin", call[c].password))
    /\ \/ answered' = answered \cup
             {Told("created", call[c].email, call[c].password, "admin")}
       \/ UNCHANGED answered
    /\ Goto(c, Idle)

\* A statement fails or the INSERT is refused: an error, and nothing written.
Refused(c) ==
    /\ call[c] # Idle
    /\ Goto(c, Idle)
    /\ UNCHANGED <<users, answered>>

Next == \E c \in Callers :
    \/ Register(c) \/ CreateUser(c)
    \/ FindAdmin(c) \/ Promote(c) \/ CreateAdmin(c)
    \/ Refused(c)

Spec == Init /\ [][Next]_vars

-----------------------------------------------------------------------------
(* Properties *)

\* What a caller can be in the middle of, and what can be in the table.
TypeOK ==
    /\ users \in [Emails -> [role: {"admin", "viewer"}, password: Passwords]
                            \cup {NoRow}]
    /\ call \in [Callers -> [at: {"register", "promote", "createAdmin"},
                             email: Emails, password: Passwords] \cup {Idle}]
    /\ answered \subseteq [what: {"registered", "promoted", "created"},
                           email: Emails, password: Passwords, asked: Roles]

\* Login looks the normalised address up and compares the hash.
CanLogIn(email, password) ==
    Exists(Normal(email)) /\ users[Normal(email)].password = password

\* Whoever was told that the registration succeeded can log in with the password
\* that was given, in any spelling of the address: of two registrations that
\* both found the address free only one is told so, and nothing that runs beside
\* or after it, createadmin included, replaces its row.
RegisteredCanLogIn ==
    \A a \in answered : a.what = "registered" =>
        \A e \in Emails : Normal(e) = Normal(a.email) => CanLogIn(e, a.password)

\* An account the operator was told is an admin stays one, although a
\* registration of the same address may have looked it up before.
CreatedAdminsStayAdmins ==
    \A a \in answered : a.what # "registered" => users[a.email].role = "admin"

\* README.md, Register and Login: an account registered with "role": "admin" is
\* an admin's when it logs in.  (The code makes every account a viewer's.)
AskedRoleIsGranted ==
    \A a \in answered : a.what = "registered" /\ a.asked = "admin" =>
        users[Normal(a.email)].role = "admin"

\* cmd/createadmin, "Admin user created successfully": the operator can log in as
\* the admin that was created, with the address and the password that were given.
\* (The address is stored as it is typed, and Login looks for its normal form.)
CreatedAdminsCanLogIn ==
    \A a \in answered : a.what = "created" => CanLogIn(a.email, a.password)

=============================================================================
