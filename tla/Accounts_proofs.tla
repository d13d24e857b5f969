--------------------------- MODULE Accounts_proofs ---------------------------
(***************************************************************************)
(* Theorems about Accounts, for any addresses, any normal form of them and *)
(* any number of callers at once.                                          *)
(***************************************************************************)
EXTENDS Accounts, TLAPS

\* What createadmin found is there still when it is promoted: no row is deleted.
\* Without it a promotion could write a row with no password.
PromotedExist == \A c \in Callers : call[c].at = "promote" => Exists(call[c].email)

LEMMA TypeInit == Init => TypeOK /\ PromotedExist
  BY DEF Init, TypeOK, PromotedExist, Idle

LEMMA TypeNext == TypeOK /\ PromotedExist /\ [Next]_vars => TypeOK'
  <1> SUFFICES ASSUME TypeOK, PromotedExist, [Next]_vars PROVE TypeOK'
    OBVIOUS
  <1> USE AccountsAssumption
  <1>1. ASSUME NEW c \in Callers, call[c].at # "idle"
        PROVE /\ call[c].email \in Emails /\ call[c].password \in Passwords
              /\ call[c] # Idle
    BY <1>1 DEF TypeOK, Idle
  <1>2. ASSUME NEW c \in Callers, Register(c) PROVE TypeOK'
    <2>1. PICK e \in Emails, p \in Passwords : Goto(c, Under("register", e, p))
      BY <1>2 DEF Register
    <2> QED BY <1>2, <2>1 DEF Register, Goto, Under, TypeOK
  <1>3. ASSUME NEW c \in Callers, CreateUser(c) PROVE TypeOK'
    <2>1. /\ call[c].email \in Emails /\ call[c].password \in Passwords
      BY <1>1, <1>3 DEF CreateUser
    <2>2. users' = [users EXCEPT ![Stored(call[c].email)] =
                        Row("viewer", call[c].password)]
      BY <1>3 DEF CreateUser, Insert
    <2>3. answered' \subseteq [what: {"registered", "promoted", "created"},
                               email: Emails, password: Passwords, asked: Roles]
      BY <1>3, <2>1 DEF CreateUser, Told, TypeOK
    <2> QED BY <1>3, <2>1, <2>2, <2>3 DEF CreateUser, Stored, Row, Goto, TypeOK
  <1>4. ASSUME NEW c \in Callers, FindAdmin(c) PROVE TypeOK'
    <2>1. PICK e \in Emails, p \in Passwords :
              Goto(c, Under(IF Exists(e) THEN "promote" ELSE "createAdmin", e, p))
      BY <1>4 DEF FindAdmin
    <2>2. PICK at \in {"promote", "createAdmin"} : Goto(c, Under(at, e, p))
      <3>1. CASE Exists(e)
        BY <2>1, <3>1
      <3>2. CASE ~Exists(e)
        BY <2>1, <3>2
      <3> QED BY <3>1, <3>2
    <2>3. [at |-> at, email |-> e, password |-> p] \in
              [at: {"register", "promote", "createAdmin"},
               email: Emails, password: Passwords]
      OBVIOUS
    <2> QED BY <1>4, <2>2, <2>3 DEF FindAdmin, Goto, Under, TypeOK
  <1>5. ASSUME NEW c \in Callers, Promote(c) PROVE TypeOK'
    <2>1. call[c].email \in Emails /\ call[c].password \in Passwords
      BY <1>1, <1>5 DEF Promote
    <2>2. answered' \subseteq [what: {"registered", "promoted", "created"},
                               email: Emails, password: Passwords, asked: Roles]
      BY <1>5, <2>1 DEF Promote, Told, TypeOK, Roles
    <2>3. users[call[c].email].password \in Passwords
      BY <1>5, <2>1 DEF Promote, PromotedExist, Exists, TypeOK
    <2> QED BY <1>5, <2>1, <2>2, <2>3 DEF Promote, Row, Goto, TypeOK
  <1>6. ASSUME NEW c \in Callers, CreateAdmin(c) PROVE TypeOK'
    <2>1. call[c].email \in Emails /\ call[c].password \in Passwords
      BY <1>1, <1>6 DEF CreateAdmin
    <2>2. answered' \subseteq [what: {"registered", "promoted", "created"},
                               email: Emails, password: Passwords, asked: Roles]
      BY <1>6, <2>1 DEF CreateAdmin, Told, TypeOK, Roles
    <2> QED BY <1>6, <2>1, <2>2 DEF CreateAdmin, Insert, Row, Goto, TypeOK
  <1>7. ASSUME NEW c \in Callers, Refused(c) PROVE TypeOK'
    BY <1>7 DEF Refused, Goto, TypeOK
  <1>8. CASE UNCHANGED vars
    BY <1>8 DEF vars, TypeOK
  <1> QED BY <1>2, <1>3, <1>4, <1>5, <1>6, <1>7, <1>8 DEF Next

-----------------------------------------------------------------------------
(* A row that is in the table keeps its password for good, and its role is   *)
(* changed by Promote alone, which makes it an admin's.                      *)

LEMMA RowsStay ==
    ASSUME TypeOK, [Next]_vars, NEW e \in Emails, Exists(e)
    PROVE  /\ Exists(e)'
           /\ users'[e].password = users[e].password
           /\ users'[e].role \in {users[e].role, "admin"}
  <1> USE AccountsAssumption
  <1>1. ASSUME NEW c \in Callers, NEW a \in Emails, NEW row, Insert(a, row)
        PROVE  users'[e] = users[e]
    BY <1>1 DEF Insert, TypeOK
  <1>2. ASSUME NEW c \in Callers, call[c].at # "idle"
        PROVE  call[c].email \in Emails
    BY <1>2 DEF TypeOK, Idle
  <1>3. ASSUME NEW c \in Callers, CreateUser(c) PROVE users'[e] = users[e]
    BY <1>1, <1>2, <1>3 DEF CreateUser, Stored
  <1>4. ASSUME NEW c \in Callers, CreateAdmin(c) PROVE users'[e] = users[e]
    BY <1>1, <1>2, <1>4 DEF CreateAdmin
  <1>5. ASSUME NEW c \in Callers, Promote(c)
        PROVE  users'[e] \in {users[e], Row("admin", users[e].password)}
    BY <1>5 DEF Promote, TypeOK
  <1>6. ASSUME NEW c \in Callers, Register(c) \/ FindAdmin(c) \/ Refused(c)
        PROVE  users'[e] = users[e]
    BY <1>6 DEF Register, FindAdmin, Refused
  <1>7. users'[e] \in {users[e], Row("admin", users[e].password)}
    BY <1>3, <1>4, <1>5, <1>6 DEF Next, vars
  <1>8. CASE users'[e] = users[e]
    BY <1>8 DEF Exists
  <1>9. CASE users'[e] = Row("admin", users[e].password)
    BY <1>9 DEF Exists, Row, NoRow
  <1> QED BY <1>7, <1>8, <1>9

LEMMA PromotedNext ==
    TypeOK /\ PromotedExist /\ [Next]_vars => PromotedExist'
  <1> SUFFICES ASSUME TypeOK, PromotedExist, [Next]_vars,
                      NEW c \in Callers, call'[c].at = "promote"
               PROVE  Exists(call[c].email)'
    BY DEF PromotedExist
  <1>1. CASE call'[c] = call[c]
    <2>1. call[c].at = "promote"
      BY <1>1
    <2>2. call[c] # Idle
      BY <2>1 DEF Idle
    <2>3. call[c].email \in Emails
      BY <2>2 DEF TypeOK
    <2>4. Exists(call[c].email)
      BY <2>1 DEF PromotedExist
    <2>5. users'[call[c].email] # NoRow
      BY <2>3, <2>4, RowsStay DEF Exists
    <2> QED BY <1>1, <2>5 DEF Exists
  <1>2. CASE call'[c] # call[c]
    <2>1. PICK d \in Callers : Register(d) \/ CreateUser(d) \/ FindAdmin(d)
                                \/ Promote(d) \/ CreateAdmin(d) \/ Refused(d)
      BY <1>2 DEF Next, vars
    <2>2. PICK state : call' = [call EXCEPT ![d] = state]
      BY <2>1 DEF Register, CreateUser, FindAdmin, Promote, CreateAdmin, Refused, Goto
    <2>3. d = c
      BY <1>2, <2>2 DEF TypeOK
    <2>4. CASE CreateUser(c) \/ Promote(c) \/ CreateAdmin(c) \/ Refused(c)
      <3>1. call'[c] = Idle
        BY <2>4 DEF CreateUser, Promote, CreateAdmin, Refused, Goto, TypeOK
      <3> QED BY <3>1 DEF Idle
    <2>5. CASE Register(c)
      <3>1. call'[c].at = "register"
        BY <2>5 DEF Register, Goto, Under, TypeOK
      <3> QED BY <3>1
    <2>6. CASE FindAdmin(c)
      <3>1. PICK e \in Emails, p \in Passwords :
                call'[c] = Under(IF Exists(e) THEN "promote" ELSE "createAdmin", e, p)
        BY <2>6 DEF FindAdmin, Goto, TypeOK
      <3>2. /\ call'[c].at = IF Exists(e) THEN "promote" ELSE "createAdmin"
            /\ call'[c].email = e
        BY <3>1 DEF Under
      <3> QED BY <2>6, <3>2 DEF FindAdmin, Exists
    <2> QED BY <2>1, <2>3, <2>4, <2>5, <2>6
  <1> QED BY <1>1, <1>2

\* The users table, the calls under way and the answers given keep their types;
\* in particular a promotion never leaves an account without a password.
THEOREM AccountsTyped == Spec => []TypeOK
  <1>1. Spec => [](TypeOK /\ PromotedExist)
    BY TypeInit, TypeNext, PromotedNext, PTL DEF Spec
  <1> QED BY <1>1, PTL

LEMMA RegisteredNext ==
    TypeOK /\ RegisteredCanLogIn /\ [Next]_vars => RegisteredCanLogIn'
  <1> SUFFICES ASSUME TypeOK, RegisteredCanLogIn, [Next]_vars,
                      NEW a \in answered', a.what = "registered",
                      NEW e \in Emails, Normal(e) = Normal(a.email)
               PROVE  CanLogIn(e, a.password)'
    BY DEF RegisteredCanLogIn
  <1> USE AccountsAssumption
  <1>1. CASE a \in answered
    <2>1. Exists(Normal(e)) /\ users[Normal(e)].password = a.password
      BY <1>1 DEF RegisteredCanLogIn, CanLogIn
    <2> QED BY <2>1, RowsStay DEF CanLogIn
  <1>2. CASE a \notin answered
    <2>1. PICK c \in Callers : CreateUser(c)
      BY <1>2 DEF Next, Register, FindAdmin, Promote, CreateAdmin, Refused, Told, vars
    <2>2. a.email = call[c].email /\ a.password = call[c].password
      BY <1>2, <2>1 DEF CreateUser, Told
    <2>3. users' = [users EXCEPT ![Normal(e)] = Row("viewer", a.password)]
      BY <2>1, <2>2 DEF CreateUser, Insert, Stored
    <2> QED BY <2>3 DEF CanLogIn, Exists, Row, NoRow, TypeOK
  <1> QED BY <1>1, <1>2

\* Whatever overlaps it, a registration that was answered with success logs in.
THEOREM RegistrationsLast == Spec => []RegisteredCanLogIn
  <1>1. Init => RegisteredCanLogIn
    BY DEF Init, RegisteredCanLogIn
  <1> QED BY <1>1, AccountsTyped, RegisteredNext, PTL DEF Spec

LEMMA AdminsNext ==
    TypeOK /\ CreatedAdminsStayAdmins /\ [Next]_vars => CreatedAdminsStayAdmins'
  <1> SUFFICES ASSUME TypeOK, CreatedAdminsStayAdmins, [Next]_vars,
                      NEW a \in answered', a.what # "registered"
               PROVE  users'[a.email].role = "admin"
    BY DEF CreatedAdminsStayAdmins
  <1> USE AccountsAssumption
  <1>1. CASE a \in answered
    <2>1. a.email \in Emails /\ users[a.email].role = "admin"
      BY <1>1 DEF CreatedAdminsStayAdmins, TypeOK
    <2>2. Exists(a.email)
      BY <2>1 DEF Exists, NoRow
    <2> QED BY <2>1, <2>2, RowsStay
  <1>2. CASE a \notin answered
    <2>1. PICK c \in Callers : Promote(c) \/ CreateAdmin(c)
      BY <1>2 DEF Next, Register, CreateUser, FindAdmin, Refused, Told, vars
    <2>2. a.email = call[c].email
      BY <1>2, <2>1 DEF Promote, CreateAdmin, Told
    <2>3. a.email \in Emails
      BY <2>1, <2>2 DEF Promote, CreateAdmin, TypeOK, Idle
    <2>4. \E p : users' = [users EXCEPT ![a.email] = Row("admin", p)]
      BY <2>1, <2>2 DEF Promote, CreateAdmin, Insert
    <2> QED BY <2>3, <2>4 DEF Row, TypeOK
  <1> QED BY <1>1, <1>2

\* No registration that overlaps createadmin takes the role back.
THEOREM AdminsLast == Spec => []CreatedAdminsStayAdmins
  <1>1. Init => CreatedAdminsStayAdmins
    BY DEF Init, CreatedAdminsStayAdmins
  <1> QED BY <1>1, AccountsTyped, AdminsNext, PTL DEF Spec

=============================================================================
