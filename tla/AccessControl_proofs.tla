------------------------- MODULE AccessControl_proofs -------------------------
(***************************************************************************)
(* Theorems about AccessControl, for any accounts and any number of        *)
(* callers at once.                                                        *)
(***************************************************************************)
EXTENDS AccessControl, TLAPS

\* What a caller can be in the middle of.
Account == [at: {"register", "promote", "createAdmin"}, email: Emails,
            password: Passwords]
Request == [at: {"login", "refresh"} \cup Routes, by: Emails, role: Roles,
            to: Emails]
People == [role: Roles, password: Passwords]

LEMMA AccessInitInv == AccessInit => AccessInv
  BY DEF AccessInit, Init, AccessInv, AccessTypeOK, ClaimsWereHeld,
         HandlersServeHolders, NothingWithoutOperator, OnlyRoleChangesDemote,
         Idle, Exists, NoRow, Roles, Routes

\* A row is a person's or NoRow, and the two can be told apart.
LEMMA RowShape ==
    ASSUME users \in [Emails -> People \cup {NoRow}], NEW e \in Emails
    PROVE /\ Exists(e) => users[e] \in People /\ users[e].role # "none"
          /\ ~Exists(e) => users[e] = NoRow /\ users[e].role = "none"
  BY DEF Exists, NoRow, People, Roles

\* Where a caller is tells which record it carries.
LEMMA CallShape ==
    ASSUME AccessTypeOK, NEW c \in Callers
    PROVE /\ call[c].at \in {"register", "promote", "createAdmin"} =>
                call[c] \in Account
          /\ call[c].at \in {"login", "refresh"} \cup Routes => call[c] \in Request
          /\ call[c] = Idle => call[c].at = "idle"
  BY DEF AccessTypeOK, Account, Request, Idle, Routes

\* Remember adds the roles the accounts have now, and forgets none.
LEMMA HeldGrows ==
    ASSUME AccessTypeOK, Remember, users' \in [Emails -> People \cup {NoRow}]
    PROVE /\ held' \in [Emails -> SUBSET Roles]
          /\ \A e \in Emails : held[e] \subseteq held'[e]
          /\ \A e \in Emails : Exists(e)' => users'[e].role \in held'[e]
          /\ \A e \in Emails : held'[e] \subseteq held[e] \cup {users'[e].role}
  <1>1. \A e \in Emails : users'[e].role \in Roles \cup {"none"}
    BY DEF People, NoRow
  <1>2. \A e \in Emails : Exists(e)' => users'[e].role # "none"
    BY DEF Exists, People, NoRow, Roles
  <1> QED BY <1>1, <1>2 DEF Remember, AccessTypeOK

\* As long as the table stays as it is, so does the history.
LEMMA HeldKept ==
    ASSUME AccessInv, Remember, users' = users
    PROVE held' = held
  <1> USE DEF AccessInv, AccessTypeOK
  <1>1. ASSUME NEW e \in Emails
        PROVE {users[e].role} \ {"none"} \subseteq held[e]
    <2>1. CASE Exists(e)
      BY <2>1 DEF ClaimsWereHeld
    <2>2. CASE ~Exists(e)
      BY <2>2 DEF Exists, NoRow
    <2> QED BY <2>1, <2>2
  <1> QED BY <1>1 DEF Remember

-----------------------------------------------------------------------------
(* The steps that change nothing but a caller, and perhaps add a token *)

\* A caller goes to a state that is idle, is about an account yet to be made, or
\* carries a role that was held; the tokens that are added were held as well.
LEMMA CallerSteps ==
    ASSUME AccessInv, Remember, NEW c \in Callers,
           NEW state \in Account \cup Request \cup {Idle}, Goto(c, state),
           state.at \in {"login", "refresh"} =>
              state.role \in held[state.by] /\ Exists(state.by),
           state.at = "promote" => Exists(state.email),
           state.at \in {"setRole", "readLog"} => "admin" \in held[state.by],
           state.at = "ingest" =>
              held[state.by] \cap {"admin", "analyst"} # {},
           users' = users, changed' = changed, operator' = operator,
           tokens' \subseteq [by: Emails, role: Roles],
           \A t \in tokens' : t.role \in held[t.by] /\ Exists(t.by),
           trail' \subseteq [action: {"user.logged_in"}, by: Emails]
    PROVE AccessInv'
  <1>1. held' = held
    BY HeldKept
  <1>2. call' = [call EXCEPT ![c] = state]
    BY DEF Goto
  <1>3. AccessTypeOK'
    BY <1>1, <1>2 DEF AccessInv, AccessTypeOK, Account, Request
  <1>4. \A d \in Callers : call'[d] = IF d = c THEN state ELSE call[d]
    BY <1>2 DEF AccessInv, AccessTypeOK
  <1>5. ClaimsWereHeld'
    BY <1>1, <1>4 DEF AccessInv, ClaimsWereHeld, Exists
  <1>6. HandlersServeHolders'
    BY <1>1, <1>4 DEF AccessInv, HandlersServeHolders
  <1>7. NothingWithoutOperator' /\ OnlyRoleChangesDemote'
    BY <1>1 DEF AccessInv, NothingWithoutOperator, OnlyRoleChangesDemote
  <1> QED BY <1>3, <1>5, <1>6, <1>7 DEF AccessInv

\* A step that leaves everything but the caller alone.
LEMMA Begins ==
    ASSUME AccessInv, Remember, NEW c \in Callers,
           NEW state \in Account \cup Request \cup {Idle}, Goto(c, state),
           state.at \in {"login", "refresh"} =>
              state.role \in held[state.by] /\ Exists(state.by),
           state.at = "promote" => Exists(state.email),
           state.at \in {"setRole", "readLog"} => "admin" \in held[state.by],
           state.at = "ingest" =>
              held[state.by] \cap {"admin", "analyst"} # {},
           users' = users, UNCHANGED own
    PROVE AccessInv'
  <1>1. /\ changed' = changed /\ operator' = operator /\ tokens' = tokens
        /\ trail' = trail
    BY DEF own
  <1>2. /\ tokens \subseteq [by: Emails, role: Roles]
        /\ \A t \in tokens : t.role \in held[t.by] /\ Exists(t.by)
        /\ trail \subseteq [action: {"user.logged_in"}, by: Emails]
    BY DEF AccessInv, AccessTypeOK, ClaimsWereHeld
  <1> QED BY <1>1, <1>2, CallerSteps

\* Every step of a caller that writes no row.
LEMMA Reading ==
    ASSUME AccessInv, Remember, NEW c \in Callers,
           \/ (Register(c) \/ FindAdmin(c) \/ Refused(c)) /\ UNCHANGED own
           \/ Login(c) \/ AnswerLogin(c) \/ Refresh(c) \/ AnswerRefresh(c)
           \/ Enter(c) \/ ServeOther(c)
    PROVE AccessInv'
  <1> USE AccessAssumption
  <1>1. CASE Register(c) /\ UNCHANGED own
    <2>1. PICK e \in Emails, p \in Passwords : Goto(c, Under("register", e, p))
      BY <1>1 DEF Register
    <2>2. /\ Under("register", e, p) \in Account
          /\ Under("register", e, p).at = "register"
      BY DEF Under, Account
    <2> QED BY <1>1, <2>1, <2>2, Begins DEF Register
  <1>2. CASE FindAdmin(c) /\ UNCHANGED own
    <2>1. PICK e \in Emails, p \in Passwords :
              Goto(c, Under(IF Exists(e) THEN "promote" ELSE "createAdmin", e, p))
      BY <1>2 DEF FindAdmin
    <2> DEFINE at == IF Exists(e) THEN "promote" ELSE "createAdmin"
    <2>2. /\ Under(at, e, p) \in Account /\ Under(at, e, p).at = at
          /\ Under(at, e, p).email = e
          /\ at \in {"promote", "createAdmin"} /\ (at = "promote" => Exists(e))
      BY DEF Under, Account
    <2> QED BY <1>2, <2>1, <2>2, Begins DEF FindAdmin
  <1>3. CASE (Refused(c) /\ UNCHANGED own) \/ ServeOther(c)
    <2>1. Goto(c, Idle) /\ users' = users /\ UNCHANGED own
      BY <1>3 DEF Refused, ServeOther
    <2>2. Idle.at = "idle"
      BY DEF Idle
    <2> QED BY <2>1, <2>2, Begins
  <1>4. CASE Login(c)
    <2>1. PICK e \in Emails, p \in Passwords :
              /\ CanLogIn(e, p)
              /\ Goto(c, Serving("login", Normal(e), users[Normal(e)].role,
                                 Normal(e)))
      BY <1>4 DEF Login
    <2> DEFINE n == Normal(e)
               state == Serving("login", n, users[n].role, n)
    <2>2. n \in Emails /\ Exists(n)
      BY <2>1 DEF CanLogIn
    <2>3. users[n].role \in Roles /\ users[n].role \in held[n]
      BY <2>2, RowShape DEF AccessInv, AccessTypeOK, ClaimsWereHeld, People
    <2>4. /\ state \in Request /\ state.at = "login"
          /\ state.role = users[n].role /\ state.by = n
      BY <2>2, <2>3 DEF Serving, Request
    <2> HIDE DEF state, n
    <2>5. Goto(c, state)
      BY <2>1 DEF state, n
    <2> QED BY <1>4, <2>2, <2>3, <2>4, <2>5, Begins DEF Login
  <1>5. CASE AnswerLogin(c) \/ AnswerRefresh(c)
    <2>1. call[c].at \in {"login", "refresh"}
      BY <1>5 DEF AnswerLogin, AnswerRefresh
    <2>2. call[c].by \in Emails /\ call[c].role \in Roles
      BY <2>1, CallShape DEF AccessInv, Request
    <2>3. call[c].role \in held[call[c].by] /\ Exists(call[c].by)
      BY <2>1 DEF AccessInv, ClaimsWereHeld
    <2>4. /\ tokens' = tokens \cup {Token(call[c].by, call[c].role)}
          /\ Goto(c, Idle) /\ UNCHANGED <<users, changed, operator>>
      BY <1>5 DEF AnswerLogin, AnswerRefresh
    <2>5. Token(call[c].by, call[c].role) \in [by: Emails, role: Roles]
      BY <2>2 DEF Token
    <2>6. \A t \in tokens' : t.role \in held[t.by] /\ Exists(t.by)
      BY <2>3, <2>4 DEF AccessInv, ClaimsWereHeld, Token
    <2>7. trail' \subseteq [action: {"user.logged_in"}, by: Emails]
      BY <1>5, <2>2 DEF AnswerLogin, AnswerRefresh, LogBestEffort, AccessInv,
                        AccessTypeOK
    <2>8. tokens' \subseteq [by: Emails, role: Roles]
      BY <2>4, <2>5 DEF AccessInv, AccessTypeOK
    <2>9. Idle.at = "idle"
      BY DEF Idle
    <2> QED BY <2>4, <2>6, <2>7, <2>8, <2>9, CallerSteps
  <1>6. CASE Refresh(c)
    <2>1. PICK t \in tokens :
              Goto(c, Serving("refresh", t.by, users[t.by].role, t.by))
      BY <1>6 DEF Refresh
    <2> DEFINE state == Serving("refresh", t.by, users[t.by].role, t.by)
    <2>2. t.by \in Emails /\ Exists(t.by)
      BY DEF AccessInv, AccessTypeOK, ClaimsWereHeld
    <2>3. users[t.by].role \in Roles /\ users[t.by].role \in held[t.by]
      BY <2>2, RowShape DEF AccessInv, AccessTypeOK, ClaimsWereHeld, People
    <2>4. /\ state \in Request /\ state.at = "refresh"
          /\ state.role = users[t.by].role /\ state.by = t.by
      BY <2>2, <2>3 DEF Serving, Request
    <2> HIDE DEF state
    <2>5. Goto(c, state)
      BY <2>1 DEF state
    <2> QED BY <1>6, <2>2, <2>3, <2>4, <2>5, Begins DEF Refresh
  <1>7. CASE Enter(c)
    <2>1. PICK t \in tokens, route \in Routes, role \in ValidRole, to \in Emails :
              t.role \in Allowed(route) /\ Goto(c, Serving(route, t.by, role, to))
      BY <1>7 DEF Enter
    <2> DEFINE state == Serving(route, t.by, role, to)
    <2>2. t.by \in Emails /\ t.role \in held[t.by]
      BY DEF AccessInv, AccessTypeOK, ClaimsWereHeld
    <2>3. /\ route \in {"setRole", "readLog"} => t.role = "admin"
          /\ route = "ingest" => t.role \in {"admin", "analyst"}
      BY <2>1 DEF Allowed
    <2>4. state \in Request /\ state.at = route /\ state.by = t.by
      BY <2>2 DEF Serving, Request, ValidRole
    <2> HIDE DEF state
    <2>5. Goto(c, state)
      BY <2>1 DEF state
    <2>6. route \notin {"login", "refresh", "promote"}
      BY DEF Routes
    <2> QED BY <1>7, <2>2, <2>3, <2>4, <2>5, <2>6, Begins DEF Enter
  <1> QED BY <1>1, <1>2, <1>3, <1>4, <1>5, <1>6, <1>7

-----------------------------------------------------------------------------
(* The steps that write a row *)

\* A row is written for one of three reasons: an account the operator makes an
\* admin, a new viewer, or a role change of an admin, who must have come from
\* the operator.
LEMMA Writes ==
    ASSUME AccessInv, Remember, NEW c \in Callers, Goto(c, Idle),
           NEW e \in Emails, NEW row \in People,
           users' = [users EXCEPT ![e] = row], tokens' = tokens, trail' = trail,
           \/ /\ row.role = "admin"
              /\ operator' = operator \cup {e} /\ changed' = changed
           \/ /\ row.role = "viewer" /\ ~Exists(e)
              /\ operator' = operator /\ changed' = changed
           \/ /\ operator # {} /\ Exists(e)
              /\ operator' = operator /\ changed' = changed \cup {e}
    PROVE AccessInv'
  <1>1. \A d \in Emails : users'[d] = IF d = e THEN row ELSE users[d]
    BY DEF AccessInv, AccessTypeOK
  <1>2. \A d \in Callers : call'[d] = IF d = c THEN Idle ELSE call[d]
    BY DEF AccessInv, AccessTypeOK, Goto
  <1>3. users' \in [Emails -> People \cup {NoRow}]
    BY DEF AccessInv, AccessTypeOK, People
  <1>4. /\ held' \in [Emails -> SUBSET Roles]
        /\ \A d \in Emails : held[d] \subseteq held'[d]
        /\ \A d \in Emails : Exists(d)' => users'[d].role \in held'[d]
        /\ \A d \in Emails : held'[d] \subseteq held[d] \cup {users'[d].role}
    BY <1>3, HeldGrows DEF AccessInv
  <1>5. AccessTypeOK'
    <2>1. call' \in [Callers -> Account \cup Request \cup {Idle}]
      BY DEF AccessInv, AccessTypeOK, Goto, Account, Request
    <2>2. operator' \subseteq Emails /\ changed' \subseteq Emails
      BY DEF AccessInv, AccessTypeOK
    <2>3. /\ tokens' \subseteq [by: Emails, role: Roles]
          /\ trail' \subseteq [action: {"user.logged_in"}, by: Emails]
      BY DEF AccessInv, AccessTypeOK
    <2> QED BY <1>3, <1>4, <2>1, <2>2, <2>3
            DEF AccessTypeOK, Account, Request, People
  <1>6. row # NoRow
    BY RowShape DEF People, NoRow, Roles
  <1>7. \A d \in Emails : Exists(d) => Exists(d)'
    BY <1>1, <1>6 DEF Exists
  <1>8. Idle.at = "idle"
    BY DEF Idle
  <1>9. ClaimsWereHeld'
    <2>1. \A t \in tokens : t.by \in Emails
      BY DEF AccessInv, AccessTypeOK
    <2>2. \A d \in Callers : call[d].at \in {"login", "refresh"} =>
              call[d].by \in Emails
      BY CallShape DEF AccessInv, Request
    <2>3. \A d \in changed' : Exists(d)'
      BY <1>1, <1>6, <1>7 DEF AccessInv, AccessTypeOK, ClaimsWereHeld, Exists
    <2>4. \A t \in tokens' : t.role \in held'[t.by] /\ Exists(t.by)'
      BY <1>4, <1>7, <2>1 DEF AccessInv, ClaimsWereHeld
    <2>5. \A d \in Callers : call[d].at = "promote" => call[d].email \in Emails
      BY CallShape DEF AccessInv, Account
    <2>6. \A d \in Callers : call'[d].at = "promote" => Exists(call[d].email)'
      BY <1>2, <1>7, <1>8, <2>5 DEF AccessInv, ClaimsWereHeld
    <2>7. \A d \in Callers : call'[d].at \in {"login", "refresh"} =>
              call'[d].role \in held'[call'[d].by] /\ Exists(call[d].by)'
      BY <1>2, <1>4, <1>7, <1>8, <2>2 DEF AccessInv, ClaimsWereHeld
    <2> QED BY <1>4, <2>3, <2>4, <2>6, <2>7 DEF ClaimsWereHeld, Exists
  <1>10. HandlersServeHolders'
    <2>1. \A d \in Callers : call[d].at \in Routes => call[d].by \in Emails
      BY CallShape DEF AccessInv, Request
    <2> QED BY <1>2, <1>4, <1>8, <2>1
            DEF AccessInv, HandlersServeHolders, Routes
  <1>11. NothingWithoutOperator'
    BY <1>1, <1>4, <1>5, <1>6
       DEF AccessInv, AccessTypeOK, NothingWithoutOperator, ClaimsWereHeld, Exists,
           NoRow, Roles
  <1>12. OnlyRoleChangesDemote'
    BY <1>1, RowShape
       DEF AccessInv, AccessTypeOK, OnlyRoleChangesDemote, NoRow, Exists
  <1> QED BY <1>5, <1>9, <1>10, <1>11, <1>12 DEF AccessInv

\* What the steps that write a row write, and why they may.
LEMMA Written ==
    ASSUME AccessInv, NEW c \in Callers,
           (CreateUser(c) /\ UNCHANGED own) \/ MakeAdmin(c) \/ SetRole(c)
    PROVE  /\ tokens' = tokens /\ trail' = trail /\ Goto(c, Idle)
           /\ \E e \in Emails, row \in People :
                 /\ users' = [users EXCEPT ![e] = row]
                 /\ \/ /\ row.role = "admin"
                       /\ operator' = operator \cup {e} /\ changed' = changed
                    \/ /\ row.role = "viewer" /\ ~Exists(e)
                       /\ operator' = operator /\ changed' = changed
                    \/ /\ (\E by \in Emails : "admin" \in held[by]) /\ Exists(e)
                       /\ operator' = operator /\ changed' = changed \cup {e}
  <1> USE AccessAssumption
  <1>1. CASE CreateUser(c) /\ UNCHANGED own
    <2>1. call[c].email \in Emails /\ call[c].password \in Passwords
      BY <1>1, CallShape DEF CreateUser, AccessInv, Account
    <2> DEFINE e == Stored(call[c].email)
               row == Row("viewer", call[c].password)
    <2>2. e \in Emails /\ row \in People /\ row.role = "viewer"
      BY <2>1 DEF Stored, Row, People, Roles
    <2>3. ~Exists(e) /\ users' = [users EXCEPT ![e] = row] /\ Goto(c, Idle)
      BY <1>1 DEF CreateUser, Insert
    <2>4. /\ tokens' = tokens /\ trail' = trail
          /\ operator' = operator /\ changed' = changed
      BY <1>1 DEF own
    <2> HIDE DEF e, row
    <2> QED BY <2>2, <2>3, <2>4
  <1>2. CASE MakeAdmin(c)
    <2>1. call[c].email \in Emails /\ call[c].password \in Passwords
      BY <1>2, CallShape DEF MakeAdmin, Promote, CreateAdmin, AccessInv, Account
    <2> DEFINE e == call[c].email
    <2>2. PICK row \in People : row.role = "admin" /\ users' = [users EXCEPT ![e] = row]
      <3>1. CASE CreateAdmin(c)
        <4>1. Row("admin", call[c].password) \in People
          BY <2>1 DEF Row, People, Roles
        <4> QED BY <3>1, <4>1 DEF CreateAdmin, Insert, Row
      <3>2. CASE Promote(c)
        <4>1. users[e].password \in Passwords
          <5>1. Exists(e)
            BY <3>2 DEF Promote, AccessInv, ClaimsWereHeld
          <5> QED BY <2>1, <5>1, RowShape DEF AccessInv, AccessTypeOK, People
        <4>2. Row("admin", users[e].password) \in People
          BY <4>1 DEF Row, People, Roles
        <4> QED BY <3>2, <4>2 DEF Promote, Row
      <3> QED BY <1>2, <3>1, <3>2 DEF MakeAdmin
    <2>3. /\ tokens' = tokens /\ trail' = trail /\ Goto(c, Idle)
          /\ operator' = operator \cup {e} /\ changed' = changed
      BY <1>2 DEF MakeAdmin, Promote, CreateAdmin
    <2> QED BY <2>1, <2>2, <2>3
  <1>3. CASE SetRole(c)
    <2>1. call[c] \in Request
      BY <1>3, CallShape DEF SetRole, AccessInv, Routes
    <2> DEFINE e == call[c].to
               row == Row(call[c].role, users[e].password)
    <2>2. e \in Emails /\ call[c].role \in Roles /\ call[c].by \in Emails
      BY <2>1 DEF Request
    <2>3. Exists(e) /\ users[e] \in People
      BY <1>3, <2>2, RowShape DEF SetRole, AccessInv, AccessTypeOK, People
    <2>4. row \in People
      BY <2>2, <2>3 DEF Row, People
    <2>5. "admin" \in held[call[c].by]
      BY <1>3 DEF SetRole, AccessInv, HandlersServeHolders
    <2>6. /\ users' = [users EXCEPT ![e] = row] /\ changed' = changed \cup {e}
          /\ tokens' = tokens /\ trail' = trail /\ operator' = operator
          /\ Goto(c, Idle)
      BY <1>3 DEF SetRole, Row
    <2> HIDE DEF row
    <2> QED BY <2>2, <2>3, <2>4, <2>5, <2>6
  <1> QED BY <1>1, <1>2, <1>3

LEMMA Writing ==
    ASSUME AccessInv, Remember, NEW c \in Callers,
           (CreateUser(c) /\ UNCHANGED own) \/ MakeAdmin(c) \/ SetRole(c)
    PROVE AccessInv'
  <1>1. (\E by \in Emails : "admin" \in held[by]) => operator # {}
    BY DEF AccessInv, NothingWithoutOperator
  <1> QED BY <1>1, Written, Writes

-----------------------------------------------------------------------------
(* The theorems *)

LEMMA AccessStep == AccessInv /\ [AccessNext]_allVars => AccessInv'
  <1> SUFFICES ASSUME AccessInv, [AccessNext]_allVars PROVE AccessInv'
    OBVIOUS
  <1>1. CASE AccessNext
    <2>1. PICK c \in Callers : (MakeAccount(c) \/ MakeAdmin(c) \/ Serve(c)) /\ Remember
      BY <1>1 DEF AccessNext
    <2>2. CASE MakeAccount(c)
      <3>1. (Register(c) \/ FindAdmin(c) \/ Refused(c) \/ CreateUser(c))
              /\ UNCHANGED own
        BY <2>2 DEF MakeAccount
      <3> QED BY <2>1, <3>1, Reading, Writing
    <2>3. CASE MakeAdmin(c)
      BY <2>1, <2>3, Writing
    <2>4. CASE Serve(c)
      BY <2>1, <2>4, Reading, Writing DEF Serve
    <2> QED BY <2>1, <2>2, <2>3, <2>4
  <1>2. CASE UNCHANGED allVars
    BY <1>2 DEF allVars, own, AccessInv, AccessTypeOK, ClaimsWereHeld,
                HandlersServeHolders, NothingWithoutOperator,
                OnlyRoleChangesDemote, Exists
  <1> QED BY <1>1, <1>2

\* The whole of it is inductive: what rows, tokens and requests claim was held.
THEOREM AccessInductive == AccessSpec => []AccessInv
  BY AccessInitInv, AccessStep, PTL DEF AccessSpec

\* Rows, callers, tokens and entries are what AccessTypeOK says.
THEOREM AccessTypeCorrect == AccessSpec => []AccessTypeOK
  <1>1. AccessInv => AccessTypeOK
    BY DEF AccessInv
  <1> QED BY <1>1, AccessInductive, PTL

\* However a role was read, carried through logins and refreshes and taken away
\* meanwhile, the handlers of a guarded route serve who has had it.
THEOREM Holders == AccessSpec => []HandlersServeHolders
  <1>1. AccessInv => HandlersServeHolders
    BY DEF AccessInv
  <1> QED BY <1>1, AccessInductive, PTL

\* Without a createadmin there is nothing but viewers, and no role is changed.
THEOREM NoAuthorityWithoutOperator == AccessSpec => []NothingWithoutOperator
  <1>1. AccessInv => NothingWithoutOperator
    BY DEF AccessInv
  <1> QED BY <1>1, AccessInductive, PTL

\* The operator's admins are demoted by role changes alone, whatever
\* registrations and other runs of createadmin are under way.
THEOREM OnlyAdminsDemote == AccessSpec => []OnlyRoleChangesDemote
  <1>1. AccessInv => OnlyRoleChangesDemote
    BY DEF AccessInv
  <1> QED BY <1>1, AccessInductive, PTL

-----------------------------------------------------------------------------
(* Authority *)

RoleOf == [e \in Emails |-> users[e].role]

\* A row that is written is the role its account gets.
LEMMA WrittenRole ==
    ASSUME AccessInv, Remember, NEW e \in Emails, NEW row \in People,
           users' = [users EXCEPT ![e] = row]
    PROVE  Promise!Become(e, row.role)
  <1>1. \A d \in Emails : users'[d] = IF d = e THEN row ELSE users[d]
    BY DEF AccessInv, AccessTypeOK
  <1>2. RoleOf' = [RoleOf EXCEPT ![e] = row.role]
    <2>1. \A d \in Emails : users'[d].role = IF d = e THEN row.role ELSE users[d].role
      BY <1>1
    <2>2. RoleOf' = [d \in Emails |-> IF d = e THEN row.role ELSE users[d].role]
      BY <2>1 DEF RoleOf
    <2> QED BY <2>2 DEF RoleOf
  <1>3. row.role \in Roles /\ row.role # "none"
    BY DEF People, Roles
  <1>4. \A d \in Emails : {users[d].role} \ {"none"} \subseteq held[d]
    BY RowShape DEF AccessInv, AccessTypeOK, ClaimsWereHeld, People
  <1>5. held' = [held EXCEPT ![e] = held[e] \cup {row.role}]
    <2>1. held \in [Emails -> SUBSET Roles]
      BY DEF AccessInv, AccessTypeOK
    <2>2. held' = [d \in Emails |-> IF d = e THEN held[d] \cup {row.role} ELSE held[d]]
      BY <1>1, <1>3, <1>4 DEF Remember
    <2> QED BY <2>1, <2>2
  <1> QED BY <1>2, <1>5 DEF Promise!Become, RoleOf

\* Steps that write no row are stutters, and the three ways to write one are the
\* three actions of Authority.
LEMMA PromiseStep ==
    AccessInv /\ [AccessNext]_allVars => [Promise!Next]_Promise!vars
  <1> SUFFICES ASSUME AccessInv, [AccessNext]_allVars
               PROVE  Promise!Next \/ UNCHANGED Promise!vars
    OBVIOUS
  <1>1. CASE UNCHANGED <<users, held, operator, changed>>
    BY <1>1 DEF Promise!vars
  <1>2. ASSUME NEW c \in Callers, Remember,
               (CreateUser(c) /\ UNCHANGED own) \/ MakeAdmin(c) \/ SetRole(c)
        PROVE  Promise!Next
    <2>1. PICK e \in Emails, row \in People :
              /\ users' = [users EXCEPT ![e] = row]
              /\ \/ /\ row.role = "admin"
                    /\ operator' = operator \cup {e} /\ changed' = changed
                 \/ /\ row.role = "viewer" /\ ~Exists(e)
                    /\ operator' = operator /\ changed' = changed
                 \/ /\ (\E by \in Emails : "admin" \in held[by]) /\ Exists(e)
                    /\ operator' = operator /\ changed' = changed \cup {e}
      BY <1>2, Written
    <2>2. Promise!Become(e, row.role)
      BY <1>2, <2>1, WrittenRole
    <2>3. row.role \in Promise!Roles
      BY DEF People, Roles, Promise!Roles
    <2>4. Exists(e) <=> RoleOf[e] # "none"
      BY RowShape DEF AccessInv, AccessTypeOK, People, RoleOf
    <2>5. Promise!Register(e) \/ Promise!MakeAdmin(e)
            \/ \E by \in Emails : Promise!Grant(by, e, row.role)
      BY <2>1, <2>2, <2>4
         DEF Promise!Register, Promise!MakeAdmin, Promise!Grant, RoleOf
    <2> QED BY <2>3, <2>5 DEF Promise!Next
  <1>3. CASE AccessNext
    <2>1. PICK c \in Callers : (MakeAccount(c) \/ MakeAdmin(c) \/ Serve(c)) /\ Remember
      BY <1>3 DEF AccessNext
    <2>2. CASE (CreateUser(c) /\ UNCHANGED own) \/ MakeAdmin(c) \/ SetRole(c)
      BY <1>2, <2>1, <2>2
    <2>3. CASE ~((CreateUser(c) /\ UNCHANGED own) \/ MakeAdmin(c) \/ SetRole(c))
      <3>1. users' = users /\ operator' = operator /\ changed' = changed
        BY <2>1, <2>3 DEF MakeAccount, Register, FindAdmin, Refused, Serve, Login,
           AnswerLogin, Refresh, AnswerRefresh, Enter, ServeOther, own
      <3>2. held' = held
        BY <2>1, <3>1, HeldKept
      <3> QED BY <1>1, <3>1, <3>2
    <2> QED BY <2>2, <2>3
  <1>4. CASE UNCHANGED allVars
    BY <1>1, <1>4 DEF allVars, own
  <1> QED BY <1>3, <1>4

\* The accounts, tokens and routes of the API implement Authority: whatever is
\* read before it is used, no role comes from anyone else.
THEOREM AccessRefinement == AccessSpec => AuthoritySpec
  <1>1. AccessInit => Promise!Init
    BY DEF AccessInit, Init, NoRow, Promise!Init
  <1> QED BY <1>1, PromiseStep, AccessInductive, PTL
          DEF AccessSpec, AuthoritySpec, Promise!Spec
=============================================================================
