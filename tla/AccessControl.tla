---------------------------- MODULE AccessControl ----------------------------
(***************************************************************************)
(* The way from an account to what it may do: the accounts of Accounts,    *)
(* the tokens they are given, the routes of cmd/api that the claims of a   *)
(* token open, and what the activity log is told.  Requests of many        *)
(* clients, of admins and of the operator are under way at once, and each  *)
(* goes by what it has read.                                               *)
(*                                                                         *)
(* Tokens do not expire here: Sessions bounds how long a role that was     *)
(* taken away is of use; this module asks where roles come from.           *)
(***************************************************************************)
EXTENDS Naturals

CONSTANTS
    Emails, Normal(_), Passwords, Callers,    \* as in Accounts
    LogCanFail    \* whether inserts into activity_log may return an error

ASSUME AccessAssumption ==
    /\ \A e \in Emails : Normal(e) \in Emails /\ Normal(Normal(e)) = Normal(e)
    /\ LogCanFail \in BOOLEAN

VARIABLES
    users,     \* the users table and the callers, as in Accounts
    call,
    tokens,    \* the tokens clients have been given: owner and claimed role
    trail,     \* activity_log: what was done, and by whom
    changed,   \* accounts whose role PATCH /api/admin/users/{id}/role has set
    held,      \* history: the roles an account has had
    operator   \* history: the accounts createadmin has made admins

\* What callers were told is a matter of Accounts alone: none of it is kept.
INSTANCE Accounts WITH answered <- {}

own == <<tokens, trail, changed, operator>>
allVars == <<users, call, own, held>>

\* A request past its first read: the account it is about and the role it read,
\* or the actor, the role that is to be set and the account to set it on.
Serving(at, by, role, to) == [at |-> at, by |-> by, role |-> role, to |-> to]
Token(by, role) == [by |-> by, role |-> role]

AccessInit ==
    /\ Init
    /\ tokens = {} /\ trail = {} /\ changed = {}
    /\ held = [e \in Emails |-> {}]
    /\ operator = {}

\* Kept up with every step.
Remember == held' = [e \in Emails |-> held[e] \cup ({users'[e].role} \ {"none"})]

\* logActivityBestEffort: an error of the insert is printed and dropped.
LogBestEffort(action, by) ==
    \/ trail' = trail \cup {[action |-> action, by |-> by]}
    \/ LogCanFail /\ UNCHANGED trail

-----------------------------------------------------------------------------
(* Login and Refresh *)

\* FindByEmail, and the password matches its hash.
Login(c) ==
    /\ call[c] = Idle
    /\ \E e \in Emails, p \in Passwords :
          CanLogIn(e, p) /\ Goto(c, Serving("login", Normal(e),
                                            users[Normal(e)].role, Normal(e)))
    /\ UNCHANGED <<users, own>>

\* The pair of tokens is signed for the row that was read, the login is logged,
\* and the client is answered.
AnswerLogin(c) ==
    /\ call[c].at = "login"
    /\ LogBestEffort("user.logged_in", call[c].by)
    /\ tokens' = tokens \cup {Token(call[c].by, call[c].role)}
    /\ Goto(c, Idle)
    /\ UNCHANGED <<users, changed, operator>>

\* A refresh token that verifies, and FindByID for its subject.
Refresh(c) ==
    /\ call[c] = Idle
    /\ \E t \in tokens :
          Goto(c, Serving("refresh", t.by, users[t.by].role, t.by))
    /\ UNCHANGED <<users, own>>

AnswerRefresh(c) ==
    /\ call[c].at = "refresh"
    /\ tokens' = tokens \cup {Token(call[c].by, call[c].role)}
    /\ Goto(c, Idle)
    /\ UNCHANGED <<users, trail, changed, operator>>

-----------------------------------------------------------------------------
(* The routes behind AuthMiddleware and RequireRole *)

Routes == {"setRole", "readLog", "ingest"}

\* Mutant: the group of the listing routes has lost its RequireRole.
AllowedToAll(route) ==
    IF route = "ingest" THEN {"admin", "analyst", "viewer"} ELSE {"admin"}

\* The groups of the router.
Allowed(route) == IF route = "ingest" THEN {"admin", "analyst"} ELSE {"admin"}

\* Mutant: a role that is none is taken as well.
AnyRole == Roles \cup {"owner"}

ValidRole == Roles

\* A request passes both middlewares, and UpdateUserRole's check of the new role.
Enter(c) ==
    /\ call[c] = Idle
    /\ \E t \in tokens, route \in Routes, role \in ValidRole, to \in Emails :
          /\ t.role \in Allowed(route)
          /\ route # "setRole" => to = t.by /\ role = t.role
          /\ Goto(c, Serving(route, t.by, role, to))
    /\ UNCHANGED <<users, own>>

\* UpdateUserRole finds the account and sets its role; nothing is logged.
SetRole(c) ==
    /\ call[c].at = "setRole" /\ Exists(call[c].to)
    /\ users' = [users EXCEPT ![call[c].to] = Row(call[c].role, @.password)]
    /\ changed' = changed \cup {call[c].to}
    /\ Goto(c, Idle)
    /\ UNCHANGED <<tokens, trail, operator>>

\* The others change no account: a page of the activity log goes out, or a
\* listing is ingested (LeadCatalogue) or an import started (ImportPipeline).
ServeOther(c) ==
    /\ call[c].at \in Routes \ {"setRole"}
    /\ Goto(c, Idle)
    /\ UNCHANGED <<users, own>>

-----------------------------------------------------------------------------
(* All together *)

MakeAccount(c) ==
    /\ Register(c) \/ CreateUser(c) \/ FindAdmin(c) \/ Refused(c)
    /\ UNCHANGED own

\* cmd/createadmin has its effect.
MakeAdmin(c) ==
    /\ Promote(c) \/ CreateAdmin(c)
    /\ operator' = operator \cup {call[c].email}
    /\ UNCHANGED <<tokens, trail, changed>>

Serve(c) ==
    \/ Login(c) \/ AnswerLogin(c) \/ Refresh(c) \/ AnswerRefresh(c)
    \/ Enter(c) \/ SetRole(c) \/ ServeOther(c)

AccessNext ==
    \E c \in Callers : (MakeAccount(c) \/ MakeAdmin(c) \/ Serve(c)) /\ Remember

AccessSpec == AccessInit /\ [][AccessNext]_allVars

-----------------------------------------------------------------------------
(* Properties *)

\* Where a caller is, and that the rows, the tokens and the entries are about
\* accounts.
AccessTypeOK ==
    /\ users \in [Emails -> [role: Roles, password: Passwords] \cup {NoRow}]
    /\ call \in [Callers ->
          [at: {"register", "promote", "createAdmin"}, email: Emails,
           password: Passwords]
          \cup [at: {"login", "refresh"} \cup Routes, by: Emails, role: Roles,
                to: Emails]
          \cup {Idle}]
    /\ tokens \subseteq [by: Emails, role: Roles]
    /\ trail \subseteq [action: {"user.logged_in"}, by: Emails]
    /\ changed \subseteq Emails
    /\ held \in [Emails -> SUBSET Roles]
    /\ operator \subseteq Emails

\* Behind every guarded route stands an account that at some time had a role the
\* route is for (README.md, "Allowed roles"), however the role was read, carried
\* through logins and refreshes, and taken away meanwhile.
HandlersServeHolders ==
    \A c \in Callers :
        /\ call[c].at \in {"setRole", "readLog"} => "admin" \in held[call[c].by]
        /\ call[c].at = "ingest" => held[call[c].by] \cap {"admin", "analyst"} # {}

\* All authority comes from the operator: as long as createadmin has made nobody
\* an admin, every account is a viewer's and always has been, whatever role was
\* asked for at the registration, and no role is changed.
NothingWithoutOperator ==
    operator = {} => changed = {} /\ \A e \in Emails : held[e] \subseteq {"viewer"}

\* An account the operator made an admin stops being one only by a role change
\* of an admin, never by a registration or another createadmin beside it.
OnlyRoleChangesDemote ==
    \A e \in operator \ changed : users[e].role = "admin"

\* Accounts, tokens and routes together keep what Authority promises: whatever
\* requests read, carry through logins and refreshes, and use when it is stale, a
\* role is only ever given by one who has been an admin, or by the operator.
Promise == INSTANCE Authority WITH role <- [e \in Emails |-> users[e].role]
AuthoritySpec == Promise!Spec

\* docs/database-relationships.md: "Users trigger actions such as login, imports,
\* listing ingestion, and admin changes", which make the rows of activity_log.
\* (UpdateUserRole writes none.)
RoleChangesAreLogged ==
    changed # {} /\ ~LogCanFail /\ (\A c \in Callers : call[c] = Idle) =>
        \E entry \in trail : entry.action # "user.logged_in"

-----------------------------------------------------------------------------
(* The inductive invariant behind the theorems of AccessControl_proofs *)

\* What is in the table, in tokens and in requests was held when it was read, and
\* the accounts that were found are there still.
ClaimsWereHeld ==
    /\ \A e \in Emails : Exists(e) => users[e].role \in held[e]
    /\ \A t \in tokens : t.role \in held[t.by] /\ Exists(t.by)
    /\ \A c \in Callers : call[c].at \in {"login", "refresh"} =>
          call[c].role \in held[call[c].by] /\ Exists(call[c].by)
    /\ \A c \in Callers : call[c].at = "promote" => Exists(call[c].email)
    /\ \A e \in changed : Exists(e)

AccessInv ==
    /\ AccessTypeOK /\ ClaimsWereHeld /\ HandlersServeHolders
    /\ NothingWithoutOperator /\ OnlyRoleChangesDemote
=============================================================================
