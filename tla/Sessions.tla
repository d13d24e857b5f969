------------------------------ MODULE Sessions ------------------------------
(***************************************************************************)
(* Tokens and roles (internal/application/auth, auth_middleware.go,        *)
(* role_middleware.go).  A token carries the role its account had when the *)
(* token was made, every route but login and refresh trusts the claim, and *)
(* nothing revokes a token: it dies of its age.  An admin changes roles    *)
(* while logins and refreshes are under way, so a token can be born with a *)
(* role that is already gone.                                              *)
(*                                                                         *)
(* Accounts come from Accounts; here they exist, and keep existing: no     *)
(* code deletes one.  A request is a slot; its database calls and the      *)
(* signing are separate steps, and the clock ticks between them.           *)
(***************************************************************************)
EXTENDS Naturals

CONSTANTS
    Users,
    Slots,        \* requests that can be under way at once
    AccessTTL,    \* ACCESS_TOKEN_TTL and REFRESH_TOKEN_TTL, in ticks
    RefreshTTL,
    MaxLatency    \* bound: ticks a request may take

ASSUME SessionsAssumption ==
    /\ AccessTTL \in Nat \ {0}
    /\ RefreshTTL \in Nat \ {0}
    /\ MaxLatency \in Nat

VARIABLES
    role,      \* users.role
    access,    \* access[u][r]: ticks left of the youngest access token of u
    refresh,   \* that claims role r, 0 when all have expired; an older one
               \* opens nothing the youngest does not
    slot,      \* the requests under way
    since      \* ticks since role[u] last changed, counted up to SinceBound

vars == <<role, access, refresh, slot, since>>

Roles == {"admin", "analyst", "viewer"}
SinceBound == AccessTTL + 2 * MaxLatency + 1

\* user is the account the request is about, carried a role: the claim of the
\* refresh token at "find", the one read at "issue", the new one of a change.
Request == [at: {"find", "issue", "check", "update"}, age: 0 .. MaxLatency,
            user: Users, carried: Roles, actor: Users]
Free == [at |-> "free"]
Busy(s) == slot[s] # Free

Init ==
    /\ role \in [Users -> Roles]
    /\ access = [u \in Users |-> [r \in Roles |-> 0]]
    /\ refresh = [u \in Users |-> [r \in Roles |-> 0]]
    /\ slot = [s \in Slots |-> Free]
    /\ since = [u \in Users |-> 0]

Enter(s, at, user, carried, actor) ==
    /\ ~Busy(s)
    /\ slot' = [slot EXCEPT ![s] = [at |-> at, age |-> 0, user |-> user,
                                    carried |-> carried, actor |-> actor]]

Proceed(s, from, to, carried) ==
    /\ slot[s].at = from
    /\ slot' = [slot EXCEPT ![s] =
           [at |-> to, age |-> slot[s].age, user |-> slot[s].user,
            carried |-> carried, actor |-> slot[s].actor]]

Leave(s) == slot' = [slot EXCEPT ![s] = Free]

-----------------------------------------------------------------------------
(* Login and Refresh *)

\* FindByEmail and a matching password; a login that fails changes nothing.
Login(s, u) ==
    /\ Enter(s, "issue", u, role[u], u)
    /\ UNCHANGED <<role, access, refresh, since>>

VerifyRefreshToken(s, u, r) ==
    /\ refresh[u][r] > 0
    /\ Enter(s, "find", u, r, u)
    /\ UNCHANGED <<role, access, refresh, since>>

\* Mutant: the claims of the refresh token are copied into the new tokens.
ClaimedRole(s) == slot[s].carried

FoundRole(s) == role[slot[s].user]

\* Refresh's FindByID: the new tokens are made from the row, not from the claims.
FindForRefresh(s) ==
    /\ Proceed(s, "find", "issue", FoundRole(s))
    /\ UNCHANGED <<role, access, refresh, since>>

\* Mutant: a new token extends the life of the one it follows.
ExtendLife(life, s, ttl) ==
    [life EXCEPT ![slot[s].user] =
        [r \in Roles |-> IF r = slot[s].carried
                         THEN life[slot[s].user][r] + ttl
                         ELSE life[slot[s].user][r]]]

\* generate: ExpiresAt is the time of signing plus the TTL.
Renew(life, s, ttl) ==
    [life EXCEPT ![slot[s].user] =
        [r \in Roles |-> IF r = slot[s].carried
                         THEN ttl ELSE life[slot[s].user][r]]]

GenerateTokenPair(s) ==
    /\ slot[s].at = "issue"
    /\ access' = Renew(access, s, AccessTTL)
    /\ refresh' = Renew(refresh, s, RefreshTTL)
    /\ Leave(s)
    /\ UNCHANGED <<role, since>>

-----------------------------------------------------------------------------
(* PATCH /api/admin/users/{id}/role *)

\* AuthMiddleware: an access token of u that claims role r and has not expired.
Authenticate(u, r) == access[u][r] > 0

\* RequireRole(admin) looks at the claim.
RequestRoleChange(s, actor, u, r) ==
    /\ Authenticate(actor, "admin")
    /\ Enter(s, "check", u, r, actor)
    /\ UNCHANGED <<role, access, refresh, since>>

FindForUpdate(s) ==
    /\ Proceed(s, "check", "update", slot[s].carried)
    /\ UNCHANGED <<role, access, refresh, since>>

SetRole(u, r) ==
    /\ role' = [role EXCEPT ![u] = r]
    /\ since' = [since EXCEPT ![u] = IF role[u] = r THEN since[u] ELSE 0]

\* UpdateRole writes unconditionally, whatever FindByID has seen: the last of
\* two admins wins, and the last admin can remove the role from himself.
UpdateRole(s) ==
    /\ slot[s].at = "update"
    /\ SetRole(slot[s].user, slot[s].carried)
    /\ Leave(s)
    /\ UNCHANGED <<access, refresh>>

\* A statement returns an error, or the client goes and its context with it.
Fail(s) ==
    /\ Busy(s) /\ slot[s].at # "issue"
    /\ Leave(s)
    /\ UNCHANGED <<role, access, refresh, since>>

\* cmd/createadmin, run by the operator on an account that exists.
Promote(u) ==
    /\ SetRole(u, "admin")
    /\ UNCHANGED <<access, refresh, slot>>

-----------------------------------------------------------------------------
(* Time *)

Less(n) == IF n = 0 THEN 0 ELSE n - 1

Tick ==
    /\ \A s \in Slots : Busy(s) => slot[s].age < MaxLatency
    /\ access' = [u \in Users |-> [r \in Roles |-> Less(access[u][r])]]
    /\ refresh' = [u \in Users |-> [r \in Roles |-> Less(refresh[u][r])]]
    /\ since' = [u \in Users |->
          IF since[u] < SinceBound THEN since[u] + 1 ELSE since[u]]
    /\ slot' = [s \in Slots |->
          IF Busy(s)
          THEN [at |-> slot[s].at, age |-> slot[s].age + 1,
                user |-> slot[s].user, carried |-> slot[s].carried,
                actor |-> slot[s].actor]
          ELSE Free]
    /\ UNCHANGED role

Start(s) ==
    \E u \in Users :
        \/ Login(s, u)
        \/ \E r \in Roles : VerifyRefreshToken(s, u, r)
        \/ \E actor \in Users, r \in Roles : RequestRoleChange(s, actor, u, r)

Finish(s) ==
    \/ FindForRefresh(s) \/ GenerateTokenPair(s)
    \/ FindForUpdate(s) \/ UpdateRole(s) \/ Fail(s)

Next ==
    \/ \E s \in Slots : Start(s) \/ Finish(s)
    \/ \E u \in Users : Promote(u)
    \/ Tick

Spec == Init /\ [][Next]_vars

\* The clock runs, and the database answers, so a request under way ends.
FairSpec == Spec /\ WF_vars(Tick) /\ \A s \in Slots : WF_vars(Finish(s))

-----------------------------------------------------------------------------
(* Properties *)

TypeOK ==
    /\ role \in [Users -> Roles]
    /\ access \in [Users -> [Roles -> 0 .. AccessTTL]]
    /\ refresh \in [Users -> [Roles -> 0 .. RefreshTTL]]
    /\ slot \in [Slots -> Request \cup {Free}]
    /\ since \in [Users -> 0 .. SinceBound]

\* How long a role that was taken away stays in use: an access token claims a
\* role its account no longer has only while it can have been read before the
\* change, that is until AccessTTL and one request after it.  Refreshing does
\* not prolong it, however often and whenever it happens.
StaleRolesExpire ==
    \A u \in Users, r \in Roles : access[u][r] > 0 /\ r # role[u] =>
        since[u] + access[u][r] <= AccessTTL + MaxLatency

\* Nobody changes a role who was not an admin at most AccessTTL and two requests
\* ago, although the routes never look at the users table.
OnlyRecentAdminsChangeRoles ==
    \A s \in Slots : Busy(s) /\ slot[s].at \in {"check", "update"} =>
        \/ role[slot[s].actor] = "admin"
        \/ since[slot[s].actor] < AccessTTL + 2 * MaxLatency

\* When the role of an account has settled, in the end no token opens a door of
\* another role, even if its client refreshes for ever.
RolesConverge ==
    \A u \in Users, r \in Roles :
        <>[](role[u] = r) =>
            <>[](\A other \in Roles \ {r} : access[u][other] = 0)

-----------------------------------------------------------------------------
(* The inductive invariant behind the theorems of Sessions_proofs *)

\* What a request carries is stale for no longer than the request has lasted,
\* and an admin's claim for no longer than the token allowed when it was shown.
CarriedIsRecent ==
    \A s \in Slots : Busy(s) =>
        /\ slot[s].at = "issue" /\ slot[s].carried # role[slot[s].user] =>
              since[slot[s].user] <= slot[s].age
        /\ slot[s].at \in {"check", "update"} /\ role[slot[s].actor] # "admin" =>
              since[slot[s].actor] < AccessTTL + MaxLatency + slot[s].age

IndInv == TypeOK /\ StaleRolesExpire /\ CarriedIsRecent
=============================================================================
