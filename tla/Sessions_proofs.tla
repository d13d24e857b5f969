--------------------------- MODULE Sessions_proofs ---------------------------
(***************************************************************************)
(* Theorems about Sessions, for any users, any number of requests at once  *)
(* and any lifetimes of the tokens.                                        *)
(***************************************************************************)
EXTENDS Sessions, TLAPS

\* A slot is free, or holds a request at one of its four steps.
LEMMA SlotShape ==
    ASSUME TypeOK, NEW s \in Slots
    PROVE /\ Busy(s) => slot[s] \in Request
          /\ ~Busy(s) => slot[s] = Free
          /\ slot[s].at # "free" => Busy(s)
  BY DEF TypeOK, Busy, Free, Request

LEMMA EnterTyped ==
    ASSUME TypeOK, NEW s \in Slots, NEW at \in {"find", "issue", "check"},
           NEW u \in Users, NEW r \in Roles, NEW actor \in Users,
           Enter(s, at, u, r, actor)
    PROVE slot' \in [Slots -> Request \cup {Free}]
  <1>1. [at |-> at, age |-> 0, user |-> u, carried |-> r, actor |-> actor]
            \in Request
    BY SessionsAssumption DEF Request
  <1> QED BY <1>1 DEF Enter, TypeOK

LEMMA ProceedTyped ==
    ASSUME TypeOK, NEW s \in Slots, NEW from \in {"find", "check"},
           NEW to \in {"issue", "update"}, NEW r \in Roles,
           Proceed(s, from, to, r)
    PROVE slot' \in [Slots -> Request \cup {Free}]
  <1>1. slot[s] \in Request
    BY SlotShape DEF Proceed
  <1>2. [at |-> to, age |-> slot[s].age, user |-> slot[s].user,
         carried |-> r, actor |-> slot[s].actor] \in Request
    BY <1>1 DEF Request
  <1> QED BY <1>2 DEF Proceed, TypeOK

LEMMA LeaveTyped ==
    ASSUME TypeOK, NEW s \in Slots, Leave(s)
    PROVE slot' \in [Slots -> Request \cup {Free}]
  BY DEF Leave, TypeOK

-----------------------------------------------------------------------------
(* Type correctness *)

LEMMA TypeInit == Init => TypeOK
  BY SessionsAssumption DEF Init, TypeOK, SinceBound

LEMMA TypeNext == TypeOK /\ [Next]_vars => TypeOK'
  <1> SUFFICES ASSUME TypeOK, [Next]_vars PROVE TypeOK'
    OBVIOUS
  <1> USE SessionsAssumption
  <1>1. ASSUME NEW s \in Slots, NEW u \in Users, Login(s, u) PROVE TypeOK'
    <2>1. role[u] \in Roles
      BY DEF TypeOK
    <2>2. slot' \in [Slots -> Request \cup {Free}]
      BY <1>1, <2>1, EnterTyped DEF Login
    <2> QED BY <1>1, <2>2 DEF Login, TypeOK
  <1>2. ASSUME NEW s \in Slots, NEW u \in Users, NEW r \in Roles,
               VerifyRefreshToken(s, u, r)
        PROVE TypeOK'
    <2>1. slot' \in [Slots -> Request \cup {Free}]
      BY <1>2, EnterTyped DEF VerifyRefreshToken
    <2> QED BY <1>2, <2>1 DEF VerifyRefreshToken, TypeOK
  <1>3. ASSUME NEW s \in Slots, NEW u \in Users, NEW actor \in Users,
               NEW r \in Roles, RequestRoleChange(s, actor, u, r)
        PROVE TypeOK'
    <2>1. slot' \in [Slots -> Request \cup {Free}]
      BY <1>3, EnterTyped DEF RequestRoleChange
    <2> QED BY <1>3, <2>1 DEF RequestRoleChange, TypeOK
  <1>4. ASSUME NEW s \in Slots, FindForRefresh(s) PROVE TypeOK'
    <2>1. slot[s] \in Request
      BY <1>4, SlotShape DEF FindForRefresh, Proceed
    <2>2. FoundRole(s) \in Roles
      BY <2>1 DEF FoundRole, Request, TypeOK
    <2>3. slot' \in [Slots -> Request \cup {Free}]
      BY <1>4, <2>2, ProceedTyped DEF FindForRefresh
    <2> QED BY <1>4, <2>3 DEF FindForRefresh, TypeOK
  <1>5. ASSUME NEW s \in Slots, GenerateTokenPair(s) PROVE TypeOK'
    <2>1. slot[s] \in Request
      BY <1>5, SlotShape DEF GenerateTokenPair
    <2>2. slot' \in [Slots -> Request \cup {Free}]
      BY <1>5, LeaveTyped DEF GenerateTokenPair
    <2>3. /\ access' \in [Users -> [Roles -> 0 .. AccessTTL]]
          /\ refresh' \in [Users -> [Roles -> 0 .. RefreshTTL]]
      BY <1>5, <2>1 DEF GenerateTokenPair, Renew, TypeOK, Request
    <2> QED BY <1>5, <2>2, <2>3 DEF GenerateTokenPair, TypeOK
  <1>6. ASSUME NEW s \in Slots, FindForUpdate(s) PROVE TypeOK'
    <2>1. slot[s] \in Request
      BY <1>6, SlotShape DEF FindForUpdate, Proceed
    <2>2. slot[s].carried \in Roles
      BY <2>1 DEF Request
    <2>3. slot' \in [Slots -> Request \cup {Free}]
      BY <1>6, <2>2, ProceedTyped DEF FindForUpdate
    <2> QED BY <1>6, <2>3 DEF FindForUpdate, TypeOK
  <1>7. ASSUME NEW u \in Users, NEW r \in Roles, SetRole(u, r)
        PROVE role' \in [Users -> Roles] /\ since' \in [Users -> 0 .. SinceBound]
    BY <1>7 DEF SetRole, TypeOK, SinceBound
  <1>8. ASSUME NEW s \in Slots, UpdateRole(s) PROVE TypeOK'
    <2>1. slot[s] \in Request
      BY <1>8, SlotShape DEF UpdateRole
    <2>2. slot' \in [Slots -> Request \cup {Free}]
      BY <1>8, LeaveTyped DEF UpdateRole
    <2>3. slot[s].user \in Users /\ slot[s].carried \in Roles
      BY <2>1 DEF Request
    <2>4. role' \in [Users -> Roles] /\ since' \in [Users -> 0 .. SinceBound]
      BY <1>7, <1>8, <2>3 DEF UpdateRole
    <2> QED BY <1>8, <2>2, <2>4 DEF UpdateRole, TypeOK
  <1>9. ASSUME NEW s \in Slots, Fail(s) PROVE TypeOK'
    BY <1>9, LeaveTyped DEF Fail, TypeOK
  <1>10. ASSUME NEW u \in Users, Promote(u) PROVE TypeOK'
    <2>1. role' \in [Users -> Roles] /\ since' \in [Users -> 0 .. SinceBound]
      BY <1>7, <1>10 DEF Promote, Roles
    <2> QED BY <1>10, <2>1 DEF Promote, TypeOK
  <1>11. CASE Tick
    <2>1. /\ access' \in [Users -> [Roles -> 0 .. AccessTTL]]
          /\ refresh' \in [Users -> [Roles -> 0 .. RefreshTTL]]
      <3>1. ASSUME NEW ttl \in Nat, NEW n \in 0 .. ttl PROVE Less(n) \in 0 .. ttl
        BY DEF Less
      <3>2. \A u \in Users, r \in Roles :
                /\ Less(access[u][r]) \in 0 .. AccessTTL
                /\ Less(refresh[u][r]) \in 0 .. RefreshTTL
        BY <3>1 DEF TypeOK
      <3> QED BY <1>11, <3>2 DEF Tick
    <2>2. since' \in [Users -> 0 .. SinceBound]
      BY <1>11 DEF Tick, TypeOK, SinceBound
    <2>3. ASSUME NEW s \in Slots, Busy(s)
          PROVE [at |-> slot[s].at, age |-> slot[s].age + 1,
                 user |-> slot[s].user, carried |-> slot[s].carried,
                 actor |-> slot[s].actor] \in Request
      <3>1. slot[s] \in Request /\ slot[s].age < MaxLatency
        BY <1>11, <2>3, SlotShape DEF Tick
      <3> QED BY <3>1 DEF Request
    <2>4. slot' \in [Slots -> Request \cup {Free}]
      BY <1>11, <2>3 DEF Tick
    <2> QED BY <1>11, <2>1, <2>2, <2>4 DEF Tick, TypeOK
  <1>12. CASE UNCHANGED vars
    BY <1>12 DEF vars, TypeOK
  <1> QED BY <1>1, <1>2, <1>3, <1>4, <1>5, <1>6, <1>8, <1>9, <1>10, <1>11, <1>12
          DEF Next, Start, Finish

\* The state stays in the types the code's rows and claims have.
THEOREM SessionsTyped == Spec => []TypeOK
  BY TypeInit, TypeNext, PTL DEF Spec

-----------------------------------------------------------------------------
(* Staleness.  A stale claim has three places to be: in a token, in a request *)
(* that has read the row and not signed yet, and in a request that was let in *)
(* on the token.  Each hands its age on to the next.                          *)

LEMMA StaleInit == Init => IndInv
  BY TypeInit DEF Init, IndInv, StaleRolesExpire, CarriedIsRecent, Busy

\* A request that enters: its claim is fresh, or as old as the token shown.
LEMMA StaleEnter ==
    ASSUME IndInv, TypeOK', NEW s \in Slots, NEW u \in Users, NEW r \in Roles,
           NEW actor \in Users, NEW at \in {"find", "issue", "check"},
           Enter(s, at, u, r, actor),
           at = "issue" => r = role[u],
           at = "check" => access[actor]["admin"] > 0,
           UNCHANGED <<role, access, refresh, since>>
    PROVE IndInv'
  <1> USE SessionsAssumption DEF IndInv
  <1>1. StaleRolesExpire'
    BY DEF StaleRolesExpire
  <1>2. at = "check" /\ role[actor] # "admin" =>
            since[actor] < AccessTTL + MaxLatency + 0
    <2>1. /\ since[actor] \in Nat /\ access[actor]["admin"] \in Nat
          /\ "admin" \in Roles
      BY DEF TypeOK, Roles
    <2> QED BY <2>1 DEF StaleRolesExpire
  <1>3. slot'[s] = [at |-> at, age |-> 0, user |-> u, carried |-> r,
                    actor |-> actor]
    BY DEF Enter, TypeOK
  <1>4. \A t \in Slots \ {s} : slot'[t] = slot[t]
    BY DEF Enter, TypeOK
  <1>5. since[u] \in Nat
    BY DEF TypeOK
  <1>6. ASSUME NEW t \in Slots, Busy(t)'
        PROVE (/\ slot[t].at = "issue" /\ slot[t].carried # role[slot[t].user] =>
                     since[slot[t].user] <= slot[t].age
               /\ slot[t].at \in {"check", "update"}
                     /\ role[slot[t].actor] # "admin" =>
                     since[slot[t].actor] < AccessTTL + MaxLatency + slot[t].age)'
    <2>1. CASE t = s
      BY <1>2, <1>3, <1>5, <2>1
    <2>2. CASE t # s
      BY <1>4, <1>6, <2>2 DEF CarriedIsRecent, Busy
    <2> QED BY <2>1, <2>2
  <1> QED BY <1>1, <1>6 DEF CarriedIsRecent

\* A request that leaves takes its claim with it.
LEMMA CarriedLeave ==
    ASSUME IndInv, NEW s \in Slots, Leave(s), UNCHANGED <<role, since>>
    PROVE CarriedIsRecent'
  BY DEF IndInv, TypeOK, Leave, CarriedIsRecent, Busy

\* A role that changes starts the clock of everything that still claims it.
LEMMA StaleSet ==
    ASSUME IndInv, NEW u \in Users, NEW r \in Roles, SetRole(u, r),
           UNCHANGED access
    PROVE /\ StaleRolesExpire'
          /\ slot' = slot => CarriedIsRecent'
          /\ \A s \in Slots : Leave(s) => CarriedIsRecent'
  <1> USE SessionsAssumption DEF IndInv
  <1>1. \A x \in Users : \/ role'[x] = role[x] /\ since'[x] = since[x]
                         \/ since'[x] = 0
    BY DEF SetRole, TypeOK
  <1>2. StaleRolesExpire'
    BY <1>1 DEF StaleRolesExpire, TypeOK
  <1>3. \A s \in Slots : Busy(s) =>
            slot[s].user \in Users /\ slot[s].actor \in Users /\ slot[s].age \in Nat
    BY SlotShape DEF Request
  <1>4. ASSUME NEW s \in Slots, Busy(s)
        PROVE /\ slot[s].at = "issue" /\ slot[s].carried # role'[slot[s].user] =>
                    since'[slot[s].user] <= slot[s].age
              /\ slot[s].at \in {"check", "update"}
                    /\ role'[slot[s].actor] # "admin" =>
                    since'[slot[s].actor] < AccessTTL + MaxLatency + slot[s].age
    BY <1>1, <1>3, <1>4 DEF CarriedIsRecent
  <1>5. slot' = slot => CarriedIsRecent'
    BY <1>4 DEF CarriedIsRecent, Busy
  <1>6. ASSUME NEW s \in Slots, Leave(s) PROVE CarriedIsRecent'
    BY <1>4, <1>6 DEF CarriedIsRecent, Busy, Leave, TypeOK
  <1> QED BY <1>2, <1>5, <1>6

LEMMA StaleTick == IndInv /\ Tick => StaleRolesExpire' /\ CarriedIsRecent'
  <1> SUFFICES ASSUME IndInv, Tick PROVE StaleRolesExpire' /\ CarriedIsRecent'
    OBVIOUS
  <1> USE SessionsAssumption DEF IndInv
  <1>1. \A u \in Users : since'[u] \in Nat /\ since'[u] <= since[u] + 1
    BY DEF Tick, TypeOK, SinceBound
  <1>2. \A u \in Users, r \in Roles :
            access'[u][r] > 0 => access'[u][r] = access[u][r] - 1 /\ access[u][r] > 0
    BY DEF Tick, Less, TypeOK
  <1>3. StaleRolesExpire'
    <2> SUFFICES ASSUME NEW u \in Users, NEW r \in Roles,
                        access'[u][r] > 0, r # role'[u]
                 PROVE since'[u] + access'[u][r] <= AccessTTL + MaxLatency
      BY DEF StaleRolesExpire
    <2>1. since[u] + access[u][r] <= AccessTTL + MaxLatency
      BY <1>2 DEF StaleRolesExpire, Tick
    <2>2. since[u] \in Nat /\ access[u][r] \in Nat
      BY DEF TypeOK
    <2> QED BY <1>1, <1>2, <2>1, <2>2
  <1>4. CarriedIsRecent'
    <2> SUFFICES ASSUME NEW s \in Slots, Busy(s)'
                 PROVE (/\ slot[s].at = "issue"
                             /\ slot[s].carried # role[slot[s].user] =>
                             since[slot[s].user] <= slot[s].age
                        /\ slot[s].at \in {"check", "update"}
                             /\ role[slot[s].actor] # "admin" =>
                             since[slot[s].actor] <
                                 AccessTTL + MaxLatency + slot[s].age)'
      BY DEF CarriedIsRecent
    <2>1. Busy(s)
      BY DEF Tick, Busy, Free
    <2>2. slot[s] \in Request
      BY <2>1, SlotShape
    <2>3. slot'[s] = [at |-> slot[s].at, age |-> slot[s].age + 1,
                      user |-> slot[s].user, carried |-> slot[s].carried,
                      actor |-> slot[s].actor]
      BY <2>1 DEF Tick
    <2>4. /\ slot[s].user \in Users /\ slot[s].actor \in Users
          /\ slot[s].age \in Nat
          /\ since[slot[s].user] \in Nat /\ since[slot[s].actor] \in Nat
      BY <2>2 DEF Request, TypeOK
    <2>5. role' = role
      BY DEF Tick
    <2>6. /\ since'[slot[s].user] <= since[slot[s].user] + 1
          /\ since'[slot[s].actor] <= since[slot[s].actor] + 1
          /\ since'[slot[s].user] \in Nat /\ since'[slot[s].actor] \in Nat
      BY <1>1, <2>4
    <2>7. /\ slot[s].at = "issue" /\ slot[s].carried # role[slot[s].user] =>
                since[slot[s].user] <= slot[s].age
          /\ slot[s].at \in {"check", "update"} /\ role[slot[s].actor] # "admin" =>
                since[slot[s].actor] < AccessTTL + MaxLatency + slot[s].age
      BY <2>1 DEF CarriedIsRecent
    <2>8. /\ slot'[s].at = slot[s].at /\ slot'[s].age = slot[s].age + 1
          /\ slot'[s].user = slot[s].user /\ slot'[s].carried = slot[s].carried
          /\ slot'[s].actor = slot[s].actor
      BY <2>3
    <2> QED BY <2>4, <2>5, <2>6, <2>7, <2>8
  <1> QED BY <1>3, <1>4

LEMMA StaleNext == IndInv /\ [Next]_vars => IndInv'
  <1> SUFFICES ASSUME IndInv, [Next]_vars PROVE IndInv'
    OBVIOUS
  <1> USE SessionsAssumption
  <1>0. TypeOK /\ TypeOK'
    BY TypeNext DEF IndInv
  <1>1. ASSUME NEW s \in Slots, NEW u \in Users, Login(s, u) PROVE IndInv'
    <2>1. role[u] \in Roles
      BY <1>0 DEF TypeOK
    <2> QED BY <1>0, <1>1, <2>1, StaleEnter DEF Login
  <1>2. ASSUME NEW s \in Slots, NEW u \in Users, NEW r \in Roles,
               VerifyRefreshToken(s, u, r)
        PROVE IndInv'
    BY <1>0, <1>2, StaleEnter DEF VerifyRefreshToken
  <1>3. ASSUME NEW s \in Slots, NEW u \in Users, NEW actor \in Users,
               NEW r \in Roles, RequestRoleChange(s, actor, u, r)
        PROVE IndInv'
    BY <1>0, <1>3, StaleEnter DEF RequestRoleChange, Authenticate
  <1>4. ASSUME NEW s \in Slots, FindForRefresh(s) PROVE IndInv'
    <2>1. slot'[s].at = "issue" /\ slot'[s].carried = role[slot'[s].user]
      BY <1>0, <1>4 DEF FindForRefresh, Proceed, FoundRole, TypeOK
    <2>2. \A t \in Slots \ {s} : slot'[t] = slot[t]
      BY <1>0, <1>4 DEF FindForRefresh, Proceed, TypeOK
    <2>3. CarriedIsRecent'
      BY <1>4, <2>1, <2>2 DEF CarriedIsRecent, FindForRefresh, Busy, IndInv
    <2>4. StaleRolesExpire'
      BY <1>4 DEF StaleRolesExpire, FindForRefresh, IndInv
    <2> QED BY <1>0, <2>3, <2>4 DEF IndInv
  <1>5. ASSUME NEW s \in Slots, GenerateTokenPair(s) PROVE IndInv'
    <2>1. slot[s] \in Request /\ Busy(s) /\ slot[s].at = "issue"
      BY <1>0, <1>5, SlotShape DEF GenerateTokenPair
    <2>2. slot[s].carried # role[slot[s].user] =>
              since[slot[s].user] <= MaxLatency
      <3>1. slot[s].age <= MaxLatency /\ slot[s].age \in Nat
            /\ since[slot[s].user] \in Nat
        BY <1>0, <2>1 DEF Request, TypeOK
      <3> QED BY <2>1, <3>1 DEF IndInv, CarriedIsRecent
    <2>3. StaleRolesExpire'
      <3> SUFFICES ASSUME NEW u \in Users, NEW r \in Roles,
                          access'[u][r] > 0, r # role[u]
                   PROVE since[u] + access'[u][r] <= AccessTTL + MaxLatency
        BY <1>5 DEF StaleRolesExpire, GenerateTokenPair
      <3>1. \/ access'[u][r] = access[u][r]
            \/ /\ u = slot[s].user /\ r = slot[s].carried
               /\ access'[u][r] = AccessTTL
        BY <1>0, <1>5, <2>1 DEF GenerateTokenPair, Renew, TypeOK
      <3>2. since[u] \in Nat
        BY <1>0 DEF TypeOK
      <3> QED BY <2>2, <3>1, <3>2 DEF IndInv, StaleRolesExpire
    <2>4. CarriedIsRecent'
      BY <1>5, CarriedLeave DEF GenerateTokenPair
    <2> QED BY <1>0, <2>3, <2>4 DEF IndInv
  <1>6. ASSUME NEW s \in Slots, FindForUpdate(s) PROVE IndInv'
    <2>1. /\ slot[s].at = "check" /\ Busy(s)
          /\ slot'[s].at = "update" /\ slot'[s].actor = slot[s].actor
          /\ slot'[s].age = slot[s].age
      BY <1>0, <1>6, SlotShape DEF FindForUpdate, Proceed, TypeOK
    <2>2. \A t \in Slots \ {s} : slot'[t] = slot[t]
      BY <1>0, <1>6 DEF FindForUpdate, Proceed, TypeOK
    <2>3. CarriedIsRecent'
      BY <1>6, <2>1, <2>2 DEF CarriedIsRecent, FindForUpdate, Busy, IndInv
    <2>4. StaleRolesExpire'
      BY <1>6 DEF StaleRolesExpire, FindForUpdate, IndInv
    <2> QED BY <1>0, <2>3, <2>4 DEF IndInv
  <1>7. ASSUME NEW s \in Slots, UpdateRole(s) PROVE IndInv'
    <2>1. slot[s].user \in Users /\ slot[s].carried \in Roles
      BY <1>0, <1>7, SlotShape DEF UpdateRole, Request
    <2> QED BY <1>0, <1>7, <2>1, StaleSet DEF UpdateRole, IndInv
  <1>8. ASSUME NEW s \in Slots, Fail(s) PROVE IndInv'
    <2>1. CarriedIsRecent'
      BY <1>8, CarriedLeave DEF Fail
    <2>2. StaleRolesExpire'
      BY <1>8 DEF StaleRolesExpire, Fail, IndInv
    <2> QED BY <1>0, <2>1, <2>2 DEF IndInv
  <1>9. ASSUME NEW u \in Users, Promote(u) PROVE IndInv'
    BY <1>0, <1>9, StaleSet DEF Promote, IndInv, Roles
  <1>10. CASE Tick
    BY <1>0, <1>10, StaleTick DEF IndInv
  <1>11. CASE UNCHANGED vars
    BY <1>0, <1>11 DEF vars, IndInv, StaleRolesExpire, CarriedIsRecent, Busy
  <1> QED BY <1>1, <1>2, <1>3, <1>4, <1>5, <1>6, <1>7, <1>8, <1>9, <1>10, <1>11
          DEF Next, Start, Finish

\* The invariant that bounds every place a stale claim can be in.
THEOREM SessionsInductive == Spec => []IndInv
  BY StaleInit, StaleNext, PTL DEF Spec

\* A role that was taken away is out of use after AccessTTL and one request.
THEOREM StaleBounded == Spec => []StaleRolesExpire
  BY SessionsInductive, PTL DEF IndInv

\* Only someone who is or lately was an admin gets to write a role.
THEOREM RecentAdmins == Spec => []OnlyRecentAdminsChangeRoles
  <1>1. IndInv => OnlyRecentAdminsChangeRoles
    <2> SUFFICES ASSUME IndInv, NEW s \in Slots, Busy(s),
                        slot[s].at \in {"check", "update"},
                        role[slot[s].actor] # "admin"
                 PROVE since[slot[s].actor] < AccessTTL + 2 * MaxLatency
      BY DEF OnlyRecentAdminsChangeRoles
    <2>1. slot[s].age <= MaxLatency /\ slot[s].age \in Nat
          /\ since[slot[s].actor] \in Nat
      BY SlotShape DEF IndInv, Request, TypeOK
    <2>2. since[slot[s].actor] < AccessTTL + MaxLatency + slot[s].age
      BY DEF IndInv, CarriedIsRecent
    <2> QED BY <2>1, <2>2, SessionsAssumption
  <1> QED BY <1>1, SessionsInductive, PTL

=============================================================================
