------------------------------ MODULE Authority ------------------------------
(***************************************************************************)
(* What the API promises of its accounts, however requests overlap and     *)
(* whatever they have read before: an address is registered once and as a  *)
(* viewer, the operator makes admins, and every other role comes from an   *)
(* account that has been an admin itself.  No account goes away.           *)
(* AccessControl implements this specification.                            *)
(***************************************************************************)
CONSTANTS
    Emails      \* the accounts, by address

VARIABLES
    role,       \* users.role, or "none"
    held,       \* the roles an account has had
    operator,   \* the accounts the operator has made admins
    changed     \* the accounts whose role an admin has set

vars == <<role, held, operator, changed>>

Roles == {"admin", "analyst", "viewer"}

Init ==
    /\ role = [e \in Emails |-> "none"]
    /\ held = [e \in Emails |-> {}]
    /\ operator = {} /\ changed = {}

Become(e, r) ==
    /\ role' = [role EXCEPT ![e] = r]
    /\ held' = [held EXCEPT ![e] = @ \cup {r}]

Register(e) ==
    /\ role[e] = "none"
    /\ Become(e, "viewer")
    /\ UNCHANGED <<operator, changed>>

MakeAdmin(e) ==
    /\ Become(e, "admin")
    /\ operator' = operator \cup {e}
    /\ UNCHANGED changed

Grant(by, e, r) ==
    /\ "admin" \in held[by] /\ role[e] # "none"
    /\ Become(e, r)
    /\ changed' = changed \cup {e}
    /\ UNCHANGED operator

Next ==
    \E e \in Emails :
        \/ Register(e) \/ MakeAdmin(e)
        \/ \E by \in Emails, r \in Roles : Grant(by, e, r)

Spec == Init /\ [][Next]_vars
=============================================================================
