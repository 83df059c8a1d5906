----------------------------- MODULE AdminRoster -----------------------------
(***************************************************************************)
(* What one organization's memberships promise their readers: every role   *)
(* change is one indivisible step, decided on the roles as they are at     *)
(* that step, and none takes the role of the last admin away.              *)
(*                                                                         *)
(* RoleChange says how the backend carries such a change out, statement by *)
(* statement inside a Postgres transaction.                                *)
(***************************************************************************)

CONSTANTS
    Members,    \* the users that are, or may come to be, in the organization
    JoinRoles   \* the roles an invitation may carry

VARIABLE role   \* role[m]: "admin", "member", or "none" before m has joined

Admins == {m \in Members : role[m] = "admin"}

Init == /\ role \in [Members -> {"admin", "member", "none"}]
        /\ Admins # {}

(* m gets the role w, unless m is the last admin and would be demoted. *)
Change(m, w) ==
    /\ role[m] # "none"
    /\ w = "member" => Admins \ {m} # {}
    /\ role' = [role EXCEPT ![m] = w]

(* An invited user becomes a member of the organization. *)
Join(m, w) ==
    /\ role[m] = "none"
    /\ role' = [role EXCEPT ![m] = w]

Next == \E m \in Members :
            \/ \E w \in {"admin", "member"} : Change(m, w)
            \/ \E w \in JoinRoles : Join(m, w)

Spec == Init /\ [][Next]_role
=============================================================================
