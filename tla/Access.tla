-------------------------------- MODULE Access --------------------------------
(***************************************************************************)
(* What a caller may do is decided on the claims in an access token, which *)
(* is a copy of the membership and of the plan made when the token was     *)
(* signed; the tables it copies go on changing.  This module follows the   *)
(* copies of one organization's roles and plan: read for a login, a        *)
(* refresh or an acceptance, signed into a token a little later, checked   *)
(* by the guards, and acted on by a handler a little later still.          *)
(*                                                                         *)
(* Time is a number of ticks.  No clock is kept, only ages: a tick makes   *)
(* every copy older.                                                       *)
(***************************************************************************)
EXTENDS Integers, FiniteSets

CONSTANTS
    Users,         \* users that are, or may come to be, in the organization
    Ttl,           \* JWT_EXPIRES_IN
    SignDelay,     \* most ticks from the read of the claims to the signature
    RequestDelay,  \* most ticks from the guards to the end of the transaction
    InviteRoles,   \* the roles invitations are sent for
    MaxCopies      \* bound: claims being signed, tokens and calls at once

ASSUME AccessAssumption ==
    /\ Ttl \in Nat \ {0}
    /\ SignDelay \in Nat
    /\ RequestDelay \in Nat
    /\ InviteRoles \subseteq {"admin", "member"}

MembershipRole == {"admin", "member"}
Plan == {"free", "pro"}

(* The routes behind RolesGuard, behind PlanGuard, and behind neither. *)
AdminOps == {"role", "plan", "invite", "audit"}
ProOps   == {"export"}
Ops      == AdminOps \cup ProOps \cup {"view"}

(* How long a role or a plan can outlive its end in the tables. *)
Window == SignDelay + Ttl + RequestDelay

VARIABLES
    role,      \* role[u]: the membership of u, "none" without one
    plan,      \* the organization's plan
    signing,   \* claims read from the tables and not signed yet
    tokens,    \* access tokens somebody may present
    calls,     \* calls the guards have admitted
    invited,   \* invitations not accepted yet
    away,      \* away[u]: ticks since u was an admin, at most Window
    gone,      \* ticks since the organization was on pro, at most Window
    again,     \* history: members that accepted an invitation for another role
    demoted    \* history: demoted, and neither an admin nor invited since

vars == <<role, plan, signing, tokens, calls, invited, away, gone, again, demoted>>

Copies(maxAge) ==
    [user : Users, role : MembershipRole, plan : Plan, age : 0..maxAge]

Calls == [user : Users, op : Ops, age : 0..RequestDelay]

Invitations == [user : Users, role : InviteRoles]

Room == Cardinality(signing) + Cardinality(tokens) + Cardinality(calls) < MaxCopies

Claims(u, r) == [user |-> u, role |-> r, plan |-> plan, age |-> 0]

Init ==
    /\ role \in [Users -> MembershipRole \cup {"none"}]
    /\ \E u \in Users : role[u] = "admin"
    /\ plan \in Plan
    /\ signing = {} /\ tokens = {} /\ calls = {} /\ invited = {}
    /\ away = [u \in Users |-> IF role[u] = "admin" THEN 0 ELSE Window]
    /\ gone = IF plan = "pro" THEN 0 ELSE Window
    /\ again = {}
    /\ demoted = {}

(* Faulty variant: a refresh carries over the role of the token it renews. *)
ReadClaims_FromToken(u) ==
    /\ Room
    /\ role[u] # "none"
    /\ \E r \in {role[u]} \cup {t.role : t \in {x \in tokens : x.user = u}} :
          signing' = signing \cup {Claims(u, r)}
    /\ UNCHANGED <<role, plan, tokens, calls, invited, away, gone, again, demoted>>

-----------------------------------------------------------------------------
(* login and refresh: auth_login_lookup and auth_consume_refresh_token     *)
(* return the membership and the plan of the moment.                       *)
ReadClaims(u) ==
    /\ Room
    /\ role[u] # "none"
    /\ signing' = signing \cup {Claims(u, role[u])}
    /\ UNCHANGED <<role, plan, tokens, calls, invited, away, gone, again, demoted>>

(* acceptInvitation: the membership is inserted unless there is one, and   *)
(* the claims carry the role of the invitation either way.                 *)
AcceptInvitation(i) ==
    /\ Room
    /\ invited' = invited \ {i}
    /\ role' = IF role[i.user] = "none" THEN [role EXCEPT ![i.user] = i.role]
               ELSE role
    /\ away' = IF role'[i.user] = "admin" THEN [away EXCEPT ![i.user] = 0]
               ELSE away
    /\ again' = IF role'[i.user] # i.role THEN again \cup {i.user} ELSE again
    /\ signing' = signing \cup {Claims(i.user, i.role)}
    /\ UNCHANGED <<plan, tokens, calls, gone, demoted>>

(* issueTokenPair: signAsync dates the token, which starts its life. *)
Sign(s) ==
    /\ signing' = signing \ {s}
    /\ tokens'  = tokens \cup {[s EXCEPT !.age = 0]}
    /\ UNCHANGED <<role, plan, calls, invited, away, gone, again, demoted>>

(* A wrong password, or a failed audit row, before the token is signed. *)
SignFails(s) ==
    /\ signing' = signing \ {s}
    /\ UNCHANGED <<role, plan, tokens, calls, invited, away, gone, again, demoted>>

(* RolesGuard and PlanGuard compare the route with the token's claims. *)
RolesGuard(t, op) == op \in AdminOps => t.role = "admin"
PlanGuard(t, op)  == op \in ProOps => t.plan = "pro"

(* Faulty variant: verify does not look at the expiry. *)
Admit_Expired(t, op) ==
    /\ Room
    /\ RolesGuard(t, op) /\ PlanGuard(t, op)
    /\ calls' = calls \cup {[user |-> t.user, op |-> op, age |-> 0]}
    /\ UNCHANGED <<role, plan, signing, tokens, invited, away, gone, again, demoted>>

(* TenantGuard verifies the token, whose claims the other guards ask. *)
Admit(t, op) ==
    /\ Room
    /\ t.age < Ttl
    /\ RolesGuard(t, op) /\ PlanGuard(t, op)
    /\ calls' = calls \cup {[user |-> t.user, op |-> op, age |-> 0]}
    /\ UNCHANGED <<role, plan, signing, tokens, invited, away, gone, again, demoted>>

(* PATCH /memberships/:id, in one step: RoleChange has its statements. *)
UpdateRole(c, m, w) ==
    /\ c.op = "role"
    /\ calls' = calls \ {c}
    /\ role[m] # "none"
    /\ role[m] = "admin" /\ w = "member" =>
          \E u \in Users \ {m} : role[u] = "admin"
    /\ role' = [role EXCEPT ![m] = w]
    /\ away' = IF w = "admin" THEN [away EXCEPT ![m] = 0] ELSE away
    /\ demoted' = IF w = "admin" THEN demoted \ {m}
                  ELSE IF role[m] = "admin" THEN demoted \cup {m} ELSE demoted
    /\ UNCHANGED <<plan, signing, tokens, invited, gone, again>>

(* PATCH /organizations/plan. *)
UpdatePlan(c, p) ==
    /\ c.op = "plan"
    /\ calls' = calls \ {c}
    /\ plan' = p
    /\ gone' = IF p = "pro" THEN 0 ELSE gone
    /\ UNCHANGED <<role, signing, tokens, invited, away, again, demoted>>

(* POST /organizations/invitations: nothing asks whether the email has an  *)
(* account, a membership or another invitation already.                    *)
CreateInvitation(c, i) ==
    /\ c.op = "invite"
    /\ calls' = calls \ {c}
    /\ invited' = invited \cup {i}
    /\ demoted' = demoted \ {i.user}
    /\ UNCHANGED <<role, plan, signing, tokens, away, gone, again>>

(* The reads, and the calls refused or rolled back, change nothing. *)
Answer(c) ==
    /\ calls' = calls \ {c}
    /\ UNCHANGED <<role, plan, signing, tokens, invited, away, gone, again, demoted>>

(* An older copy; a count that has reached Window stays there. *)
Older(S)   == {[x EXCEPT !.age = @ + 1] : x \in S}
Longer(n)  == IF n < Window THEN n + 1 ELSE n

(* Faulty variant: a request is never given up. *)
Tick_NoTimeout ==
    /\ \A s \in signing : s.age < SignDelay
    /\ signing' = Older(signing)
    /\ tokens'  = Older({t \in tokens : t.age < Ttl})
    /\ calls'   = Older(calls)
    /\ away' = [u \in Users |-> IF role[u] = "admin" THEN 0 ELSE Longer(away[u])]
    /\ gone' = IF plan = "pro" THEN 0 ELSE Longer(gone)
    /\ UNCHANGED <<role, plan, invited, again, demoted>>

(* A tick.  What has a deadline has met it; a dead token is forgotten. *)
Tick ==
    /\ \A s \in signing : s.age < SignDelay
    /\ \A c \in calls : c.age < RequestDelay
    /\ signing' = Older(signing)
    /\ tokens'  = Older({t \in tokens : t.age < Ttl})
    /\ calls'   = Older(calls)
    /\ away' = [u \in Users |-> IF role[u] = "admin" THEN 0 ELSE Longer(away[u])]
    /\ gone' = IF plan = "pro" THEN 0 ELSE Longer(gone)
    /\ UNCHANGED <<role, plan, invited, again, demoted>>

Next ==
    \/ \E u \in Users : ReadClaims(u)
    \/ \E i \in invited : AcceptInvitation(i)
    \/ \E s \in signing : Sign(s) \/ SignFails(s)
    \/ \E t \in tokens, op \in Ops : Admit(t, op)
    \/ \E c \in calls :
          \/ \E m \in Users, w \in MembershipRole : UpdateRole(c, m, w)
          \/ \E p \in Plan : UpdatePlan(c, p)
          \/ \E i \in Invitations : CreateInvitation(c, i)
          \/ Answer(c)
    \/ Tick

Spec == Init /\ [][Next]_vars

-----------------------------------------------------------------------------
(* Nothing outlives its time: claims are signed, tokens are forgotten and  *)
(* calls are answered at an age no greater than they may reach.            *)
TypeOK ==
    /\ role \in [Users -> MembershipRole \cup {"none"}]
    /\ plan \in Plan
    /\ signing \subseteq Copies(SignDelay)
    /\ tokens \subseteq Copies(Ttl)
    /\ calls \subseteq Calls
    /\ invited \subseteq Invitations
    /\ away \in [Users -> 0..Window]
    /\ gone \in 0..Window
    /\ again \subseteq Users /\ demoted \subseteq Users

(* An admin's call is under way only while its caller is an admin or was   *)
(* one less than the window ago, unless the caller has accepted an         *)
(* invitation that gave no membership.                                     *)
AdminWindow ==
    \A c \in calls : c.op \in AdminOps /\ c.user \notin again =>
        away[c.user] < Window

(* The same of the plan, for every caller: an export runs only while the   *)
(* organization is on pro or was less than the window ago.                 *)
ProWindow == \A c \in calls : c.op \in ProOps => gone < Window

(* "Somebody demoted keeps the old role until the token expires or is      *)
(* refreshed", as docs/threat-model.md has it: who was demoted, and has    *)
(* neither become an admin nor been invited since, makes an admin's call   *)
(* only within the window after the demotion.                              *)
DemotedWithinWindow ==
    \A c \in calls : c.op \in AdminOps /\ c.user \in demoted => away[c.user] < Window
=============================================================================
