---------------------------- MODULE AccessProofs ----------------------------
(***************************************************************************)
(* How long claims outlive what they copy, for any number of users and any *)
(* lifetimes and delays: an admin's call and an export are under way only  *)
(* within Window of the last moment they were allowed by the tables.       *)
(***************************************************************************)
EXTENDS Access, TLAPS

(* Type correctness: no copy and no call outlives its deadline. *)
THEOREM TypeCorrect == Spec => []TypeOK
<1> USE AccessAssumption DEF MembershipRole, Plan, Window
<1>1. Init => TypeOK
  BY DEF Init, TypeOK
<1>2. TypeOK /\ [Next]_vars => TypeOK'
  <2> SUFFICES ASSUME TypeOK, [Next]_vars PROVE TypeOK'
    OBVIOUS
  <2> USE DEF TypeOK, Copies, Calls, Invitations
  <2>1. ASSUME NEW u \in Users, ReadClaims(u) PROVE TypeOK'
    <3>1. role[u] \in MembershipRole
      BY <2>1 DEF ReadClaims
    <3>2. Claims(u, role[u]) \in Copies(SignDelay)
      BY <3>1 DEF Claims
    <3> QED
      BY <2>1, <3>2 DEF ReadClaims
  <2>2. ASSUME NEW i \in invited, AcceptInvitation(i) PROVE TypeOK'
    <3>1. i.user \in Users /\ i.role \in MembershipRole
      OBVIOUS
    <3>2. Claims(i.user, i.role) \in Copies(SignDelay)
      BY <3>1 DEF Claims
    <3> QED
      BY <2>2, <3>1, <3>2 DEF AcceptInvitation
  <2>3. ASSUME NEW s \in signing, Sign(s) PROVE TypeOK'
    <3>1. [s EXCEPT !.age = 0] \in Copies(Ttl)
      OBVIOUS
    <3> QED
      BY <2>3, <3>1 DEF Sign
  <2>4. ASSUME NEW s \in signing, SignFails(s) PROVE TypeOK'
    BY <2>4 DEF SignFails
  <2>5. ASSUME NEW t \in tokens, NEW op \in Ops, Admit(t, op) PROVE TypeOK'
    BY <2>5 DEF Admit
  <2>6. ASSUME NEW c \in calls, NEW m \in Users, NEW w \in MembershipRole,
               UpdateRole(c, m, w)
        PROVE  TypeOK'
    BY <2>6 DEF UpdateRole
  <2>7. ASSUME NEW c \in calls, NEW p \in Plan, UpdatePlan(c, p) PROVE TypeOK'
    BY <2>7 DEF UpdatePlan
  <2>8. ASSUME NEW c \in calls, NEW i \in Invitations, CreateInvitation(c, i)
        PROVE  TypeOK'
    BY <2>8 DEF CreateInvitation
  <2>9. ASSUME NEW c \in calls, Answer(c) PROVE TypeOK'
    BY <2>9 DEF Answer
  <2>10. ASSUME Tick PROVE TypeOK'
    <3>1. signing' \subseteq Copies(SignDelay)
      BY <2>10 DEF Tick, Older
    <3>2. tokens' \subseteq Copies(Ttl)
      BY <2>10 DEF Tick, Older
    <3>3. calls' \subseteq Calls
      BY <2>10 DEF Tick, Older
    <3>4. away' \in [Users -> 0..Window] /\ gone' \in 0..Window
      BY <2>10 DEF Tick, Longer
    <3> QED
      BY <2>10, <3>1, <3>2, <3>3, <3>4 DEF Tick
  <2>11. CASE UNCHANGED vars
    BY <2>11 DEF vars
  <2> QED
    BY <2>1, <2>2, <2>3, <2>4, <2>5, <2>6, <2>7, <2>8, <2>9, <2>10, <2>11
    DEF Next
<1> QED
  BY <1>1, <1>2, PTL DEF Spec
-----------------------------------------------------------------------------
(* How far a role can have been lost behind each copy of it: as long ago   *)
(* as the copy was read, and a token was read a SignDelay before its birth.*)
RoleAges ==
    /\ \A u \in Users : role[u] = "admin" => away[u] = 0
    /\ \A s \in signing : s.role = "admin" /\ s.user \notin again =>
          away[s.user] <= s.age
    /\ \A t \in tokens : t.role = "admin" /\ t.user \notin again =>
          away[t.user] <= SignDelay + t.age
    /\ \A c \in calls : c.op \in AdminOps /\ c.user \notin again =>
          away[c.user] < SignDelay + Ttl + c.age

(* The same of the plan, whoever holds the copy. *)
PlanAges ==
    /\ plan = "pro" => gone = 0
    /\ \A s \in signing : s.plan = "pro" => gone <= s.age
    /\ \A t \in tokens : t.plan = "pro" => gone <= SignDelay + t.age
    /\ \A c \in calls : c.op \in ProOps => gone < SignDelay + Ttl + c.age

(* Every step keeps the ages of the roles. *)
LEMMA RoleAgesStep ==
    ASSUME TypeOK, RoleAges, [Next]_vars PROVE RoleAges'
<1> USE AccessAssumption
    DEF TypeOK, RoleAges, Copies, Calls, Invitations, MembershipRole, Window
<1>1. ASSUME NEW u \in Users, ReadClaims(u) PROVE RoleAges'
  BY <1>1 DEF ReadClaims, Claims
<1>2. ASSUME NEW i \in invited, AcceptInvitation(i) PROVE RoleAges'
  <2>1. i.user \in Users /\ i.role \in MembershipRole
    OBVIOUS
  <2>2. \A u \in Users : away'[u] <= away[u] /\ away'[u] \in Int
    BY <1>2, <2>1 DEF AcceptInvitation
  <2>3. again \subseteq again'
    BY <1>2 DEF AcceptInvitation
  <2>4. \A u \in Users : role'[u] = "admin" => away'[u] = 0
    BY <1>2, <2>1 DEF AcceptInvitation
  <2>5. ASSUME NEW s \in signing', s.role = "admin", s.user \notin again'
        PROVE  away'[s.user] <= s.age
    <3>1. CASE s \in signing
      BY <2>2, <2>3, <2>5, <3>1
    <3>2. CASE s = Claims(i.user, i.role)
      <4>1. s.user = i.user /\ s.role = i.role /\ s.age = 0
        BY <3>2 DEF Claims
      <4>2. role'[i.user] = "admin"
        BY <1>2, <2>5, <4>1 DEF AcceptInvitation
      <4> QED
        BY <2>1, <2>4, <4>1, <4>2
    <3> QED
      BY <1>2, <3>1, <3>2 DEF AcceptInvitation
  <2>6. ASSUME NEW t \in tokens', t.role = "admin", t.user \notin again'
        PROVE  away'[t.user] <= SignDelay + t.age
    BY <1>2, <2>2, <2>3, <2>6 DEF AcceptInvitation
  <2>7. ASSUME NEW c \in calls', c.op \in AdminOps, c.user \notin again'
        PROVE  away'[c.user] < SignDelay + Ttl + c.age
    BY <1>2, <2>2, <2>3, <2>7 DEF AcceptInvitation
  <2> QED
    BY <2>4, <2>5, <2>6, <2>7
<1>3. ASSUME NEW s \in signing, Sign(s) PROVE RoleAges'
  BY <1>3 DEF Sign
<1>4. ASSUME NEW s \in signing, SignFails(s) PROVE RoleAges'
  BY <1>4 DEF SignFails
<1>5. ASSUME NEW t \in tokens, NEW op \in Ops, Admit(t, op) PROVE RoleAges'
  BY <1>5 DEF Admit, RolesGuard
<1>6. ASSUME NEW c \in calls, NEW m \in Users, NEW w \in MembershipRole,
             UpdateRole(c, m, w)
      PROVE  RoleAges'
  BY <1>6 DEF UpdateRole
<1>7. ASSUME NEW c \in calls, NEW p \in Plan, UpdatePlan(c, p) PROVE RoleAges'
  BY <1>7 DEF UpdatePlan
<1>8. ASSUME NEW c \in calls, NEW i \in Invitations, CreateInvitation(c, i)
      PROVE  RoleAges'
  BY <1>8 DEF CreateInvitation
<1>9. ASSUME NEW c \in calls, Answer(c) PROVE RoleAges'
  BY <1>9 DEF Answer
<1>10. ASSUME Tick PROVE RoleAges'
  BY <1>10 DEF Tick, Older, Longer
<1>11. CASE UNCHANGED vars
  BY <1>11 DEF vars
<1> QED
  BY <1>1, <1>2, <1>3, <1>4, <1>5, <1>6, <1>7, <1>8, <1>9, <1>10, <1>11
  DEF Next

(* Every step keeps the ages of the plan. *)
LEMMA PlanAgesStep ==
    ASSUME TypeOK, PlanAges, [Next]_vars PROVE PlanAges'
<1> USE AccessAssumption
    DEF TypeOK, PlanAges, Copies, Calls, Plan, Window
<1>1. ASSUME NEW u \in Users, ReadClaims(u) PROVE PlanAges'
  BY <1>1 DEF ReadClaims, Claims
<1>2. ASSUME NEW i \in invited, AcceptInvitation(i) PROVE PlanAges'
  BY <1>2 DEF AcceptInvitation, Claims
<1>3. ASSUME NEW s \in signing, Sign(s) PROVE PlanAges'
  BY <1>3 DEF Sign
<1>4. ASSUME NEW s \in signing, SignFails(s) PROVE PlanAges'
  BY <1>4 DEF SignFails
<1>5. ASSUME NEW t \in tokens, NEW op \in Ops, Admit(t, op) PROVE PlanAges'
  BY <1>5 DEF Admit, PlanGuard
<1>6. ASSUME NEW c \in calls, NEW m \in Users, NEW w \in MembershipRole,
             UpdateRole(c, m, w)
      PROVE  PlanAges'
  BY <1>6 DEF UpdateRole
<1>7. ASSUME NEW c \in calls, NEW p \in Plan, UpdatePlan(c, p) PROVE PlanAges'
  BY <1>7 DEF UpdatePlan
<1>8. ASSUME NEW c \in calls, NEW i \in Invitations, CreateInvitation(c, i)
      PROVE  PlanAges'
  BY <1>8 DEF CreateInvitation
<1>9. ASSUME NEW c \in calls, Answer(c) PROVE PlanAges'
  BY <1>9 DEF Answer
<1>10. ASSUME Tick PROVE PlanAges'
  BY <1>10 DEF Tick, Older, Longer
<1>11. CASE UNCHANGED vars
  BY <1>11 DEF vars
<1> QED
  BY <1>1, <1>2, <1>3, <1>4, <1>5, <1>6, <1>7, <1>8, <1>9, <1>10, <1>11
  DEF Next

(* An admin's call runs within the window after its caller's last moment   *)
(* as an admin, unless the caller has accepted a void invitation.          *)
THEOREM AdminWithinWindow == Spec => []AdminWindow
<1>1. Init => RoleAges
  BY DEF Init, RoleAges
<1>2. TypeOK /\ RoleAges /\ [Next]_vars => RoleAges'
  BY RoleAgesStep
<1>3. TypeOK /\ RoleAges => AdminWindow
  BY AccessAssumption DEF TypeOK, RoleAges, AdminWindow, Calls, Window
<1> QED
  BY <1>1, <1>2, <1>3, TypeCorrect, PTL DEF Spec

(* An export runs within the window after the organization's last moment  *)
(* on pro.                                                                 *)
THEOREM ProWithinWindow == Spec => []ProWindow
<1>1. Init => PlanAges
  BY DEF Init, PlanAges
<1>2. TypeOK /\ PlanAges /\ [Next]_vars => PlanAges'
  BY PlanAgesStep
<1>3. TypeOK /\ PlanAges => ProWindow
  BY AccessAssumption DEF TypeOK, PlanAges, ProWindow, Calls, Window
<1> QED
  BY <1>1, <1>2, <1>3, TypeCorrect, PTL DEF Spec
=============================================================================
