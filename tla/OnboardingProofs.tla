--------------------------- MODULE OnboardingProofs ---------------------------
(***************************************************************************)
(* What registration and invitations promise for any number of people,     *)
(* organizations, invitations and requests in flight: every membership has *)
(* a reason and every reason its membership, so that an organization is    *)
(* there with its founder or not at all, and tokens are for members.       *)
(***************************************************************************)
EXTENDS Onboarding, TLAPS

(* An invitation that was sent is to someone, for something. *)
Sent ==
    \A i \in Invites :
        invitation[i].status # "unsent" =>
            /\ invitation[i].org \in Orgs /\ invitation[i].email \in Emails
            /\ invitation[i].role \in {"admin", "member"}

(* What a request holds between two statements: a registration names an    *)
(* organization and a person; an acceptance holds its invitation as sent,  *)
(* and past the account it has found or made one; who is about to be given *)
(* tokens is a member and was given that role.                             *)
CallOf(r) ==
    LET c == call[r]
    IN  /\ pc[r] = "register" =>
              c.org \in Orgs /\ c.email \in Emails /\ c.role = "admin"
        /\ pc[r] \in Accepting =>
              /\ c.invite \in Invites
              /\ invitation[c.invite].status # "unsent"
              /\ c.org = invitation[c.invite].org
              /\ c.email = invitation[c.invite].email
              /\ c.role = invitation[c.invite].role
        /\ pc[r] \in {"select", "accept"} => c.email \in users
        /\ pc[r] = "issue" =>
              /\ c.org \in Orgs /\ c.email \in Emails /\ c.role \in {"admin", "member"}
              /\ Member(c.org, c.email)
              /\ c.role \in granted[<<c.org, c.email>>]

CallsTrue == \A r \in Requests : CallOf(r)

(* Every role that a member has was given. *)
RolesGranted ==
    \A o \in Orgs, e \in Emails : Member(o, e) => role[<<o, e>>] \in granted[<<o, e>>]

OnboardingInv ==
    /\ TypeOK /\ Sent /\ CallsTrue /\ RolesGranted
    /\ MembersEntitled /\ SessionsOfMembers

-----------------------------------------------------------------------------
(* Who a request acts for, once it can do anything to a table. *)
LEMMA Acting ==
    ASSUME TypeOK, Sent, NEW r \in Requests, CallOf(r),
           pc[r] \in {"register", "issue"} \cup Accepting
    PROVE  /\ call[r].org \in Orgs /\ call[r].email \in Emails
           /\ call[r].role \in {"admin", "member"}
BY DEF TypeOK, Sent, CallOf, Accepting

(* An invitation whose status changes keeps the rest. *)
LEMMA RowMarked ==
    ASSUME NEW row \in InvitationRows, NEW s \in {"unsent", "open", "expired", "accepted"}
    PROVE  /\ [row EXCEPT !.status = s] \in InvitationRows
           /\ [row EXCEPT !.status = s].status = s
BY DEF InvitationRows

(* Every step keeps the shape of the tables and of the requests. *)
LEMMA TypeStep ==
    ASSUME TypeOK, Sent, CallsTrue, [Next]_vars PROVE TypeOK'
<1> USE OnboardingAssumption DEF TypeOK, Phases, Accepting, Calls, Goto, tables, CallsTrue
<1>1. NoCall \in Calls
  BY DEF NoCall
<1>2. ASSUME NEW r \in Requests, End(r), UNCHANGED tables PROVE TypeOK'
  BY <1>1, <1>2 DEF End
<1>3. ASSUME NEW r \in Requests, NEW p \in Phases, Goto(r, p), UNCHANGED call,
             UNCHANGED tables
      PROVE  TypeOK'
  BY <1>3
<1>4. ASSUME NEW r \in Requests, NEW o \in Orgs, NEW e \in Emails, RegisterCall(r, o, e)
      PROVE  TypeOK'
  BY <1>4 DEF RegisterCall, NoCall
<1>5. ASSUME NEW r \in Requests, NEW o \in Orgs, NEW e \in Emails, SignIn(r, o, e)
      PROVE  TypeOK'
  BY <1>5 DEF SignIn, NoCall
<1>6. ASSUME NEW r \in Requests, NEW i \in Invites, AcceptCall(r, i) PROVE TypeOK'
  BY <1>6 DEF AcceptCall, InvitationRows
<1>7. ASSUME NEW r \in Requests, Register(r) PROVE TypeOK'
  <2>1. call[r].org \in Orgs /\ call[r].email \in Emails
    BY <1>7, Acting DEF Register
  <2>2. CASE End(r) /\ UNCHANGED tables
    BY <1>2, <2>2
  <2>3. CASE ~(End(r) /\ UNCHANGED tables)
    <3>1. /\ founder' = [founder EXCEPT ![call[r].org] = call[r].email]
          /\ users' = users \cup {call[r].email}
          /\ role' = [role EXCEPT ![<<call[r].org, call[r].email>>] = "admin"]
          /\ Grant(call[r].org, call[r].email, "admin")
          /\ Goto(r, "issue") /\ UNCHANGED <<invitation, sessions, call>>
      BY <1>7, <2>3 DEF Register
    <3> QED
      BY <2>1, <3>1 DEF Grant
  <2> QED
    BY <2>2, <2>3
<1>8. ASSUME NEW r \in Requests, Lookup(r) \/ FindUser(r) \/ AcceptSelect(r) PROVE TypeOK'
  BY <1>2, <1>3, <1>8 DEF Lookup, FindUser, AcceptSelect
<1>9. ASSUME NEW r \in Requests, CreateUser(r) PROVE TypeOK'
  <2>1. call[r].email \in Emails
    BY <1>9, Acting DEF CreateUser
  <2>2. /\ pc' \in [Requests -> Phases]
        /\ call' \in [Requests -> Calls]
    <3>1. CASE call[r].email \notin users
      BY <1>9, <3>1 DEF CreateUser
    <3>2. CASE call[r].email \in users
      BY <1>1, <1>9, <3>2 DEF CreateUser, End
    <3> QED
      BY <3>1, <3>2
  <2> QED
    BY <1>9, <2>1, <2>2 DEF CreateUser
<1>10. ASSUME NEW r \in Requests, AcceptCommit(r) PROVE TypeOK'
  <2>1. /\ call[r].org \in Orgs /\ call[r].email \in Emails
        /\ call[r].role \in {"admin", "member"}
    BY <1>10, Acting DEF AcceptCommit
  <2>2. invitation' \in [Invites -> InvitationRows]
    <3>1. call[r].invite \in Invites
      BY <1>10 DEF AcceptCommit, CallOf
    <3>2. [invitation[call[r].invite] EXCEPT !.status = "accepted"] \in InvitationRows
      BY <3>1 DEF InvitationRows
    <3> QED
      BY <1>10, <3>1, <3>2 DEF AcceptCommit
  <2>3. /\ role' \in [Orgs \X Emails -> {"admin", "member", "none"}]
        /\ granted' \in [Orgs \X Emails -> SUBSET {"admin", "member"}]
    BY <1>10, <2>1 DEF AcceptCommit, Grant
  <2> QED
    BY <1>10, <2>2, <2>3 DEF AcceptCommit
<1>11. ASSUME NEW r \in Requests, Issue(r) PROVE TypeOK'
  <2>1. /\ call[r].org \in Orgs /\ call[r].email \in Emails
        /\ call[r].role \in {"admin", "member"}
    BY <1>11, Acting DEF Issue
  <2> QED
    BY <1>1, <1>11, <2>1 DEF Issue, End, Tokens
<1>12. ASSUME NEW r \in Requests, Crash(r) PROVE TypeOK'
  BY <1>2, <1>12 DEF Crash
<1>13. ASSUME NEW i \in Invites, NEW o \in Orgs, NEW e \in Emails, NEW w \in InviteRoles,
              Invite(i, o, e, w)
       PROVE  TypeOK'
  BY <1>13 DEF Invite, InvitationRows
<1>14. ASSUME NEW i \in Invites, Expire(i) PROVE TypeOK'
  BY <1>14 DEF Expire, InvitationRows
<1>15. ASSUME NEW o \in Orgs, NEW e \in Emails, NEW w \in WantedRoles, ChangeRole(o, e, w)
       PROVE  TypeOK'
  BY <1>15 DEF ChangeRole, Grant
<1>16. CASE UNCHANGED vars
  BY <1>16 DEF vars
<1> QED
  BY <1>4, <1>5, <1>6, <1>7, <1>8, <1>9, <1>10, <1>11, <1>12, <1>13, <1>14, <1>15, <1>16
  DEF Next

-----------------------------------------------------------------------------
(* A registration that founds o, with e as its admin, and an invitation    *)
(* whose acceptance is committed: the two steps that make members.         *)
Founds(r, o, e) ==
    /\ pc[r] = "register" /\ call[r].org = o /\ call[r].email = e
    /\ founder[o] = None /\ e \notin users
    /\ founder' = [founder EXCEPT ![o] = e]
    /\ users'   = users \cup {e}
    /\ role'    = [role EXCEPT ![<<o, e>>] = "admin"]
    /\ Grant(o, e, "admin")
    /\ Goto(r, "issue")
    /\ UNCHANGED <<invitation, sessions, call>>

(* A registration founds an organization or changes no table. *)
LEMMA RegisterMeans ==
    ASSUME NEW r \in Requests, Register(r)
    PROVE  \/ Founds(r, call[r].org, call[r].email)
           \/ End(r) /\ UNCHANGED tables
BY DEF Register, Founds

(* Nothing is taken back: accounts, memberships, the roles given, and what *)
(* an invitation that was sent says.                                       *)
Grows ==
    /\ users \subseteq users'
    /\ \A o \in Orgs, e \in Emails : /\ Member(o, e) => Member(o, e)'
                                     /\ granted[<<o, e>>] \subseteq granted'[<<o, e>>]
    /\ \A i \in Invites :
          invitation[i].status # "unsent" =>
              /\ invitation'[i].status # "unsent"
              /\ invitation'[i].org = invitation[i].org
              /\ invitation'[i].email = invitation[i].email
              /\ invitation'[i].role = invitation[i].role

LEMMA Growth ==
    ASSUME TypeOK, Sent, CallsTrue, [Next]_vars PROVE Grows
<1> USE OnboardingAssumption DEF TypeOK, CallsTrue, tables, Member
<1>1. ASSUME UNCHANGED <<users, role, granted, invitation>> PROVE Grows
  BY <1>1 DEF Grows
<1>2. ASSUME NEW o \in Orgs, NEW e \in Emails, NEW w \in {"admin", "member"},
             role' = role \/ role' = [role EXCEPT ![<<o, e>>] = w],
             granted' = [granted EXCEPT ![<<o, e>>] = @ \cup {w}]
      PROVE  \A p \in Orgs, f \in Emails :
                 /\ role[<<p, f>>] # "none" => role'[<<p, f>>] # "none"
                 /\ granted[<<p, f>>] \subseteq granted'[<<p, f>>]
  BY <1>2
<1>3. ASSUME NEW r \in Requests, Register(r) PROVE Grows
  <2>1. CASE UNCHANGED tables
    BY <1>1, <2>1
  <2>2. CASE Founds(r, call[r].org, call[r].email)
    <3>1. call[r].org \in Orgs /\ call[r].email \in Emails
      BY <2>2 DEF Founds, CallOf
    <3> QED
      BY <1>2, <2>2, <3>1 DEF Founds, Grows, Grant
  <2> QED
    BY <1>3, <2>1, <2>2, RegisterMeans
<1>4. ASSUME NEW r \in Requests, CreateUser(r) PROVE Grows
  BY <1>4 DEF CreateUser, Grows
<1>5. ASSUME NEW r \in Requests, AcceptCommit(r) PROVE Grows
  <2>1. /\ call[r].org \in Orgs /\ call[r].email \in Emails
        /\ call[r].role \in {"admin", "member"} /\ call[r].invite \in Invites
    BY <1>5, Acting DEF AcceptCommit, CallOf, Accepting
  <2>2. \A i \in Invites :
            /\ invitation[i].status # "unsent" => invitation'[i].status # "unsent"
            /\ invitation'[i].org = invitation[i].org
            /\ invitation'[i].email = invitation[i].email
            /\ invitation'[i].role = invitation[i].role
    BY <1>5, <2>1 DEF AcceptCommit, InvitationRows
  <2>3. users' = users
    BY <1>5 DEF AcceptCommit
  <2>4. \A p \in Orgs, f \in Emails :
            /\ role[<<p, f>>] # "none" => role'[<<p, f>>] # "none"
            /\ granted[<<p, f>>] \subseteq granted'[<<p, f>>]
    <3>1. PICK o \in Orgs, e \in Emails, w \in {"admin", "member"} :
              /\ role' = role \/ role' = [role EXCEPT ![<<o, e>>] = w]
              /\ granted' = [granted EXCEPT ![<<o, e>>] = @ \cup {w}]
      BY <1>5, <2>1 DEF AcceptCommit, Grant
    <3> QED
      BY <1>2, <3>1
  <2> QED
    BY <2>2, <2>3, <2>4 DEF Grows
<1>6. ASSUME NEW i \in Invites, NEW o \in Orgs, NEW e \in Emails, NEW w \in InviteRoles,
             Invite(i, o, e, w)
      PROVE  Grows
  BY <1>6 DEF Invite, Grows, InvitationRows
<1>7. ASSUME NEW i \in Invites, Expire(i) PROVE Grows
  BY <1>7 DEF Expire, Grows, InvitationRows
<1>8. ASSUME NEW o \in Orgs, NEW e \in Emails, NEW w \in WantedRoles, ChangeRole(o, e, w)
      PROVE  Grows
  BY <1>2, <1>8 DEF ChangeRole, Grows, Grant
<1> QED
  BY <1>1, <1>3, <1>4, <1>5, <1>6, <1>7, <1>8
  DEF Next, RegisterCall, SignIn, AcceptCall, Lookup, FindUser, AcceptSelect, Issue,
      Crash, vars

(* What a request holds stays true while others work. *)
LEMMA CallKept ==
    ASSUME TypeOK, Sent, Grows, NEW s \in Requests, CallOf(s),
           pc'[s] = pc[s], call'[s] = call[s]
    PROVE  CallOf(s)'
<1>1. CASE pc[s] = "issue"
  <2>1. /\ Member(call[s].org, call[s].email)'
        /\ call[s].role \in granted'[<<call[s].org, call[s].email>>]
    BY <1>1 DEF CallOf, Grows
  <2> QED
    BY <1>1, <2>1 DEF CallOf, Accepting, Member
<1>2. CASE pc[s] \in Accepting
  BY <1>2 DEF CallOf, Accepting, Grows
<1>3. CASE pc[s] \in {"idle", "register"}
  BY <1>3 DEF CallOf, Accepting
<1> QED
  BY <1>1, <1>2, <1>3 DEF TypeOK, Phases

(* Every step keeps what the requests hold true. *)
LEMMA CallsStep ==
    ASSUME TypeOK, Sent, CallsTrue, RolesGranted, [Next]_vars PROVE CallsTrue'
<1> USE OnboardingAssumption DEF Goto
<1>1. Grows
  BY Growth
<1>2. ASSUME NEW r \in Requests, CallOf(r)',
             \A s \in Requests \ {r} : pc'[s] = pc[s] /\ call'[s] = call[s]
      PROVE  CallsTrue'
  BY <1>1, <1>2, CallKept DEF CallsTrue
<1>3. ASSUME UNCHANGED <<pc, call>> PROVE CallsTrue'
  BY <1>1, <1>3, CallKept DEF CallsTrue
<1>4. ASSUME NEW r \in Requests, End(r) PROVE CallsTrue'
  <2>1. pc'[r] = "idle"
    BY <1>4 DEF End, TypeOK
  <2>2. CallOf(r)'
    BY <2>1 DEF CallOf, Accepting
  <2> QED
    BY <1>2, <1>4, <2>2 DEF End
<1>5. ASSUME NEW r \in Requests, NEW o \in Orgs, NEW e \in Emails, RegisterCall(r, o, e)
      PROVE  CallsTrue'
  <2>1. /\ pc'[r] = "register"
        /\ call'[r] = [NoCall EXCEPT !.org = o, !.email = e, !.role = "admin"]
    BY <1>5 DEF RegisterCall, TypeOK
  <2>2. CallOf(r)'
    BY <2>1 DEF CallOf, Accepting, NoCall
  <2> QED
    BY <1>2, <1>5, <2>2 DEF RegisterCall
<1>6. ASSUME NEW r \in Requests, NEW o \in Orgs, NEW e \in Emails, SignIn(r, o, e)
      PROVE  CallsTrue'
  <2>1. /\ pc'[r] = "issue" /\ UNCHANGED tables
        /\ call'[r].org = o /\ call'[r].email = e /\ call'[r].role = role[<<o, e>>]
    BY <1>6 DEF SignIn, TypeOK, NoCall
  <2>2. /\ Member(o, e) /\ role[<<o, e>>] \in {"admin", "member"}
        /\ role[<<o, e>>] \in granted[<<o, e>>]
    BY <1>6 DEF SignIn, TypeOK, RolesGranted, Member
  <2>3. CallOf(r)'
    BY <2>1, <2>2 DEF CallOf, Accepting, Member, tables
  <2> QED
    BY <1>2, <1>6, <2>3 DEF SignIn
<1>7. ASSUME NEW r \in Requests, NEW i \in Invites, AcceptCall(r, i) PROVE CallsTrue'
  <2>1. /\ pc'[r] = "lookup" /\ UNCHANGED invitation /\ invitation[i].status # "unsent"
        /\ call'[r].org = invitation[i].org /\ call'[r].email = invitation[i].email
        /\ call'[r].role = invitation[i].role /\ call'[r].invite = i
    BY <1>7 DEF AcceptCall, TypeOK, tables
  <2>2. CallOf(r)'
    BY <2>1 DEF CallOf, Accepting
  <2> QED
    BY <1>2, <1>7, <2>2 DEF AcceptCall
<1>8. ASSUME NEW r \in Requests, Register(r) PROVE CallsTrue'
  <2>1. CASE Founds(r, call[r].org, call[r].email)
    <3>1. /\ call[r].org \in Orgs /\ call[r].email \in Emails /\ call[r].role = "admin"
          /\ pc'[r] = "issue" /\ call' = call
      BY <2>1 DEF Founds, CallsTrue, CallOf, TypeOK
    <3>2. /\ role'[<<call[r].org, call[r].email>>] = "admin"
          /\ "admin" \in granted'[<<call[r].org, call[r].email>>]
      BY <2>1, <3>1 DEF Founds, Grant, TypeOK
    <3>3. CallOf(r)'
      BY <3>1, <3>2 DEF CallOf, Accepting, Member
    <3> QED
      BY <1>2, <2>1, <3>3 DEF Founds
  <2> QED
    BY <1>4, <1>8, <2>1, RegisterMeans
<1>9. ASSUME NEW r \in Requests, pc[r] \in Accepting, call' = call,
             \/ pc' = [pc EXCEPT ![r] = "user"] \/ pc' = [pc EXCEPT ![r] = "create"]
             \/ /\ pc' = [pc EXCEPT ![r] = "select"] \/ pc' = [pc EXCEPT ![r] = "accept"]
                /\ call[r].email \in users'
      PROVE  CallsTrue'
  <2>1. /\ pc'[r] \in {"user", "create", "select", "accept"}
        /\ pc'[r] \in {"select", "accept"} => call[r].email \in users'
    BY <1>9 DEF TypeOK
  <2>2. CallOf(r)
    BY DEF CallsTrue
  <2>3. CallOf(r)'
    BY <1>1, <1>9, <2>1, <2>2 DEF CallOf, Accepting, Grows
  <2> QED
    BY <1>2, <1>9, <2>3 DEF TypeOK
<1>10. ASSUME NEW r \in Requests, Lookup(r) PROVE CallsTrue'
  BY <1>4, <1>9, <1>10 DEF Lookup, Accepting
<1>11. ASSUME NEW r \in Requests, FindUser(r) PROVE CallsTrue'
  BY <1>4, <1>9, <1>11 DEF FindUser, Accepting, tables
<1>12. ASSUME NEW r \in Requests, CreateUser(r) PROVE CallsTrue'
  BY <1>4, <1>9, <1>12 DEF CreateUser, Accepting
<1>13. ASSUME NEW r \in Requests, AcceptSelect(r) PROVE CallsTrue'
  <2>1. call[r].email \in users /\ users' = users
    BY <1>13 DEF AcceptSelect, CallsTrue, CallOf, tables
  <2> QED
    BY <1>4, <1>9, <1>13, <2>1 DEF AcceptSelect, Accepting
<1>14. ASSUME NEW r \in Requests, AcceptCommit(r) PROVE CallsTrue'
  <2>1. /\ call[r].org \in Orgs /\ call[r].email \in Emails
        /\ call[r].role \in {"admin", "member"}
        /\ pc'[r] = "issue" /\ call' = call
    BY <1>14, Acting DEF AcceptCommit, CallsTrue, Accepting, TypeOK
  <2>2. /\ Member(call[r].org, call[r].email)'
        /\ call[r].role \in granted'[<<call[r].org, call[r].email>>]
    BY <1>14, <2>1 DEF AcceptCommit, Grant, TypeOK, Member
  <2>3. CallOf(r)'
    BY <2>1, <2>2 DEF CallOf, Accepting, Member
  <2> QED
    BY <1>2, <1>14, <2>3 DEF AcceptCommit
<1> QED
  BY <1>3, <1>4, <1>5, <1>6, <1>7, <1>8, <1>10, <1>11, <1>12, <1>13, <1>14
  DEF Next, Issue, Crash, Invite, Expire, ChangeRole, vars

-----------------------------------------------------------------------------
(* Every step keeps memberships and reasons together, and every role given. *)
LEMMA EntitledStep ==
    ASSUME TypeOK, Sent, CallsTrue, RolesGranted, MembersEntitled, [Next]_vars
    PROVE  MembersEntitled' /\ RolesGranted'
<1> USE OnboardingAssumption DEF TypeOK, Member, Entitled, MembersEntitled, RolesGranted
<1>1. ASSUME UNCHANGED <<role, founder, granted, invitation>>
      PROVE  MembersEntitled' /\ RolesGranted'
  BY <1>1
<1>2. ASSUME NEW r \in Requests, Register(r) PROVE MembersEntitled' /\ RolesGranted'
  <2>1. CASE Founds(r, call[r].org, call[r].email)
    <3>1. PICK o \in Orgs, e \in Emails :
              /\ founder[o] = None
              /\ founder' = [founder EXCEPT ![o] = e]
              /\ role' = [role EXCEPT ![<<o, e>>] = "admin"]
              /\ granted' = [granted EXCEPT ![<<o, e>>] = @ \cup {"admin"}]
              /\ UNCHANGED invitation
      BY <2>1 DEF Founds, Grant, CallsTrue, CallOf
    <3>2. /\ role'[<<o, e>>] = "admin" /\ "admin" \in granted'[<<o, e>>]
          /\ \A p \in Orgs, f \in Emails :
                <<p, f>> # <<o, e>> => /\ role'[<<p, f>>] = role[<<p, f>>]
                                       /\ granted'[<<p, f>>] = granted[<<p, f>>]
      BY <3>1
    <3>3. /\ founder'[o] = e
          /\ \A p \in Orgs : p # o => founder'[p] = founder[p]
      BY <3>1
    <3>4. ASSUME NEW p \in Orgs, NEW f \in Emails
          PROVE  Member(p, f)' <=> Entitled(p, f)'
      <4>1. CASE p = o /\ f = e
        BY <3>2, <3>3, <4>1
      <4>2. CASE ~(p = o /\ f = e)
        <5>1. role'[<<p, f>>] = role[<<p, f>>]
          BY <3>2, <4>2
        <5>2. founder'[p] = f <=> founder[p] = f
          BY <3>1, <3>3, <4>2
        <5> QED
          BY <3>1, <5>1, <5>2
      <4> QED
        BY <4>1, <4>2
    <3>5. RolesGranted'
      BY <3>2
    <3> QED
      BY <3>4, <3>5
  <2> QED
    BY <1>1, <1>2, <2>1, RegisterMeans DEF tables
<1>3. ASSUME NEW r \in Requests, AcceptCommit(r) PROVE MembersEntitled' /\ RolesGranted'
  <2>1. PICK o \in Orgs, e \in Emails, i \in Invites, w \in {"admin", "member"} :
            /\ invitation[i].org = o /\ invitation[i].email = e
            /\ role' = IF role[<<o, e>>] # "none" THEN role ELSE [role EXCEPT ![<<o, e>>] = w]
            /\ granted' = [granted EXCEPT ![<<o, e>>] = @ \cup {w}]
            /\ invitation' = [invitation EXCEPT ![i].status = "accepted"]
            /\ UNCHANGED founder
    <3>1. /\ call[r].org \in Orgs /\ call[r].email \in Emails /\ call[r].invite \in Invites
          /\ call[r].role \in {"admin", "member"}
          /\ invitation[call[r].invite].org = call[r].org
          /\ invitation[call[r].invite].email = call[r].email
      BY <1>3, Acting DEF AcceptCommit, CallsTrue, CallOf, Accepting
    <3> QED
      BY <1>3, <3>1 DEF AcceptCommit, Grant
  <2>2. /\ role'[<<o, e>>] # "none"
        /\ role'[<<o, e>>] \in {role[<<o, e>>], w}
        /\ role[<<o, e>>] # "none" => role'[<<o, e>>] = role[<<o, e>>]
        /\ granted'[<<o, e>>] = granted[<<o, e>>] \cup {w}
        /\ \A p \in Orgs, f \in Emails :
              <<p, f>> # <<o, e>> => /\ role'[<<p, f>>] = role[<<p, f>>]
                                     /\ granted'[<<p, f>>] = granted[<<p, f>>]
    BY <2>1
  <2>3. /\ \A j \in Invites : /\ invitation'[j].org = invitation[j].org
                              /\ invitation'[j].email = invitation[j].email
        /\ invitation'[i].status = "accepted"
        /\ \A j \in Invites \ {i} : invitation'[j] = invitation[j]
    BY <2>1 DEF InvitationRows
  <2>4. ASSUME NEW p \in Orgs, NEW f \in Emails
        PROVE  Member(p, f)' <=> Entitled(p, f)'
    <3>1. CASE p = o /\ f = e
      BY <2>1, <2>2, <2>3, <3>1
    <3>2. CASE ~(p = o /\ f = e)
      <4>1. role'[<<p, f>>] = role[<<p, f>>]
        BY <2>2, <3>2
      <4>2. Entitled(p, f)' <=> Entitled(p, f)
        BY <2>1, <2>3, <3>2
      <4> QED
        BY <4>1, <4>2
    <3> QED
      BY <3>1, <3>2
  <2>5. ASSUME NEW p \in Orgs, NEW f \in Emails, role'[<<p, f>>] # "none"
        PROVE  role'[<<p, f>>] \in granted'[<<p, f>>]
    <3>1. CASE p = o /\ f = e
      <4>1. role'[<<o, e>>] = w \/ role'[<<o, e>>] = role[<<o, e>>]
        BY <2>2
      <4>2. role[<<o, e>>] # "none" => role[<<o, e>>] \in granted[<<o, e>>]
        OBVIOUS
      <4> QED
        BY <2>2, <2>5, <3>1, <4>1, <4>2
    <3>2. CASE ~(p = o /\ f = e)
      BY <2>2, <2>5, <3>2
    <3> QED
      BY <3>1, <3>2
  <2> QED
    BY <2>4, <2>5
<1>4. ASSUME NEW i \in Invites, NEW row \in InvitationRows,
             invitation[i].status # "accepted", row.status # "accepted",
             invitation' = [invitation EXCEPT ![i] = row],
             UNCHANGED <<role, founder, granted>>
      PROVE  MembersEntitled' /\ RolesGranted'
  <2>1. \A j \in Invites :
            \/ invitation'[j] = invitation[j]
            \/ invitation'[j].status # "accepted" /\ invitation[j].status # "accepted"
    BY <1>4
  <2>2. \A o \in Orgs, e \in Emails : Entitled(o, e)' <=> Entitled(o, e)
    BY <1>4, <2>1
  <2> QED
    BY <1>4, <2>2
<1>5. ASSUME NEW i \in Invites, NEW o \in Orgs, NEW e \in Emails, NEW w \in InviteRoles,
             Invite(i, o, e, w)
      PROVE  MembersEntitled' /\ RolesGranted'
  BY <1>4, <1>5 DEF Invite, InvitationRows
<1>6. ASSUME NEW i \in Invites, Expire(i) PROVE MembersEntitled' /\ RolesGranted'
  <2> DEFINE row == [invitation[i] EXCEPT !.status = "expired"]
  <2>1. row \in InvitationRows /\ row.status = "expired"
    BY RowMarked
  <2>2. /\ invitation[i].status = "open"
        /\ invitation' = [invitation EXCEPT ![i] = row]
        /\ UNCHANGED <<role, founder, granted>>
    BY <1>6 DEF Expire
  <2> HIDE DEF row
  <2>3. invitation[i].status # "accepted" /\ row.status # "accepted"
    BY <2>1, <2>2
  <2> QED
    BY <1>4, <2>1, <2>2, <2>3
<1>7. ASSUME NEW o \in Orgs, NEW e \in Emails, NEW w \in WantedRoles, ChangeRole(o, e, w)
      PROVE  MembersEntitled' /\ RolesGranted'
  <2>1. /\ role[<<o, e>>] # "none"
        /\ role' = [role EXCEPT ![<<o, e>>] = w]
        /\ granted' = [granted EXCEPT ![<<o, e>>] = @ \cup {w}]
        /\ UNCHANGED <<founder, invitation>>
    BY <1>7 DEF ChangeRole, Grant
  <2>2. ASSUME NEW p \in Orgs, NEW f \in Emails
        PROVE  /\ role'[<<p, f>>] # "none" <=> role[<<p, f>>] # "none"
               /\ role'[<<p, f>>] # "none" => role'[<<p, f>>] \in granted'[<<p, f>>]
    <3>1. CASE p = o /\ f = e
      <4>1. role'[<<o, e>>] = w /\ granted'[<<o, e>>] = granted[<<o, e>>] \cup {w}
        BY <2>1
      <4> QED
        BY <2>1, <3>1, <4>1
    <3>2. CASE ~(p = o /\ f = e)
      <4>1. role'[<<p, f>>] = role[<<p, f>>] /\ granted'[<<p, f>>] = granted[<<p, f>>]
        BY <2>1, <3>2
      <4> QED
        BY <4>1
    <3> QED
      BY <3>1, <3>2
  <2> QED
    BY <2>1, <2>2
<1> QED
  BY <1>1, <1>2, <1>3, <1>5, <1>6, <1>7
  DEF Next, RegisterCall, SignIn, AcceptCall, Lookup, FindUser, CreateUser, AcceptSelect,
      Issue, Crash, vars, tables

(* Every step keeps what was sent, members with accounts, and tokens for   *)
(* members with roles they were given.                                     *)
LEMMA PeopleStep ==
    ASSUME TypeOK, Sent, CallsTrue, SessionsOfMembers, [Next]_vars
    PROVE  Sent' /\ SessionsOfMembers'
<1> USE OnboardingAssumption DEF TypeOK, Member, Tokens
<1>1. Grows
  BY Growth
<1>2. Sent'
  <2>1. CASE UNCHANGED invitation
    BY <2>1 DEF Sent
  <2>2. ASSUME NEW r \in Requests, AcceptCommit(r) PROVE Sent'
    <3>1. call[r].invite \in Invites /\ invitation[call[r].invite].status # "unsent"
      BY <2>2 DEF AcceptCommit, CallsTrue, CallOf, Accepting
    <3> QED
      BY <2>2, <3>1 DEF AcceptCommit, Sent, InvitationRows
  <2>3. ASSUME NEW i \in Invites, NEW o \in Orgs, NEW e \in Emails, NEW w \in InviteRoles,
               Invite(i, o, e, w)
        PROVE  Sent'
    BY <2>3 DEF Invite, Sent
  <2>4. ASSUME NEW i \in Invites, Expire(i) PROVE Sent'
    BY <2>4 DEF Expire, Sent, InvitationRows
  <2> QED
    BY <2>1, <2>2, <2>3, <2>4 DEF Next, RegisterCall, SignIn, AcceptCall, Register,
       Lookup, FindUser, CreateUser, AcceptSelect, Issue, Crash, ChangeRole, vars, tables
<1>3. SessionsOfMembers'
  <2>1. ASSUME \A o \in Orgs, e \in Emails : Member(o, e)' => e \in users',
               \A t \in sessions' \ sessions :
                   /\ t \in Tokens /\ Member(t.org, t.email)
                   /\ t.role \in granted[<<t.org, t.email>>]
        PROVE  SessionsOfMembers'
    <3>1. ASSUME NEW t \in sessions'
          PROVE  Member(t.org, t.email)' /\ t.role \in granted'[<<t.org, t.email>>]
      <4>1. /\ t.org \in Orgs /\ t.email \in Emails
            /\ Member(t.org, t.email) /\ t.role \in granted[<<t.org, t.email>>]
        BY <2>1, <3>1 DEF SessionsOfMembers
      <4> QED
        BY <1>1, <4>1 DEF Grows
    <3> QED
      BY <2>1, <3>1 DEF SessionsOfMembers
  <2>2. CASE UNCHANGED <<role, sessions>>
    BY <1>1, <2>1, <2>2 DEF SessionsOfMembers, Grows
  <2>3. ASSUME NEW r \in Requests, Register(r) PROVE SessionsOfMembers'
    <3>1. CASE Founds(r, call[r].org, call[r].email)
      <4>1. \A o \in Orgs, e \in Emails : Member(o, e)' => e \in users'
        BY <3>1 DEF Founds, SessionsOfMembers
      <4> QED
        BY <2>1, <3>1, <4>1 DEF Founds
    <3> QED
      BY <2>2, <2>3, <3>1, RegisterMeans DEF tables
  <2>4. ASSUME NEW r \in Requests, AcceptCommit(r) PROVE SessionsOfMembers'
    <3>1. call[r].email \in users
      BY <2>4 DEF AcceptCommit, CallsTrue, CallOf
    <3>2. \A o \in Orgs, e \in Emails : Member(o, e)' => e \in users'
      BY <2>4, <3>1 DEF AcceptCommit, SessionsOfMembers
    <3> QED
      BY <2>1, <2>4, <3>2 DEF AcceptCommit
  <2>5. ASSUME NEW r \in Requests, Issue(r) PROVE SessionsOfMembers'
    <3> DEFINE new == [org |-> call[r].org, email |-> call[r].email, role |-> call[r].role]
    <3>1. /\ new \in Tokens /\ Member(new.org, new.email)
          /\ new.role \in granted[<<new.org, new.email>>]
      BY <2>5 DEF Issue, CallsTrue, CallOf
    <3>2. sessions' = sessions \cup {new} /\ UNCHANGED <<role, users>>
      BY <2>5 DEF Issue
    <3> QED
      BY <2>1, <3>1, <3>2 DEF SessionsOfMembers
  <2>6. ASSUME NEW o \in Orgs, NEW e \in Emails, NEW w \in WantedRoles, ChangeRole(o, e, w)
        PROVE  SessionsOfMembers'
    <3>1. \A p \in Orgs, f \in Emails : Member(p, f)' => Member(p, f)
      BY <2>6 DEF ChangeRole
    <3> QED
      BY <2>1, <2>6, <3>1 DEF ChangeRole, SessionsOfMembers
  <2> QED
    BY <2>2, <2>3, <2>4, <2>5, <2>6 DEF Next, RegisterCall, SignIn, AcceptCall,
       Lookup, FindUser, CreateUser, AcceptSelect, Crash, Invite, Expire, vars, tables
<1> QED
  BY <1>2, <1>3

(* The invariant of everything below. *)
LEMMA OnboardingInvariant == Spec => []OnboardingInv
<1>1. Init => OnboardingInv
  BY OnboardingAssumption
  DEF Init, OnboardingInv, TypeOK, Sent, CallsTrue, CallOf, RolesGranted, MembersEntitled,
      SessionsOfMembers, Member, Entitled, Unsent, NoCall, Phases, Accepting,
      Calls, InvitationRows
<1>2. OnboardingInv /\ [Next]_vars => OnboardingInv'
  BY TypeStep, CallsStep, EntitledStep, PeopleStep DEF OnboardingInv
<1> QED
  BY <1>1, <1>2, PTL DEF Spec

(* Type correctness: every statement keeps the shape of the tables and of  *)
(* the requests.                                                           *)
THEOREM TypeCorrect == Spec => []TypeOK
BY OnboardingInvariant, PTL DEF OnboardingInv

(* Who is a member founded the organization or accepted an invitation to   *)
(* it, and who did either is a member: no organization without its founder *)
(* in it.                                                                  *)
THEOREM MembersHaveReasons == Spec => []MembersEntitled
BY OnboardingInvariant, PTL DEF OnboardingInv

(* Accounts for members, and tokens for members only, with a role they     *)
(* were given.                                                             *)
THEOREM TokensForMembers == Spec => []SessionsOfMembers
BY OnboardingInvariant, PTL DEF OnboardingInv
=============================================================================
