------------------------------- MODULE PagesProofs -------------------------------
(***************************************************************************)
(* What the client's pages promise for any number of emails, requests in   *)
(* flight and changes: a page behind authGuard is for a user with a token, *)
(* and a page at rest shows what it stands at.                             *)
(***************************************************************************)
EXTENDS Pages, TLAPS

(* The pages whose component sends a request of this kind. *)
PagesOf(kind) ==
    CASE kind = "orgs"   -> {"login"}
      [] kind = "signin" -> SignInPages
      [] kind \in {"me", "plan", "invite", "refresh"} -> {"dashboard"}
      [] kind \in {"list", "role"} -> {"members"}
      [] OTHER -> {"audit-log"}

(* A request whose component is still there. *)
Home(c, kind) == call[c] # Idle /\ call[c].home /\ call[c].kind = kind

(* The component of a request that is at home is the one on the screen. *)
HomesRight ==
    \A c \in Calls : call[c] # Idle /\ call[c].home => view.page \in PagesOf(call[c].kind)

(* A token pair is answered with a role. *)
PairsHaveRoles ==
    \A c \in Calls :
        call[c] # Idle /\ call[c].kind \in Auth /\ call[c].phase = "back"
        => call[c].by \in Roles

(* Nobody without a token is on the way to a page behind authGuard. *)
NavGuarded == nav \in Guarded => Signed

(* On the login page the organizations that are looked up are those of the *)
(* email in the form, once there is one.                                   *)
Offers ==
    view.page = "login" =>
        /\ OffersMatch
        /\ \A c \in Calls : Home(c, "orgs") /\ view.asked # 0 => call[c].arg = view.asked

(* A list that comes back is no older than the user's last change. *)
ListsFresh ==
    view.page = "members" =>
        /\ MembersFresh
        /\ \A c \in Calls :
              Home(c, "list") /\ call[c].phase = "back" => view.asked <= call[c].at + 1

(* The user's last change of a role is not of the future. *)
RolesPast == view.page = "members" => view.asked <= now + 1

(* One page of the audit log is loaded at a time, the one asked for. *)
AuditLoads ==
    view.page = "audit-log" =>
        /\ AuditMatch
        /\ \A c \in Calls : Home(c, "audit") =>
              /\ view.busy /\ call[c].arg = view.asked
              /\ \A d \in Calls : Home(d, "audit") => d = c

(* A plan change and the refresh after it come one at a time, behind a     *)
(* disabled button, and the token that comes back is as new as the last    *)
(* change that was made.                                                   *)
Planning(c) == Home(c, "plan") \/ Home(c, "refresh")

PlanFollowed ==
    view.page = "dashboard" =>
        /\ view.asked <= now
        /\ \A c \in Calls : Planning(c) => view.busy /\ \A d \in Calls : Planning(d) => d = c
        /\ \A c \in Calls :
              Home(c, "refresh") /\ call[c].phase = "back" => view.asked <= call[c].at

(* The token is as new as the last change, or its refresh is on its way.   *)
TokenFollows ==
    view.page = "dashboard" /\ Signed /\ (~view.busy \/ \E c \in Calls : Home(c, "plan"))
        => view.asked <= token.at

Followed ==
    /\ AuditLoads /\ RolesPast /\ PlanFollowed
    /\ ~view.doubt => Offers /\ ListsFresh /\ TokenFollows

PagesInv ==
    TypeOK /\ HomesRight /\ PairsHaveRoles /\ NavGuarded /\ GuardHolds /\ Followed

-----------------------------------------------------------------------------
(* A slot is idle or holds a request. *)
LEMMA Slots ==
    ASSUME TypeOK, NEW c \in Calls
    PROVE  /\ call[c] = Idle \/ call[c] \in Requests
           /\ call[c].kind # "idle" <=> call[c] # Idle
           /\ call[c] # Idle => call[c] \in Requests /\ call[c].at <= now
BY DEF TypeOK, Requests, Idle, Api, Auth, Reads, Writes

(* A new request is at home, and carries what it asks for. *)
LEMMA NewRequest ==
    ASSUME TypeOK, NEW k \in Api \cup Auth, NEW a \in Nat
    PROVE  /\ Request(k, a) \in Requests
           /\ Request(k, a).kind = k /\ Request(k, a).arg = a
           /\ Request(k, a).home /\ Request(k, a).phase = "sent" /\ Request(k, a).at = 0
<1>1. (IF Signed THEN token.role ELSE "none") \in Roles \cup {"none"}
  BY DEF TypeOK, Tokens, Signed
<1>2. 0 \in 0..MaxChanges
  BY PagesAssumption
<1> QED
  BY <1>1, <1>2 DEF Request, Requests

(* The request that follows an answer, at home if that was. *)
LEMMA NextRequest ==
    ASSUME TypeOK, NEW k \in Api \cup Auth, NEW h \in BOOLEAN
    PROVE  /\ [Request(k, 0) EXCEPT !.home = h] \in Requests
           /\ [Request(k, 0) EXCEPT !.home = h].kind = k
           /\ [Request(k, 0) EXCEPT !.home = h].home = h
           /\ [Request(k, 0) EXCEPT !.home = h].phase = "sent"
           /\ [Request(k, 0) EXCEPT !.home = h].at = 0
<1>1. /\ Request(k, 0) \in Requests /\ Request(k, 0).kind = k
      /\ Request(k, 0).phase = "sent" /\ Request(k, 0).at = 0
  BY NewRequest
<1> QED
  BY <1>1 DEF Requests

LEMMA RequestsBusy ==
    ASSUME NEW r \in Requests PROVE r # Idle /\ r.kind # "idle"
BY DEF Requests, Idle, Api, Auth, Reads, Writes

(* The slot c is filled or emptied, and the others are left alone. *)
LEMMA SlotSet ==
    ASSUME TypeOK, NEW c \in Calls, NEW r \in {Idle} \cup Requests,
           call' = [call EXCEPT ![c] = r]
    PROVE  /\ call' \in [Calls -> {Idle} \cup Requests]
           /\ call'[c] = r
           /\ \A d \in Calls \ {c} : call'[d] = call[d]
BY DEF TypeOK

(* The request that the backend has served, as of now. *)
LEMMA ServeMeans ==
    ASSUME TypeOK, NEW c \in Calls, Serve(c), now' \in 0..MaxChanges
    PROVE  \E r \in Requests :
              /\ call' = [call EXCEPT ![c] = r]
              /\ r.kind = call[c].kind /\ r.arg = call[c].arg /\ r.home = call[c].home
              /\ r.phase = "back" /\ r.at = now'
              /\ r.by = IF call[c].kind \in Auth THEN role ELSE call[c].by
<1> DEFINE r == [call[c] EXCEPT !.phase = "back", !.at = now',
                                !.by = IF call[c].kind \in Auth THEN role ELSE call[c].by]
<1>1. call[c] \in Requests
  BY Slots DEF Serve
<1>2. r \in Requests
  BY <1>1 DEF Requests, TypeOK
<1>3. call' = [call EXCEPT ![c] = r]
  BY DEF Serve
<1>4. /\ r.kind = call[c].kind /\ r.arg = call[c].arg /\ r.home = call[c].home
      /\ r.phase = "back" /\ r.at = now'
      /\ r.by = IF call[c].kind \in Auth THEN role ELSE call[c].by
  BY <1>1 DEF Requests
<1> HIDE DEF r
<1> QED
  BY <1>2, <1>3, <1>4

LEMMA RenewMeans ==
    ASSUME TypeOK, NEW c \in Calls, Renew(c)
    PROVE  \E r \in Requests :
              /\ call' = [call EXCEPT ![c] = r]
              /\ r.kind = call[c].kind /\ r.arg = call[c].arg /\ r.home = call[c].home
              /\ r.phase = call[c].phase /\ r.at = call[c].at /\ r.by = role
<1>1. call[c] \in Requests
  <2>1. call[c].kind # "idle"
    BY DEF Renew, Api, Reads, Writes
  <2> QED
    BY <2>1, Slots
<1> DEFINE r == [call[c] EXCEPT !.by = role]
<1>2. r \in Requests
  BY <1>1 DEF Requests, TypeOK
<1>3. call' = [call EXCEPT ![c] = r]
  BY DEF Renew
<1>4. /\ r.kind = call[c].kind /\ r.arg = call[c].arg /\ r.home = call[c].home
      /\ r.phase = call[c].phase /\ r.at = call[c].at /\ r.by = role
  BY <1>1 DEF Requests
<1> HIDE DEF r
<1> QED
  BY <1>2, <1>3, <1>4

(* Where a navigation with the token t leads to. *)
LEMMA Leads ==
    ASSUME NEW p \in Routes, NEW t
    PROVE  Guard(p, t) \in Routes /\ (t = None => Guard(p, t) \notin Guarded)
BY DEF Guard, Routes, Guarded, SignInPages

-----------------------------------------------------------------------------
(* The organization changes forwards. *)
LEMMA NowGrows ==
    ASSUME TypeOK, [Next]_vars
    PROVE  now' \in 0..MaxChanges /\ now <= now' /\ role' \in Roles
<1> USE PagesAssumption DEF TypeOK
<1>1. Commit => now' \in 0..MaxChanges /\ now <= now' /\ role' \in Roles
  BY DEF Commit
<1>2. UNCHANGED <<now, role>> => now' \in 0..MaxChanges /\ now <= now' /\ role' \in Roles
  OBVIOUS
<1>3. ASSUME NEW c \in Calls, Serve(c) PROVE Commit \/ UNCHANGED <<now, role>>
  BY <1>3 DEF Serve
<1>4. OtherAdmin => Commit
  BY DEF OtherAdmin
<1>5. ASSUME NEW c \in Calls, User(c) \/ Arrives(c) \/ Activate(c) \/ Renew(c)
      PROVE  UNCHANGED <<now, role>>
  <2>1. CASE User(c)
    BY <2>1 DEF User, EmailBlur, GoToPage, Submit, TogglePlan, Invite, ChangeRole, Send
  <2>2. CASE Arrives(c)
    BY <2>2 DEF Arrives, OrgsArrive, SignedIn, OrganizationArrives, PlanChanged, Refreshed,
       InvitationArrives, RoleChanged, MembersArrive, AuditArrives, Fails, GiveUp
  <2> QED
    BY <1>5, <2>1, <2>2 DEF Activate, Renew
<1> QED
  BY <1>1, <1>2, <1>3, <1>4, <1>5 DEF Next, OpenUrl, Follow, Logout, ChunkFails, vars

(* What happens to the slots: a request is sent, served, answered, or      *)
(* loses its component; and a pair comes with a role.                      *)
LEMMA CallsStep ==
    ASSUME TypeOK, PairsHaveRoles, [Next]_vars
    PROVE  /\ call' \in [Calls -> {Idle} \cup Requests]
           /\ \A c \in Calls : call'[c] # Idle => call'[c].at <= now'
           /\ PairsHaveRoles'
<1> DEFINE CallsRight == /\ call' \in [Calls -> {Idle} \cup Requests]
                         /\ \A c \in Calls : call'[c] # Idle => call'[c].at <= now'
                         /\ PairsHaveRoles'
<1> USE PagesAssumption
<1>1. now' \in 0..MaxChanges /\ now <= now' /\ now \in 0..MaxChanges
  BY NowGrows DEF TypeOK
<1>2. \A c \in Calls : call[c] # Idle => call[c].at \in Nat /\ call[c].at <= now'
  BY <1>1, Slots DEF Requests
<1>3. CASE UNCHANGED call
  BY <1>2, <1>3 DEF PairsHaveRoles, TypeOK
<1>4. ASSUME NEW c \in Calls, NEW r \in Requests, call' = [call EXCEPT ![c] = r],
             r.at <= now', r.kind \in Auth /\ r.phase = "back" => r.by \in Roles
      PROVE  CallsRight
  BY <1>2, <1>4, SlotSet DEF PairsHaveRoles
<1>5. ASSUME NEW c \in Calls, call' = [call EXCEPT ![c] = Idle] PROVE CallsRight
  BY <1>2, <1>5, SlotSet DEF PairsHaveRoles
<1>6. ASSUME NEW c \in Calls, NEW k \in Api \cup Auth, NEW a \in Nat,
             call' = [call EXCEPT ![c] = Request(k, a)]
      PROVE  CallsRight
  <2>1. Request(k, a) \in Requests /\ Request(k, a).at = 0 /\ Request(k, a).phase = "sent"
    BY NewRequest
  <2>2. 0 <= now'
    BY <1>1
  <2> QED
    BY <1>4, <1>6, <2>1, <2>2
<1>7. ASSUME NEW c \in Calls, NEW k \in Api \cup Auth, call[c] # Idle,
             call' = [call EXCEPT ![c] = [Request(k, 0) EXCEPT !.home = call[c].home]]
      PROVE  CallsRight
  <2> DEFINE r == [Request(k, 0) EXCEPT !.home = call[c].home]
  <2>1. call[c].home \in BOOLEAN
    BY <1>7, Slots DEF Requests
  <2>2. r \in Requests /\ r.at = 0 /\ r.phase = "sent"
    BY <2>1, NextRequest
  <2>3. call' = [call EXCEPT ![c] = r]
    BY <1>7
  <2>4. 0 <= now'
    BY <1>1
  <2> HIDE DEF r
  <2> QED
    BY <1>4, <2>2, <2>3, <2>4
<1>8. {"orgs", "signin", "plan", "invite", "role", "audit", "me", "list", "refresh"}
          = Api \cup Auth
  BY DEF Api, Auth, Reads, Writes
<1>9. ASSUME NEW c \in Calls, User(c) PROVE CallsRight
  <2>1. ASSUME NEW e \in 0..Emails, EmailBlur(c, e) PROVE CallsRight
    <3>1. UNCHANGED call \/ call' = [call EXCEPT ![c] = Request("orgs", e)]
      BY <2>1 DEF EmailBlur, Send
    <3> QED
      BY <1>3, <1>6, <1>8, <3>1
  <2>2. ASSUME NEW p \in 1..MaxChanges, GoToPage(c, p) PROVE CallsRight
    <3>1. call' = [call EXCEPT ![c] = Request("audit", p)]
      BY <2>2 DEF GoToPage, Send
    <3>2. p \in Nat /\ "audit" \in Api \cup Auth
      BY <1>8
    <3> QED
      BY <1>6, <3>1, <3>2
  <2>3. CASE Submit(c) \/ TogglePlan(c) \/ Invite(c) \/ ChangeRole(c)
    <3>1. \/ call' = [call EXCEPT ![c] = Request("signin", 0)]
          \/ call' = [call EXCEPT ![c] = Request("plan", 0)]
          \/ call' = [call EXCEPT ![c] = Request("invite", 0)]
          \/ call' = [call EXCEPT ![c] = Request("role", 0)]
      BY <2>3 DEF Submit, TogglePlan, Invite, ChangeRole, Send
    <3>2. ASSUME NEW k \in {"signin", "plan", "invite", "role"},
                 call' = [call EXCEPT ![c] = Request(k, 0)]
          PROVE  CallsRight
      BY <1>6, <1>8, <3>2
    <3> QED
      BY <3>1, <3>2
  <2> QED
    BY <1>9, <2>1, <2>2, <2>3 DEF User
<1>10. ASSUME NEW c \in Calls, Arrives(c) PROVE CallsRight
  <2>1. CASE PlanChanged(c) \/ RoleChanged(c)
    BY <1>7, <1>8, <2>1 DEF PlanChanged, RoleChanged, Back
  <2>2. CASE ~(PlanChanged(c) \/ RoleChanged(c))
    <3>1. call' = [call EXCEPT ![c] = Idle]
      BY <1>10, <2>2 DEF Arrives, OrgsArrive, SignedIn, OrganizationArrives, Refreshed,
         InvitationArrives, MembersArrive, AuditArrives, Fails, GiveUp, Done
    <3> QED
      BY <1>5, <3>1
  <2> QED
    BY <2>1, <2>2
<1>11. ASSUME NEW c \in Calls, Serve(c) PROVE CallsRight
  <2>1. PICK r \in Requests :
            /\ call' = [call EXCEPT ![c] = r]
            /\ r.kind = call[c].kind /\ r.at = now'
            /\ r.by = IF call[c].kind \in Auth THEN role ELSE call[c].by
    BY <1>1, <1>11, ServeMeans
  <2>2. r.at <= now' /\ (r.kind \in Auth => r.by \in Roles)
    BY <1>1, <2>1 DEF TypeOK
  <2> QED
    BY <1>4, <2>1, <2>2
<1>12. ASSUME NEW c \in Calls, Renew(c) PROVE CallsRight
  <2>1. PICK r \in Requests :
            call' = [call EXCEPT ![c] = r] /\ r.at = call[c].at /\ r.by = role
    BY <1>12, RenewMeans
  <2>2. call[c] # Idle
    BY <1>12, Slots DEF Renew, Api, Reads, Writes
  <2> QED
    BY <1>2, <1>4, <2>1, <2>2 DEF TypeOK
<1>13. ASSUME NEW c \in Calls, Activate(c) PROVE CallsRight
  <2>1. FirstRequest(nav) = Idle \/ \E k \in {"me", "list", "audit"}, a \in {0, 1} :
                                        FirstRequest(nav) = Request(k, a)
    BY DEF FirstRequest
  <2>2. FirstRequest(nav) = Idle
        \/ /\ FirstRequest(nav) \in Requests /\ FirstRequest(nav).at = 0
           /\ FirstRequest(nav).phase = "sent"
    <3>1. ASSUME NEW k \in {"me", "list", "audit"}, NEW a \in {0, 1}
          PROVE  Request(k, a) \in Requests /\ Request(k, a).at = 0
                 /\ Request(k, a).phase = "sent"
      <4>1. k \in Api \cup Auth /\ a \in Nat
        BY <1>8
      <4> QED
        BY <4>1, NewRequest
    <3> QED
      BY <2>1, <3>1
  <2>3. ASSUME NEW d \in Calls
        PROVE  /\ call'[d] \in {Idle} \cup Requests
               /\ call'[d] # Idle => call'[d].at <= now'
               /\ call'[d] # Idle /\ call'[d].kind \in Auth /\ call'[d].phase = "back"
                  => call'[d].by \in Roles
    <3>1. CASE d = c
      BY <1>1, <1>13, <2>2, <3>1 DEF Activate
    <3>2. CASE d # c /\ call[d] = Idle
      BY <1>13, <3>2 DEF Activate
    <3>3. CASE d # c /\ call[d] # Idle
      <4>1. call'[d] = [call[d] EXCEPT !.home = FALSE] /\ call[d] \in Requests
        BY <1>13, <3>3, Slots DEF Activate
      <4>2. call'[d] \in Requests /\ call'[d].at = call[d].at /\ call'[d].by = call[d].by
            /\ call'[d].kind = call[d].kind /\ call'[d].phase = call[d].phase
        BY <4>1 DEF Requests
      <4> QED
        BY <1>2, <3>3, <4>2 DEF PairsHaveRoles
    <3> QED
      BY <3>1, <3>2, <3>3
  <2>4. call' \in [Calls -> {Idle} \cup Requests]
    BY <1>13, <2>3 DEF Activate
  <2>5. PairsHaveRoles'
    BY <2>3 DEF PairsHaveRoles
  <2> QED
    BY <2>3, <2>4, <2>5
<1>14. ASSUME NEW p \in Routes, OpenUrl(p) PROVE CallsRight
  BY <1>14 DEF OpenUrl, PairsHaveRoles
<1> QED
  BY <1>3, <1>9, <1>10, <1>11, <1>12, <1>13, <1>14
  DEF Next, Follow, Logout, OtherAdmin, ChunkFails, vars

(* What happens to the token and to the router. *)
LEMMA TokenStep ==
    ASSUME TypeOK, PairsHaveRoles, [Next]_vars
    PROVE  token' \in {None} \cup Tokens /\ nav' \in {None} \cup Routes
<1> USE PagesAssumption
<1>1. CASE UNCHANGED <<token, nav>>
  BY <1>1 DEF TypeOK
<1>2. ASSUME NEW p \in Routes PROVE Guard(p, token) \in Routes /\ Guard(p, None) \in Routes
                                    /\ Guard(p, token') \in Routes
  BY Leads
<1>3. "login" \in Routes /\ "dashboard" \in Routes
  BY DEF Routes, SignInPages, Guarded
<1>4. CASE \E c \in Calls : SignedIn(c) \/ Refreshed(c)
  <2>1. PICK c \in Calls : SignedIn(c) \/ Refreshed(c)
    BY <1>4
  <2>2. token' = [role |-> call[c].by, at |-> call[c].at]
    BY <2>1 DEF SignedIn, Refreshed
  <2>3. call[c].by \in Roles /\ call[c].at \in 0..MaxChanges
    BY <2>1, Slots DEF SignedIn, Refreshed, Back, PairsHaveRoles, Auth, Requests
  <2>4. nav' \in {None} \cup Routes
    BY <1>2, <1>3, <2>1 DEF SignedIn, Refreshed, Navigate, TypeOK
  <2> QED
    BY <2>2, <2>3, <2>4 DEF Tokens
<1>5. CASE \E c \in Calls : Renew(c)
  BY <1>5 DEF Renew, TypeOK, Tokens
<1>6. CASE Logout \/ \E c \in Calls : GiveUp(c)
  BY <1>2, <1>3, <1>6 DEF Logout, GiveUp, Navigate
<1>7. CASE \E p \in Routes : OpenUrl(p) \/ Follow(p)
  <2>1. token' = token /\ nav' \in {None} \cup Routes
    BY <1>2, <1>7 DEF OpenUrl, Follow, Navigate
  <2> QED
    BY <2>1 DEF TypeOK
<1>8. CASE ChunkFails \/ \E c \in Calls : Activate(c)
  BY <1>8 DEF ChunkFails, Activate, TypeOK
<1>9. ASSUME NEW c \in Calls,
             User(c) \/ Serve(c) \/ (Arrives(c) /\ ~SignedIn(c) /\ ~Refreshed(c) /\ ~GiveUp(c))
      PROVE  UNCHANGED <<token, nav>>
  <2>1. CASE User(c)
    BY <2>1 DEF User, EmailBlur, GoToPage, Submit, TogglePlan, Invite, ChangeRole, Send
  <2>2. CASE ~User(c)
    BY <1>9, <2>2 DEF Serve, Arrives, OrgsArrive, OrganizationArrives, PlanChanged,
       InvitationArrives, RoleChanged, MembersArrive, AuditArrives, Fails
  <2> QED
    BY <2>1, <2>2
<1> QED
  BY <1>1, <1>4, <1>5, <1>6, <1>7, <1>8, <1>9 DEF Next, OtherAdmin, vars

(* A new component stands at its first page, and loads or waits.           *)
LEMMA NewView ==
    ASSUME NEW p \in {"none"} \cup Routes
    PROVE  /\ View(p) \in Views /\ View(p).page = p
           /\ View(p).asked = IF p = "audit-log" THEN 1 ELSE 0
           /\ View(p).shown = 0 /\ ~View(p).doubt
           /\ View(p).busy <=> p \in {"members", "audit-log"}
<1>1. (IF p = "audit-log" THEN 1 ELSE 0) \in Nat
  OBVIOUS
<1>2. CASE p \in {"members", "audit-log"}
  <2>1. (p \in {"members", "audit-log"}) = TRUE
    BY <1>2
  <2> QED
    BY <1>1, <1>2, <2>1 DEF View, Views
<1>3. CASE p \notin {"members", "audit-log"}
  <2>1. (p \in {"members", "audit-log"}) = FALSE
    BY <1>3
  <2> QED
    BY <1>1, <1>3, <2>1 DEF View, Views
<1> QED
  BY <1>2, <1>3

(* What a failure leaves on the screen. *)
LEMMA Failed ==
    ASSUME TypeOK, NEW c \in Calls
    PROVE  /\ AfterFailure(c) \in Views /\ AfterFailure(c).page = view.page
           /\ AfterFailure(c).asked = view.asked
           /\ AfterFailure(c).busy
                <=> view.busy /\ call[c].kind \notin {"signin", "plan", "list", "audit"}
           /\ AfterFailure(c).shown = IF call[c].kind = "orgs" THEN 0 ELSE view.shown
           /\ AfterFailure(c).refused
                <=> view.refused \/ call[c].kind \in {"signin", "invite", "role", "audit"}
           /\ AfterFailure(c).doubt <=> view.doubt \/ call[c].kind = "list"
<1>1. view \in Views
  BY DEF TypeOK
<1> QED
  BY <1>1 DEF AfterFailure, Views

(* What happens on the screen: within a component its page stays.          *)
LEMMA ViewStep ==
    ASSUME TypeOK, HomesRight, [Next]_vars
    PROVE  /\ view' \in Views
           /\ view'.busy => view'.page \in SignInPages \cup {"dashboard", "members", "audit-log"}
           /\ ~(\E p \in Routes : OpenUrl(p)) /\ ~(\E c \in Calls : Activate(c))
                => view'.page = view.page
<1> USE PagesAssumption
<1> DEFINE Fits == view' \in Views /\ view'.page = view.page
<1>1. view \in Views /\ (view.busy =>
        view.page \in SignInPages \cup {"dashboard", "members", "audit-log"})
  BY DEF TypeOK
<1>2. CASE UNCHANGED view
  BY <1>1, <1>2
<1>3. ASSUME NEW p \in Routes, OpenUrl(p)
      PROVE  view' \in Views /\ ~view'.busy
  BY <1>3, NewView DEF OpenUrl
<1>4. ASSUME NEW c \in Calls, Activate(c)
      PROVE  view' \in Views /\ (view'.busy => view'.page \in {"members", "audit-log"})
  BY <1>4, NewView DEF Activate, TypeOK
<1>5. ASSUME NEW c \in Calls, User(c)
      PROVE  Fits /\ (view'.busy => view.busy \/ view.page \in
                        SignInPages \cup {"dashboard", "members", "audit-log"})
  <2>1. ASSUME NEW e \in 0..Emails, EmailBlur(c, e)
        PROVE  Fits /\ (view'.busy => view.busy)
    <3>1. view' = [view EXCEPT !.asked = 0]
          \/ view' = [view EXCEPT !.asked = e, !.doubt = Pending("orgs")]
      BY <2>1 DEF EmailBlur, Send
    <3>2. CASE view' = [view EXCEPT !.asked = 0]
      BY <1>1, <3>2 DEF Views
    <3>3. CASE view' = [view EXCEPT !.asked = e, !.doubt = Pending("orgs")]
      <4>1. e \in Nat /\ Pending("orgs") \in BOOLEAN
        BY DEF Pending
      <4> QED
        BY <1>1, <3>3, <4>1 DEF Views
    <3> QED
      BY <3>1, <3>2, <3>3
  <2>2. ASSUME NEW p \in 1..MaxChanges, GoToPage(c, p)
        PROVE  Fits /\ view.page = "audit-log"
    <3>1. view' = [view EXCEPT !.asked = p, !.busy = TRUE] /\ view.page = "audit-log"
      BY <2>2 DEF GoToPage, Send
    <3>2. p \in Nat
      OBVIOUS
    <3> QED
      BY <1>1, <3>1, <3>2 DEF Views
  <2>3. Submit(c) => Fits /\ view.page \in SignInPages
    BY <1>1 DEF Submit, Send, Views
  <2>4. TogglePlan(c) \/ Invite(c) \/ ChangeRole(c)
          => Fits /\ view.page \in {"dashboard", "members"}
    BY <1>1 DEF TogglePlan, Invite, ChangeRole, Send, Views
  <2> QED
    BY <1>5, <2>1, <2>2, <2>3, <2>4 DEF User
<1>6. ASSUME NEW c \in Calls, Arrives(c) PROVE Fits /\ (view'.busy => view.busy \/ view.page = "members")
  <2>1. call[c] # Idle => call[c] \in Requests /\ call[c].at <= now
    BY Slots
  <2>2. CASE Fails(c) \/ GiveUp(c)
    <3>1. view' = view \/ view' = AfterFailure(c)
      BY <2>2 DEF Fails, GiveUp, Shows
    <3> QED
      BY <1>1, <3>1, Failed
  <2>3. CASE InvitationArrives(c)
    BY <1>1, <2>3 DEF InvitationArrives
  <2>4. ASSUME Back(c)
        PROVE  call[c].arg \in Nat /\ call[c].at \in Nat /\ call[c].at + 1 \in Nat
               /\ (call[c].home => view.page \in PagesOf(call[c].kind))
    BY <2>1, <2>4 DEF Back, Requests, HomesRight
  <2>5. CASE SignedIn(c)
    <3>1. view' = [view EXCEPT !.doubt = @ \/ view.page = "dashboard"]
      BY <2>5 DEF SignedIn
    <3> QED
      BY <1>1, <3>1 DEF Views
  <2>6. CASE Refreshed(c)
    <3>1. \/ view' = [view EXCEPT !.busy = FALSE, !.doubt = FALSE]
          \/ view' = [view EXCEPT !.doubt = @ \/ view.page = "dashboard"]
      BY <2>6 DEF Refreshed
    <3> QED
      BY <1>1, <3>1 DEF Views
  <2>7. CASE OrgsArrive(c) \/ OrganizationArrives(c)
    <3>1. Back(c)
      BY <2>7 DEF OrgsArrive, OrganizationArrives
    <3>2. \/ view' = view \/ view' = [view EXCEPT !.shown = call[c].arg]
          \/ view' = [view EXCEPT !.shown = call[c].at + 1]
      BY <2>7 DEF OrgsArrive, OrganizationArrives, Shows
    <3> QED
      BY <1>1, <2>4, <3>1, <3>2 DEF Views
  <2>8. CASE PlanChanged(c)
    <3>1. Back(c)
      BY <2>8 DEF PlanChanged
    <3>2. \/ view' = view
          \/ view' = [view EXCEPT !.shown = call[c].at + 1, !.asked = call[c].at]
      BY <2>8 DEF PlanChanged, Shows
    <3> QED
      BY <1>1, <2>4, <3>1, <3>2 DEF Views
  <2>9. CASE MembersArrive(c)
    <3>1. Back(c)
      BY <2>9 DEF MembersArrive
    <3>2. \/ view' = view
          \/ view' = [view EXCEPT !.shown = call[c].at + 1, !.busy = FALSE]
      BY <2>9 DEF MembersArrive, Shows
    <3> QED
      BY <1>1, <2>4, <3>1, <3>2 DEF Views
  <2>10. CASE AuditArrives(c)
    <3> DEFINE n == IF call[c].at = 0 THEN 1 ELSE call[c].at
    <3>1. Back(c)
      BY <2>10 DEF AuditArrives
    <3>2. \/ view' = view
          \/ view' = [view EXCEPT !.shown = call[c].arg, !.busy = FALSE, !.pages = n]
      BY <2>10 DEF AuditArrives, Shows
    <3>3. n \in Nat
      BY <2>4, <3>1
    <3> HIDE DEF n
    <3> QED
      BY <1>1, <2>4, <3>1, <3>2, <3>3 DEF Views
  <2>11. CASE RoleChanged(c)
    <3>1. Back(c) /\ call[c].kind = "role"
      BY <2>11 DEF RoleChanged
    <3>2. \/ view' = view
          \/ /\ call[c].home
             /\ view' = [view EXCEPT !.asked = call[c].at + 1, !.busy = TRUE,
                                     !.doubt = Pending("list")]
      BY <2>11 DEF RoleChanged, Shows
    <3>3. call[c].home => view.page = "members"
      BY <2>4, <3>1 DEF PagesOf
    <3>4. Pending("list") \in BOOLEAN
      BY DEF Pending
    <3> QED
      BY <1>1, <2>4, <3>1, <3>2, <3>3, <3>4 DEF Views
  <2> QED
    BY <1>6, <2>2, <2>3, <2>5, <2>6, <2>7, <2>8, <2>9, <2>10, <2>11 DEF Arrives
<1> QED
  BY <1>1, <1>2, <1>3, <1>4, <1>5, <1>6
  DEF Next, Follow, Logout, OtherAdmin, ChunkFails, Serve, Renew, vars

(* Every step keeps the shape of the client's state. *)
LEMMA TypeStep ==
    ASSUME TypeOK, PairsHaveRoles, HomesRight, [Next]_vars PROVE TypeOK'
<1>1. broken' \in BOOLEAN
  <2>1. broken' \in {broken, TRUE, FALSE}
    <3>1. ASSUME NEW c \in Calls, User(c) PROVE broken' = broken
      BY <3>1 DEF User, EmailBlur, GoToPage, Submit, TogglePlan, Invite, ChangeRole, Send
    <3>2. ASSUME NEW c \in Calls, Arrives(c) PROVE broken' \in {broken, TRUE, FALSE}
      BY <3>2 DEF Arrives, OrgsArrive, SignedIn, OrganizationArrives, PlanChanged, Refreshed,
         InvitationArrives, RoleChanged, MembersArrive, AuditArrives, Fails, GiveUp
    <3> QED
      BY <3>1, <3>2 DEF Next, OpenUrl, Follow, Logout, OtherAdmin, ChunkFails, Activate,
         Serve, Renew, vars
  <2> QED
    BY <2>1 DEF TypeOK
<1>2. uses' \in 0..MaxUses
  BY PagesAssumption DEF Next, vars, TypeOK
<1> QED
  BY <1>1, <1>2, NowGrows, CallsStep, TokenStep, ViewStep DEF TypeOK

(* A component sends what its page is for, and a component that is left    *)
(* takes no answer.                                                        *)
LEMMA HomesStep ==
    ASSUME TypeOK, PairsHaveRoles, HomesRight, [Next]_vars PROVE HomesRight'
<1> DEFINE Fits(d) == call'[d] # Idle /\ call'[d].home => view'.page \in PagesOf(call'[d].kind)
<1>1. CASE \E p \in Routes : OpenUrl(p)
  BY <1>1 DEF OpenUrl, HomesRight
<1>2. ASSUME NEW c \in Calls, Activate(c) PROVE HomesRight'
  <2>1. view'.page = nav /\ nav \in Routes
    BY <1>2, NewView DEF Activate, TypeOK
  <2>2. ASSUME NEW d \in Calls, d # c PROVE Fits(d)
    <3>1. CASE call[d] = Idle
      BY <1>2, <2>2, <3>1 DEF Activate
    <3>2. CASE call[d] # Idle
      <4>1. call'[d] = [call[d] EXCEPT !.home = FALSE] /\ call[d] \in Requests
        BY <1>2, <2>2, <3>2, Slots DEF Activate
      <4>2. ~call'[d].home
        BY <4>1 DEF Requests
      <4> QED
        BY <4>2
    <3> QED
      BY <3>1, <3>2
  <2>3. Fits(c)
    <3>1. call'[c] = FirstRequest(nav)
      BY <1>2 DEF Activate
    <3>2. CASE nav = "dashboard"
      BY <2>1, <3>1, <3>2 DEF FirstRequest, Request, PagesOf
    <3>3. CASE nav = "members"
      BY <2>1, <3>1, <3>3 DEF FirstRequest, Request, PagesOf
    <3>4. CASE nav = "audit-log"
      BY <2>1, <3>1, <3>4 DEF FirstRequest, Request, PagesOf
    <3>5. CASE nav \notin {"dashboard", "members", "audit-log"}
      BY <3>1, <3>5 DEF FirstRequest
    <3> QED
      BY <3>2, <3>3, <3>4, <3>5
  <2> QED
    BY <2>2, <2>3 DEF HomesRight
<1>3. CASE view'.page = view.page /\ UNCHANGED call
  BY <1>3 DEF HomesRight
<1>4. ASSUME view'.page = view.page, NEW c \in Calls, NEW r \in {Idle} \cup Requests,
             call' = [call EXCEPT ![c] = r],
             r # Idle /\ r.home => view.page \in PagesOf(r.kind)
      PROVE  HomesRight'
  BY <1>4, SlotSet DEF HomesRight
<1>5. ASSUME NEW c \in Calls, NEW k \in Api \cup Auth, NEW a \in Nat, view'.page = view.page,
             call' = [call EXCEPT ![c] = Request(k, a)], view.page \in PagesOf(k)
      PROVE  HomesRight'
  BY <1>4, <1>5, NewRequest
<1>6. {"orgs", "signin", "plan", "invite", "role", "audit", "me", "list", "refresh"}
          = Api \cup Auth
  BY DEF Api, Auth, Reads, Writes
<1>7. ASSUME NEW c \in Calls, User(c), view'.page = view.page PROVE HomesRight'
  <2>1. ASSUME NEW e \in 0..Emails, EmailBlur(c, e) PROVE HomesRight'
    <3>1. \/ UNCHANGED call
          \/ call' = [call EXCEPT ![c] = Request("orgs", e)] /\ view.page = "login"
      BY <2>1 DEF EmailBlur, Send
    <3>2. "login" \in PagesOf("orgs") /\ e \in Nat
      BY DEF PagesOf
    <3> QED
      BY <1>3, <1>5, <1>6, <1>7, <3>1, <3>2
  <2>2. ASSUME NEW p \in 1..MaxChanges, GoToPage(c, p) PROVE HomesRight'
    <3>1. call' = [call EXCEPT ![c] = Request("audit", p)] /\ view.page = "audit-log"
      BY <2>2 DEF GoToPage, Send
    <3>2. p \in Nat /\ "audit" \in Api \cup Auth /\ "audit-log" \in PagesOf("audit")
      BY <1>6 DEF PagesOf
    <3> QED
      BY <1>5, <1>7, <3>1, <3>2
  <2>3. CASE Submit(c)
    <3>1. call' = [call EXCEPT ![c] = Request("signin", 0)] /\ view.page \in PagesOf("signin")
      BY <2>3 DEF Submit, Send, PagesOf
    <3> QED
      BY <1>5, <1>6, <1>7, <3>1
  <2>4. CASE TogglePlan(c)
    <3>1. call' = [call EXCEPT ![c] = Request("plan", 0)] /\ view.page \in PagesOf("plan")
      BY <2>4 DEF TogglePlan, Send, PagesOf
    <3> QED
      BY <1>5, <1>6, <1>7, <3>1
  <2>5. CASE Invite(c)
    <3>1. call' = [call EXCEPT ![c] = Request("invite", 0)] /\ view.page \in PagesOf("invite")
      BY <2>5 DEF Invite, Send, PagesOf
    <3> QED
      BY <1>5, <1>6, <1>7, <3>1
  <2>6. CASE ChangeRole(c)
    <3>1. call' = [call EXCEPT ![c] = Request("role", 0)] /\ view.page \in PagesOf("role")
      BY <2>6 DEF ChangeRole, Send, PagesOf
    <3> QED
      BY <1>5, <1>6, <1>7, <3>1
  <2> QED
    BY <1>7, <2>1, <2>2, <2>3, <2>4, <2>5, <2>6 DEF User
<1>8. ASSUME NEW c \in Calls, Arrives(c), view'.page = view.page PROVE HomesRight'
  <2>1. ASSUME NEW k \in {"refresh", "list"}, Back(c), PagesOf(k) = PagesOf(call[c].kind),
               call' = [call EXCEPT ![c] = [Request(k, 0) EXCEPT !.home = call[c].home]]
        PROVE  HomesRight'
    <3> DEFINE r == [Request(k, 0) EXCEPT !.home = call[c].home]
    <3>1. call[c].home \in BOOLEAN /\ (call[c].home => view.page \in PagesOf(k))
      BY <2>1, Slots DEF Back, Requests, HomesRight
    <3>2. r \in Requests /\ r.home = call[c].home /\ r.kind = k
      BY <1>6, <3>1, NextRequest
    <3>3. call' = [call EXCEPT ![c] = r]
      BY <2>1
    <3> HIDE DEF r
    <3> QED
      BY <1>4, <1>8, <3>1, <3>2, <3>3
  <2>2. CASE PlanChanged(c)
    <3>1. PagesOf("refresh") = PagesOf("plan")
      BY DEF PagesOf
    <3> QED
      BY <2>1, <2>2, <3>1 DEF PlanChanged
  <2>3. CASE RoleChanged(c)
    <3>1. PagesOf("list") = PagesOf("role")
      BY DEF PagesOf
    <3> QED
      BY <2>1, <2>3, <3>1 DEF RoleChanged
  <2>4. CASE ~(PlanChanged(c) \/ RoleChanged(c))
    <3>1. call' = [call EXCEPT ![c] = Idle]
      BY <1>8, <2>4 DEF Arrives, OrgsArrive, SignedIn, OrganizationArrives, Refreshed,
         InvitationArrives, MembersArrive, AuditArrives, Fails, GiveUp, Done
    <3> QED
      BY <1>4, <1>8, <3>1
  <2> QED
    BY <2>2, <2>3, <2>4
<1>9. ASSUME NEW c \in Calls, Serve(c) \/ Renew(c) PROVE HomesRight'
  <2>1. PICK r \in Requests : /\ call' = [call EXCEPT ![c] = r]
                              /\ r.kind = call[c].kind /\ r.home = call[c].home
    BY <1>9, NowGrows, ServeMeans, RenewMeans
  <2>2. call[c] # Idle
    BY <1>9, Slots DEF Serve, Renew, Api, Reads, Writes
  <2>3. view' = view
    BY <1>9 DEF Serve, Renew
  <2> QED
    BY <1>4, <2>1, <2>2, <2>3 DEF HomesRight
<1>10. CASE ~((\E p \in Routes : OpenUrl(p)) \/ (\E c \in Calls : Activate(c)))
  <2>1. view'.page = view.page
    BY <1>10, ViewStep
  <2> QED
    BY <1>3, <1>7, <1>8, <1>9, <1>10, <2>1
    DEF Next, Follow, Logout, OtherAdmin, ChunkFails, vars
<1> QED
  BY <1>1, <1>2, <1>10

-----------------------------------------------------------------------------
(* Losing the token means being on the way to /login, or there.            *)
LEMMA GuardStep ==
    ASSUME TypeOK, PairsHaveRoles, HomesRight, NavGuarded, GuardHolds, [Next]_vars
    PROVE  NavGuarded' /\ GuardHolds'
<1> USE PagesAssumption DEF Signed
<1>1. None \notin Guarded /\ "login" \notin Guarded
  BY DEF Routes, Guarded
<1>2. ASSUME NEW p \in Routes PROVE token = None => Guard(p, token) \notin Guarded
  BY <1>2, Leads
<1>3. CASE UNCHANGED <<token, nav, view, broken>>
  BY <1>3 DEF NavGuarded, GuardHolds
<1>4. ASSUME NEW p \in Routes, OpenUrl(p) PROVE NavGuarded' /\ GuardHolds'
  BY <1>1, <1>2, <1>4, NewView DEF OpenUrl, NavGuarded, GuardHolds, Guarded
<1>5. ASSUME NEW p \in Routes, Follow(p) PROVE NavGuarded' /\ GuardHolds'
  <2>1. token = None => Guard(p, token) \notin Guarded
    BY <1>2
  <2>2. Guard(p, token) \in Routes /\ None \notin Routes
    BY Leads
  <2>3. /\ UNCHANGED <<token, view, broken>>
        /\ nav' = IF Guard(p, token) = view.page THEN None ELSE Guard(p, token)
    BY <1>5 DEF Follow, Navigate
  <2> QED
    BY <1>1, <2>1, <2>2, <2>3 DEF NavGuarded, GuardHolds
<1>6. ASSUME NEW c \in Calls, Activate(c) PROVE NavGuarded' /\ GuardHolds'
  <2>1. view'.page = nav /\ nav' = None /\ token' = token
    BY <1>6, NewView DEF Activate, TypeOK
  <2> QED
    BY <1>1, <2>1 DEF NavGuarded, GuardHolds
<1>7. CASE ChunkFails
  BY <1>1, <1>7 DEF ChunkFails, NavGuarded, GuardHolds
<1>8. ASSUME token' \in Tokens PROVE NavGuarded' /\ GuardHolds'
  <2>1. token' # None
    BY <1>8 DEF Tokens
  <2> QED
    BY <2>1 DEF NavGuarded, GuardHolds
<1>9. ASSUME NEW c \in Calls, SignedIn(c) \/ Refreshed(c) \/ Renew(c)
      PROVE  NavGuarded' /\ GuardHolds'
  <2>1. token' \in Tokens
    <3>1. token' \in {None} \cup Tokens
      BY TokenStep
    <3>2. CASE Renew(c)
      BY <3>2 DEF Renew, TypeOK, Tokens
    <3>3. CASE SignedIn(c) \/ Refreshed(c)
      <4>1. token' = [role |-> call[c].by, at |-> call[c].at]
        BY <3>3 DEF SignedIn, Refreshed
      <4>2. call[c].by \in Roles /\ call[c].at \in 0..MaxChanges
        BY <3>3, Slots DEF SignedIn, Refreshed, Back, PairsHaveRoles, Auth, Requests
      <4> QED
        BY <4>1, <4>2 DEF Tokens
    <3> QED
      BY <1>9, <3>2, <3>3
  <2> QED
    BY <1>8, <2>1
<1>10. ASSUME view'.page = view.page, Navigate("login", None) PROVE NavGuarded' /\ GuardHolds'
  <2>1. nav' = IF view.page = "login" THEN None ELSE "login"
    BY <1>1, <1>10 DEF Navigate, Guard
  <2>2. "login" # None
    BY DEF Routes, SignInPages
  <2> QED
    BY <1>1, <1>10, <2>1, <2>2 DEF NavGuarded, GuardHolds
<1>11. CASE Logout
  BY <1>10, <1>11 DEF Logout
<1>12. ASSUME NEW c \in Calls, GiveUp(c) PROVE NavGuarded' /\ GuardHolds'
  <2>1. view'.page = view.page
    BY <1>12, Failed DEF GiveUp, Shows
  <2> QED
    BY <1>10, <1>12, <2>1 DEF GiveUp
<1>13. ASSUME NEW c \in Calls, User(c) \/ Serve(c) PROVE NavGuarded' /\ GuardHolds'
  <2>1. UNCHANGED <<token, nav, broken>>
    BY <1>13 DEF User, EmailBlur, GoToPage, Submit, TogglePlan, Invite, ChangeRole, Send, Serve
  <2>2. view'.page = view.page
    <3>1. CASE User(c)
      <4>1. view \in Views
        BY DEF TypeOK
      <4> QED
        BY <3>1, <4>1 DEF User, EmailBlur, GoToPage, Submit, TogglePlan, Invite, ChangeRole,
           Send, Views
    <3> QED
      BY <1>13, <3>1 DEF Serve
  <2> QED
    BY <2>1, <2>2 DEF NavGuarded, GuardHolds
<1>14. ASSUME NEW c \in Calls, Arrives(c), ~SignedIn(c), ~Refreshed(c), ~GiveUp(c)
       PROVE  NavGuarded' /\ GuardHolds'
  <2>1. UNCHANGED <<token, nav>> /\ (broken => broken')
    <3>1. CASE Fails(c)
      BY <3>1, Zenon DEF Fails
    <3>2. CASE ~Fails(c)
      <4>1. UNCHANGED <<token, nav, broken>>
        BY <1>14, <3>2 DEF Arrives, OrgsArrive, OrganizationArrives, PlanChanged,
           InvitationArrives, RoleChanged, MembersArrive, AuditArrives
      <4> QED
        BY <4>1
    <3> QED
      BY <3>1, <3>2
  <2>2. view'.page = view.page
    <3>1. view \in Views
      BY DEF TypeOK
    <3> QED
      BY <1>14, <3>1, Failed DEF Arrives, OrgsArrive, OrganizationArrives, PlanChanged,
         InvitationArrives, RoleChanged, MembersArrive, AuditArrives, Fails, Shows, Views
  <2> QED
    BY <2>1, <2>2 DEF NavGuarded, GuardHolds
<1> QED
  BY <1>3, <1>4, <1>5, <1>6, <1>7, <1>9, <1>11, <1>12, <1>13, <1>14
  DEF Next, Arrives, OtherAdmin, vars
-----------------------------------------------------------------------------
(* The kinds of requests that Followed is about. *)
Watched == {"orgs", "list", "audit", "plan", "refresh"}

(* The watched requests of the component on the screen stay what they are, *)
(* and what comes back is of now.                                          *)
KeepsRequests ==
    \A d \in Calls, k \in Watched :
        /\ Home(d, k)' <=> Home(d, k)
        /\ Home(d, k) =>
              /\ call'[d].arg = call[d].arg
              /\ call'[d].phase = "back" =>
                    \/ call[d].phase = "back" /\ call'[d].at = call[d].at
                    \/ call'[d].at = now'

LEMMA PendingIs ==
    ASSUME NEW k PROVE Pending(k) <=> \E c \in Calls : Home(c, k)
BY DEF Pending, Home

LEMMA PendingWas ==
    ASSUME NEW k PROVE Pending(k)' <=> \E c \in Calls : Home(c, k)'
BY DEF Pending, Home

(* Filling or emptying a slot, seen from the component on the screen. *)
LEMMA SlotHomes ==
    ASSUME TypeOK, NEW c \in Calls, NEW r \in {Idle} \cup Requests,
           call' = [call EXCEPT ![c] = r]
    PROVE  \A k \in Watched :
              /\ \A d \in Calls \ {c} : Home(d, k)' <=> Home(d, k)
              /\ Home(c, k)' <=> (r # Idle /\ r.home /\ r.kind = k)
BY SlotSet DEF Home

LEMMA Unwatched ==
    ASSUME TypeOK, NEW c \in Calls, NEW r \in {Idle} \cup Requests,
           call' = [call EXCEPT ![c] = r],
           \A k \in Watched : ~Home(c, k) /\ ~(r # Idle /\ r.home /\ r.kind = k)
    PROVE  KeepsRequests
<1> SUFFICES ASSUME NEW d \in Calls, NEW k \in Watched
             PROVE  /\ Home(d, k)' <=> Home(d, k)
                    /\ Home(d, k) =>
                          /\ call'[d].arg = call[d].arg
                          /\ call'[d].phase = "back" =>
                                \/ call[d].phase = "back" /\ call'[d].at = call[d].at
                                \/ call'[d].at = now'
  BY DEF KeepsRequests
<1>1. CASE d = c
  BY <1>1, SlotHomes
<1>2. CASE d # c
  <2>1. call'[d] = call[d]
    BY <1>2, SlotSet
  <2> QED
    BY <2>1 DEF Home
<1> QED
  BY <1>1, <1>2

(* A step that neither moves on what a page stands at nor touches its      *)
(* requests.                                                               *)
LEMMA Untouched ==
    ASSUME TypeOK, TypeOK', Followed, now <= now', KeepsRequests,
           view'.page = view.page, view'.asked = view.asked,
           view'.shown = view.shown \/ view.page = "dashboard",
           view.doubt => view'.doubt,
           view.page = "audit-log" /\ view.refused => view'.refused,
           view.page \in {"audit-log", "dashboard"} => (view'.busy <=> view.busy),
           \/ token' \in {token, None}
           \/ view.page # "dashboard" \/ view'.doubt
           \/ token' \in Tokens /\ token'.at = now'
    PROVE  Followed'
<1>1. /\ AuditLoads /\ RolesPast /\ PlanFollowed
      /\ ~view'.doubt => Offers /\ ListsFresh /\ TokenFollows
  BY DEF Followed
<1>2. \A k \in Watched : Pending(k)' <=> Pending(k)
  BY PendingIs, PendingWas DEF KeepsRequests
<1>3. now \in Nat /\ now' \in Nat /\ view.asked \in Nat
  BY PagesAssumption DEF TypeOK, Views
<1>4. ASSUME ~view'.doubt PROVE Offers'
  BY <1>1, <1>2, <1>4 DEF Offers, OffersMatch, KeepsRequests, Watched
<1>5. RolesPast'
  BY <1>1, <1>3 DEF RolesPast
<1>6. ASSUME ~view'.doubt PROVE ListsFresh'
  <2> SUFFICES ASSUME view'.page = "members" PROVE ListsFresh'
    BY DEF ListsFresh
  <2>1. ListsFresh /\ view.page = "members" /\ view'.shown = view.shown
    BY <1>1, <1>6
  <2>2. MembersFresh'
    BY <1>2, <2>1 DEF ListsFresh, MembersFresh, Watched
  <2>3. ASSUME NEW d \in Calls, Home(d, "list")', call'[d].phase = "back"
        PROVE  view'.asked <= call'[d].at + 1
    BY <1>5, <2>1, <2>3 DEF KeepsRequests, ListsFresh, RolesPast, Watched
  <2> QED
    BY <2>2, <2>3 DEF ListsFresh
<1>7. AuditLoads'
  <2> SUFFICES ASSUME view'.page = "audit-log" PROVE AuditLoads'
    BY DEF AuditLoads
  <2>1. /\ AuditLoads /\ view.page = "audit-log" /\ view'.shown = view.shown
        /\ view'.busy <=> view.busy
        /\ view.refused => view'.refused
    BY <1>1
  <2> QED
    BY <1>2, <2>1 DEF AuditLoads, AuditMatch, KeepsRequests, Watched
<1>8. ASSUME view'.page = "dashboard"
      PROVE  \A d \in Calls : /\ Planning(d)' <=> Planning(d)
                              /\ Home(d, "plan")' <=> Home(d, "plan")
                              /\ Home(d, "refresh")' <=> Home(d, "refresh")
  BY DEF KeepsRequests, Planning, Watched
<1>9. PlanFollowed'
  <2> SUFFICES ASSUME view'.page = "dashboard" PROVE PlanFollowed'
    BY DEF PlanFollowed
  <2>1. PlanFollowed /\ view.page = "dashboard" /\ (view'.busy <=> view.busy)
    BY <1>1
  <2>2. view.asked <= now /\ view.asked <= now'
    BY <1>3, <2>1 DEF PlanFollowed
  <2>3. ASSUME NEW d \in Calls, Home(d, "refresh")', call'[d].phase = "back"
        PROVE  view'.asked <= call'[d].at
    BY <2>1, <2>2, <2>3 DEF KeepsRequests, PlanFollowed, Watched
  <2> QED
    BY <1>8, <2>1, <2>2, <2>3 DEF PlanFollowed
<1>10. ASSUME ~view'.doubt PROVE TokenFollows'
  <2> SUFFICES ASSUME view'.page = "dashboard", Signed',
                      ~view'.busy \/ \E d \in Calls : Home(d, "plan")'
               PROVE  view'.asked <= token'.at
    BY DEF TokenFollows
  <2>1. /\ TokenFollows /\ PlanFollowed'
        /\ view.page = "dashboard" /\ (view'.busy <=> view.busy)
    BY <1>1, <1>9, <1>10
  <2> QED
    BY <1>8, <1>10, <2>1 DEF TokenFollows, PlanFollowed, Signed
<1> QED
  BY <1>4, <1>5, <1>6, <1>7, <1>9, <1>10 DEF Followed
(* A change of the screen alone. *)
LEMMA Quiet == ASSUME UNCHANGED call PROVE KeepsRequests
BY DEF KeepsRequests, Home

(* A new component asks for what it stands at, or stands at nothing.       *)
LEMMA ActivateFollowed ==
    ASSUME TypeOK, TypeOK', HomesRight', NEW c \in Calls, Activate(c) PROVE Followed'
<1> DEFINE r == FirstRequest(nav)
<1>1. /\ nav \in Routes /\ view'.page = nav /\ view'.shown = 0
      /\ view'.asked = IF nav = "audit-log" THEN 1 ELSE 0
      /\ view'.busy <=> nav \in {"members", "audit-log"}
  BY NewView DEF Activate, TypeOK
<1>2. \A d \in Calls \ {c} : ~(call'[d] # Idle /\ call'[d].home)
  <2> SUFFICES ASSUME NEW d \in Calls \ {c}, call[d] # Idle
               PROVE  ~call'[d].home
    BY DEF Activate
  <2>1. call'[d] = [call[d] EXCEPT !.home = FALSE] /\ call[d] \in Requests
    BY Slots DEF Activate
  <2> QED
    BY <2>1 DEF Requests
<1>3. call'[c] = r
  BY DEF Activate
<1>4. \A d \in Calls : call'[d] # Idle => call'[d].at \in Nat
  BY PagesAssumption DEF TypeOK, Requests
<1>5. CASE nav = "login"
  BY <1>1, <1>5
  DEF Followed, Offers, OffersMatch, ListsFresh, AuditLoads, RolesPast, PlanFollowed, TokenFollows
<1>6. CASE nav = "members"
  <2>1. r.phase = "sent"
    BY <1>6 DEF FirstRequest, Request
  <2>2. \A d \in Calls : Home(d, "list")' => d = c
    BY <1>2 DEF Home
  <2>3. now' \in Nat
    BY PagesAssumption DEF TypeOK
  <2>4. \A d \in Calls : Home(d, "list")' => call'[d].phase = "sent"
    BY <1>3, <2>1, <2>2
  <2>5. view'.page = "members" /\ view'.asked = 0 /\ view'.shown = 0
    BY <1>1, <1>6
  <2>6. ListsFresh'
    <3> HIDE DEF r
    <3>1. \A d \in Calls : ~(Home(d, "list")' /\ call'[d].phase = "back")
      BY <2>4
    <3>2. MembersFresh'
      BY <2>5 DEF MembersFresh
    <3> QED
      BY <3>1, <3>2 DEF ListsFresh
  <2>7. RolesPast'
    <3>1. \A n \in Nat : 0 <= n + 1
      OBVIOUS
    <3> QED
      BY <2>3, <2>5, <3>1 DEF RolesPast
  <2> QED
    BY <2>5, <2>6, <2>7 DEF Followed, Offers, AuditLoads, PlanFollowed, TokenFollows
<1>7. CASE nav = "audit-log"
  <2>1. r.arg = 1 /\ r.kind = "audit" /\ r.home /\ r # Idle
    <3>1. "audit" \in Api \cup Auth
      BY DEF Api, Reads
    <3> QED
      BY <1>7, <3>1, NewRequest, RequestsBusy DEF FirstRequest
  <2>2. \A d \in Calls : Home(d, "audit")' <=> d = c
    BY <1>2, <1>3, <2>1 DEF Home
  <2>3. Pending("audit")'
    BY <2>2, PendingWas
  <2> QED
    BY <1>1, <1>3, <1>7, <2>1, <2>2, <2>3
    DEF Followed, Offers, AuditMatch, ListsFresh, AuditLoads, RolesPast, PlanFollowed,
        TokenFollows
<1>8. CASE nav = "dashboard"
  <2>1. r.kind = "me"
    BY <1>8 DEF FirstRequest, Request
  <2>2. \A d \in Calls : ~Planning(d)' /\ ~Home(d, "refresh")'
    BY <1>2, <1>3, <2>1 DEF Planning, Home
  <2>3. now' \in Nat /\ (Signed' => token'.at \in Nat)
    BY PagesAssumption DEF TypeOK, Tokens, Signed
  <2> QED
    BY <1>1, <1>8, <2>2, <2>3
    DEF Followed, Offers, ListsFresh, AuditLoads, RolesPast, PlanFollowed, TokenFollows
<1>9. CASE nav \notin {"login", "members", "audit-log", "dashboard"}
  BY <1>1, <1>9
  DEF Followed, Offers, ListsFresh, AuditLoads, RolesPast, PlanFollowed, TokenFollows
<1> QED
  BY <1>5, <1>6, <1>7, <1>8, <1>9

(* What the user does: a page that changes what it stands at sends the     *)
(* request for it.                                                         *)
LEMMA UserFollowed ==
    ASSUME TypeOK, TypeOK', HomesRight, Followed, NEW c \in Calls, User(c) PROVE Followed'
<1> USE PagesAssumption
<1>1. /\ view \in Views /\ now \in Nat
      /\ {"orgs", "signin", "plan", "invite", "role", "audit", "me", "list", "refresh"}
           = Api \cup Auth
  BY DEF TypeOK, Api, Auth, Reads, Writes
<1>2. UNCHANGED <<now, role, token, nav, broken>>
  BY DEF User, EmailBlur, GoToPage, Submit, TogglePlan, Invite, ChangeRole, Send
<1>3. now <= now'
  BY <1>1, <1>2
<1>4. ASSUME NEW e \in 0..Emails, EmailBlur(c, e) PROVE Followed'
  <2>1. view.page = "login"
    BY <1>4 DEF EmailBlur
  <2>2. CASE e = 0
    <3>1. view' = [view EXCEPT !.asked = 0]
      BY <1>4, <2>2 DEF EmailBlur
    <3>2. view'.page = "login" /\ view'.asked = 0
      BY <1>1, <2>1, <3>1 DEF Views
    <3> QED
      BY <3>2 DEF Followed, Offers, OffersMatch, ListsFresh, AuditLoads, RolesPast,
         PlanFollowed, TokenFollows
  <2>3. CASE e # 0
    <3> DEFINE r == Request("orgs", e)
    <3>1. /\ call[c] = Idle /\ call' = [call EXCEPT ![c] = r]
          /\ view' = [view EXCEPT !.asked = e, !.doubt = Pending("orgs")]
      BY <1>4, <2>3 DEF EmailBlur, Send
    <3>2. e \in Nat /\ "orgs" \in Watched
      BY DEF Watched
    <3>3. r \in Requests /\ r # Idle /\ r.home /\ r.kind = "orgs" /\ r.arg = e
      BY <1>1, <3>2, NewRequest, RequestsBusy
    <3>4. /\ view'.page = "login" /\ view'.asked = e
          /\ view'.doubt <=> Pending("orgs")
      BY <1>1, <2>1, <3>1, <3>2 DEF Views
    <3> HIDE DEF r
    <3>5. call'[c] = r /\ Home(c, "orgs")'
      BY <3>1, <3>2, <3>3, SlotSet, SlotHomes
    <3>6. \A d \in Calls \ {c} : Home(d, "orgs")' <=> Home(d, "orgs")
      BY <3>1, <3>2, <3>3, SlotHomes
    <3>7. Pending("orgs")'
      BY <3>5, PendingWas
    <3>8. ~Pending("orgs") => \A d \in Calls : Home(d, "orgs")' => d = c
      BY <3>6, PendingIs
    <3>9. ~view'.doubt => Offers'
      BY <3>3, <3>4, <3>5, <3>7, <3>8 DEF Offers, OffersMatch
    <3> QED
      BY <3>4, <3>9
      DEF Followed, ListsFresh, AuditLoads, RolesPast, PlanFollowed, TokenFollows
  <2> QED
    BY <2>2, <2>3
<1>5. ASSUME NEW p \in 1..MaxChanges, GoToPage(c, p) PROVE Followed'
  <2> DEFINE r == Request("audit", p)
  <2>1. /\ view.page = "audit-log" /\ ~view.busy
        /\ call[c] = Idle /\ call' = [call EXCEPT ![c] = r]
        /\ view' = [view EXCEPT !.asked = p, !.busy = TRUE]
    BY <1>5 DEF GoToPage, Send
  <2>2. p \in Nat /\ "audit" \in Watched
    BY DEF Watched
  <2>3. r \in Requests /\ r # Idle /\ r.home /\ r.kind = "audit" /\ r.arg = p
    BY <1>1, <2>2, NewRequest, RequestsBusy
  <2>4. /\ view'.page = "audit-log" /\ view'.asked = p /\ view'.busy
    BY <1>1, <2>1, <2>2 DEF Views
  <2> HIDE DEF r
  <2>5. call'[c] = r /\ Home(c, "audit")'
    BY <2>1, <2>2, <2>3, SlotSet, SlotHomes
  <2>6. \A d \in Calls \ {c} : Home(d, "audit")' <=> Home(d, "audit")
    BY <2>1, <2>2, <2>3, SlotHomes
  <2>7. Pending("audit")'
    BY <2>5, PendingWas
  <2>8. \A d \in Calls : Home(d, "audit")' => d = c
    BY <2>1, <2>6 DEF Followed, AuditLoads
  <2> QED
    BY <2>3, <2>4, <2>5, <2>7, <2>8
    DEF Followed, Offers, AuditMatch, ListsFresh, AuditLoads, RolesPast, PlanFollowed,
        TokenFollows
<1>6. ASSUME NEW k \in {"signin", "invite", "role"}, call[c] = Idle,
             call' = [call EXCEPT ![c] = Request(k, 0)]
      PROVE  KeepsRequests
  <2>1. Request(k, 0) \in Requests /\ Request(k, 0).kind = k /\ k \notin Watched
    BY <1>1, NewRequest DEF Watched
  <2> QED
    BY <1>6, <2>1, Unwatched DEF Home
<1>7. CASE Submit(c) \/ Invite(c) \/ ChangeRole(c)
  <2>1. KeepsRequests
    BY <1>6, <1>7 DEF Submit, Invite, ChangeRole, Send
  <2>2. /\ view'.page = view.page /\ view'.asked = view.asked /\ view'.shown = view.shown
        /\ view'.doubt <=> view.doubt
        /\ view.page = "audit-log" => (view'.refused <=> view.refused)
        /\ view.page \in {"audit-log", "dashboard"} => (view'.busy <=> view.busy)
    <3>1. CASE Submit(c)
      <4>1. /\ view' = [view EXCEPT !.busy = TRUE, !.refused = FALSE]
            /\ view.page \in SignInPages
        BY <3>1 DEF Submit, Send
      <4> QED
        BY <1>1, <4>1 DEF Views, SignInPages
    <3>2. CASE Invite(c) \/ ChangeRole(c)
      <4>1. /\ view' = [view EXCEPT !.refused = FALSE]
            /\ view.page \in {"dashboard", "members"}
        BY <3>2 DEF Invite, ChangeRole, Send
      <4> QED
        BY <1>1, <4>1 DEF Views
    <3> QED
      BY <1>7, <3>1, <3>2
  <2> QED
    BY <1>2, <1>3, <2>1, <2>2, Untouched
<1>8. CASE TogglePlan(c)
  <2> DEFINE r == Request("plan", 0)
  <2>1. /\ view.page = "dashboard" /\ ~view.busy
        /\ call[c] = Idle /\ call' = [call EXCEPT ![c] = r]
        /\ view' = [view EXCEPT !.busy = TRUE]
    BY <1>8 DEF TogglePlan, Send
  <2>2. r \in Requests /\ r # Idle /\ r.home /\ r.kind = "plan"
    BY <1>1, NewRequest, RequestsBusy
  <2>3. /\ view'.page = "dashboard" /\ view'.asked = view.asked /\ view'.busy
        /\ view'.doubt <=> view.doubt
    BY <1>1, <2>1 DEF Views
  <2> HIDE DEF r
  <2>4. Home(c, "plan")' /\ ~Home(c, "refresh")'
    BY <2>1, <2>2, SlotHomes DEF Watched
  <2>5. \A d \in Calls \ {c} : /\ Home(d, "plan")' <=> Home(d, "plan")
                               /\ Home(d, "refresh")' <=> Home(d, "refresh")
    BY <2>1, <2>2, SlotHomes DEF Watched
  <2>6. PlanFollowed /\ (~view.doubt => TokenFollows)
    BY DEF Followed
  <2>7. \A d \in Calls : /\ ~Home(d, "refresh")'
                         /\ Planning(d)' <=> d = c
    BY <2>1, <2>4, <2>5, <2>6 DEF PlanFollowed, Planning
  <2>8. PlanFollowed'
    BY <1>2, <2>1, <2>3, <2>6, <2>7 DEF PlanFollowed
  <2>9. ~view'.doubt => TokenFollows'
    BY <1>2, <2>1, <2>3, <2>6 DEF TokenFollows, Signed
  <2> QED
    BY <2>3, <2>8, <2>9 DEF Followed, Offers, ListsFresh, AuditLoads, RolesPast
<1> QED
  BY <1>4, <1>5, <1>7, <1>8 DEF User
(* A request is answered: its page shows the answer, or stands where it    *)
(* stood.                                                                  *)
LEMMA ArrivesFollowed ==
    ASSUME TypeOK, TypeOK', HomesRight, Followed, NEW c \in Calls, Arrives(c)
    PROVE  Followed'
<1> USE PagesAssumption
<1>1. /\ view \in Views /\ now \in Nat /\ now' = now
      /\ {"orgs", "signin", "plan", "invite", "role", "audit", "me", "list", "refresh"}
           = Api \cup Auth
  BY DEF TypeOK, Api, Auth, Reads, Writes, Arrives, OrgsArrive, SignedIn, OrganizationArrives,
     PlanChanged, Refreshed, InvitationArrives, RoleChanged, MembersArrive, AuditArrives,
     Fails, GiveUp
<1>2. /\ call[c] # Idle
      /\ call[c] \in Requests /\ call[c].at \in Nat /\ call[c].at <= now
      /\ call[c].home \in BOOLEAN /\ call[c].arg \in Nat
      /\ call[c].home => view.page \in PagesOf(call[c].kind)
  <2>1. call[c] # Idle
    BY Slots DEF Arrives, OrgsArrive, SignedIn, OrganizationArrives, PlanChanged, Refreshed,
       InvitationArrives, RoleChanged, MembersArrive, AuditArrives, Fails, GiveUp, Back,
       Api, Reads, Writes
  <2> QED
    BY <2>1, Slots DEF Requests, HomesRight
<1>3. call[c].kind \notin Watched \/ ~call[c].home => \A k \in Watched : ~Home(c, k)
  BY DEF Home
<1>4. ASSUME Done(c)
      PROVE  \A k \in Watched : /\ ~Home(c, k)'
                                /\ \A d \in Calls \ {c} : Home(d, k)' <=> Home(d, k)
  BY <1>4, SlotHomes DEF Done
<1>5. ASSUME Done(c), call[c].kind \notin Watched \/ ~call[c].home PROVE KeepsRequests
  BY <1>3, <1>5, Unwatched DEF Done
<1>6. ASSUME KeepsRequests, view'.page = view.page, view'.asked = view.asked,
             view'.shown = view.shown \/ view.page = "dashboard",
             view.doubt => view'.doubt,
             view.page = "audit-log" /\ view.refused => view'.refused,
             view.page \in {"audit-log", "dashboard"} => (view'.busy <=> view.busy),
             token' \in {token, None} \/ view.page # "dashboard" \/ view'.doubt
      PROVE  Followed'
  BY <1>1, <1>6, Untouched
<1>7. ASSUME Done(c), call[c].home, call[c].kind = "orgs", view'.page = view.page,
             view'.asked = view.asked, view'.shown \in {0, call[c].arg},
             view'.doubt <=> view.doubt
      PROVE  Followed'
  <2>1. view.page = "login"
    BY <1>2, <1>7 DEF PagesOf
  <2> SUFFICES ASSUME ~view.doubt PROVE Offers'
    BY <1>7, <2>1
    DEF Followed, ListsFresh, AuditLoads, RolesPast, PlanFollowed, TokenFollows
  <2>2. Offers /\ Home(c, "orgs")
    BY <1>2, <1>7 DEF Followed, Home
  <2>3. view.asked # 0 => call[c].arg = view.asked
    BY <2>1, <2>2 DEF Offers
  <2>4. ASSUME NEW d \in Calls, Home(d, "orgs")', view.asked # 0
        PROVE  call'[d].arg = view.asked
    <3>1. d # c /\ Home(d, "orgs")
      BY <1>4, <1>7, <2>4 DEF Watched
    <3>2. call'[d] = call[d]
      BY <1>7, <3>1, SlotSet DEF Done
    <3> QED
      BY <2>1, <2>2, <2>4, <3>1, <3>2 DEF Offers
  <2> QED
    BY <1>7, <2>3, <2>4 DEF Offers, OffersMatch
<1>8. CASE OrgsArrive(c)
  <2>1. Done(c) /\ call[c].kind = "orgs" /\ token' = token
    BY <1>8 DEF OrgsArrive
  <2>2. CASE ~call[c].home
    <3>1. view' = view
      BY <1>8, <2>2 DEF OrgsArrive, Shows
    <3> QED
      BY <1>5, <1>6, <2>1, <2>2, <3>1
  <2>3. CASE call[c].home
    <3>1. view' = [view EXCEPT !.shown = call[c].arg]
      BY <1>8, <2>3 DEF OrgsArrive, Shows
    <3>2. /\ view'.page = view.page /\ view'.asked = view.asked /\ view'.shown = call[c].arg
          /\ view'.doubt = view.doubt
      BY <1>1, <3>1 DEF Views
    <3> QED
      BY <1>7, <2>1, <2>3, <3>2
  <2> QED
    BY <1>2, <2>2, <2>3
<1>9. CASE SignedIn(c)
  <2>1. /\ Done(c) /\ call[c].kind = "signin"
        /\ view' = [view EXCEPT !.doubt = @ \/ view.page = "dashboard"]
    BY <1>9 DEF SignedIn
  <2>2. /\ view'.page = view.page /\ view'.asked = view.asked /\ view'.shown = view.shown
        /\ view'.busy = view.busy /\ view'.refused = view.refused
        /\ view'.doubt <=> view.doubt \/ view.page = "dashboard"
    BY <1>1, <2>1 DEF Views
  <2>3. KeepsRequests
    BY <1>5, <2>1 DEF Watched
  <2> QED
    BY <1>6, <2>2, <2>3
<1>10. CASE OrganizationArrives(c)
  <2>1. Done(c) /\ call[c].kind = "me" /\ token' = token
    BY <1>10 DEF OrganizationArrives
  <2>2. KeepsRequests
    BY <1>5, <2>1 DEF Watched
  <2>3. CASE ~call[c].home
    <3>1. view' = view
      BY <1>10, <2>3 DEF OrganizationArrives, Shows
    <3> QED
      BY <1>6, <2>1, <2>2, <3>1
  <2>4. CASE call[c].home
    <3>1. view' = [view EXCEPT !.shown = call[c].at + 1] /\ view.page = "dashboard"
      BY <1>2, <1>10, <2>1, <2>4 DEF OrganizationArrives, Shows, PagesOf
    <3>2. /\ view'.page = view.page /\ view'.asked = view.asked
          /\ view'.busy = view.busy /\ view'.doubt = view.doubt
          /\ view'.refused = view.refused
      BY <1>1, <3>1 DEF Views
    <3> QED
      BY <1>6, <2>1, <2>2, <3>1, <3>2
  <2> QED
    BY <1>2, <2>3, <2>4
<1>11. CASE InvitationArrives(c)
  <2>1. Done(c) /\ call[c].kind = "invite" /\ token' = token /\ view' = view
    BY <1>11 DEF InvitationArrives
  <2>2. KeepsRequests
    BY <1>5, <2>1 DEF Watched
  <2> QED
    BY <1>6, <2>1, <2>2
<1>12. ASSUME NEW k \in {"refresh", "list"},
              call' = [call EXCEPT ![c] = [Request(k, 0) EXCEPT !.home = call[c].home]]
       PROVE  /\ ~call[c].home => KeepsRequests
              /\ call[c].home => Home(c, k)' /\ call'[c].phase = "sent"
              /\ \A w \in Watched : /\ Home(c, w)' => w = k
                                    /\ \A d \in Calls \ {c} : Home(d, w)' <=> Home(d, w)
  <2> DEFINE r == [Request(k, 0) EXCEPT !.home = call[c].home]
  <2>1. /\ r \in Requests /\ r.kind = k /\ r.home = call[c].home /\ r.phase = "sent"
        /\ r # Idle
    BY <1>1, <1>2, NextRequest, RequestsBusy
  <2>2. call' = [call EXCEPT ![c] = r]
    BY <1>12
  <2> HIDE DEF r
  <2>3. /\ \A w \in Watched : /\ Home(c, w)' <=> (r.home /\ r.kind = w)
                              /\ \A d \in Calls \ {c} : Home(d, w)' <=> Home(d, w)
        /\ call'[c] = r
    BY <2>1, <2>2, SlotHomes, SlotSet
  <2>4. ~call[c].home => KeepsRequests
    BY <1>3, <2>1, <2>2, Unwatched
  <2>5. k \in Watched
    BY DEF Watched
  <2> QED
    BY <2>1, <2>3, <2>4, <2>5
<1>13. CASE PlanChanged(c)
  <2>1. /\ call[c].kind = "plan" /\ token' = token
        /\ call' = [call EXCEPT ![c] = [Request("refresh", 0) EXCEPT !.home = call[c].home]]
    BY <1>13 DEF PlanChanged
  <2>2. CASE ~call[c].home
    <3>1. view' = view
      BY <1>13, <2>2 DEF PlanChanged, Shows
    <3> QED
      BY <1>6, <1>12, <2>1, <2>2, <3>1
  <2>3. CASE call[c].home
    <3>1. /\ view' = [view EXCEPT !.shown = call[c].at + 1, !.asked = call[c].at]
          /\ view.page = "dashboard"
      BY <1>2, <1>13, <2>1, <2>3 DEF PlanChanged, Shows, PagesOf
    <3>2. /\ view'.page = "dashboard" /\ view'.asked = call[c].at
          /\ view'.busy = view.busy /\ view'.doubt = view.doubt
      BY <1>1, <1>2, <3>1 DEF Views
    <3>3. PlanFollowed /\ Planning(c)
      BY <1>2, <2>1, <2>3 DEF Followed, Planning, Home
    <3>4. view.busy /\ \A d \in Calls : Planning(d) => d = c
      BY <3>1, <3>3 DEF PlanFollowed
    <3>5. /\ ~Home(c, "plan")' /\ Home(c, "refresh")' /\ call'[c].phase = "sent"
          /\ \A d \in Calls \ {c} : /\ Home(d, "plan")' <=> Home(d, "plan")
                                    /\ Home(d, "refresh")' <=> Home(d, "refresh")
      BY <1>12, <2>1, <2>3 DEF Watched
    <3>6. \A d \in Calls : /\ Planning(d)' <=> d = c
                           /\ ~Home(d, "plan")'
      BY <3>4, <3>5 DEF Planning
    <3>7. \A d \in Calls : Home(d, "refresh")' => call'[d].phase = "sent"
      BY <3>5, <3>6 DEF Planning
    <3>8. PlanFollowed'
      BY <1>1, <1>2, <3>2, <3>4, <3>6, <3>7 DEF PlanFollowed
    <3>9. TokenFollows'
      BY <3>2, <3>4, <3>6 DEF TokenFollows
    <3> QED
      BY <3>2, <3>8, <3>9 DEF Followed, Offers, ListsFresh, AuditLoads, RolesPast
  <2> QED
    BY <1>2, <2>2, <2>3
<1>14. CASE Refreshed(c)
  <2>1. /\ call[c].kind = "refresh" /\ call[c].phase = "back" /\ Done(c)
        /\ token' = [role |-> call[c].by, at |-> call[c].at]
    BY <1>14 DEF Refreshed, Back
  <2>2. CASE ~call[c].home
    <3>1. view' = [view EXCEPT !.doubt = @ \/ view.page = "dashboard"]
      BY <1>14, <2>2 DEF Refreshed
    <3>2. /\ view'.page = view.page /\ view'.asked = view.asked /\ view'.shown = view.shown
          /\ view'.busy = view.busy /\ view'.refused = view.refused
          /\ view'.doubt <=> view.doubt \/ view.page = "dashboard"
      BY <1>1, <3>1 DEF Views
    <3>3. KeepsRequests
      BY <1>5, <2>1, <2>2
    <3> QED
      BY <1>6, <3>2, <3>3
  <2>3. CASE call[c].home
    <3>1. /\ view' = [view EXCEPT !.busy = FALSE, !.doubt = FALSE]
          /\ view.page = "dashboard"
      BY <1>2, <1>14, <2>1, <2>3 DEF Refreshed, PagesOf
    <3>2. view'.page = "dashboard" /\ view'.asked = view.asked /\ ~view'.busy
      BY <1>1, <3>1 DEF Views
    <3>3. PlanFollowed /\ Planning(c) /\ Home(c, "refresh")
      BY <1>2, <2>1, <2>3 DEF Followed, Planning, Home
    <3>4. /\ view.asked <= now /\ view.asked <= call[c].at
          /\ \A d \in Calls : Planning(d) => d = c
      BY <2>1, <3>1, <3>3 DEF PlanFollowed
    <3>5. \A d \in Calls : ~Planning(d)' /\ ~Home(d, "refresh")'
      BY <1>4, <2>1, <3>4 DEF Planning, Watched
    <3>6. PlanFollowed'
      BY <1>1, <3>2, <3>4, <3>5 DEF PlanFollowed
    <3>7. TokenFollows'
      BY <2>1, <3>2, <3>4 DEF TokenFollows
    <3> QED
      BY <3>2, <3>6, <3>7 DEF Followed, Offers, ListsFresh, AuditLoads, RolesPast
  <2> QED
    BY <1>2, <2>2, <2>3
<1>15. CASE RoleChanged(c)
  <2>1. /\ call[c].kind = "role" /\ token' = token
        /\ call' = [call EXCEPT ![c] = [Request("list", 0) EXCEPT !.home = call[c].home]]
    BY <1>15 DEF RoleChanged
  <2>2. CASE ~call[c].home
    <3>1. view' = view
      BY <1>15, <2>2 DEF RoleChanged, Shows
    <3> QED
      BY <1>6, <1>12, <2>1, <2>2, <3>1
  <2>3. CASE call[c].home
    <3>1. /\ view' = [view EXCEPT !.asked = call[c].at + 1, !.busy = TRUE,
                                  !.doubt = Pending("list")]
          /\ view.page = "members"
      BY <1>2, <1>15, <2>1, <2>3 DEF RoleChanged, Shows, PagesOf
    <3>2. /\ view'.page = "members" /\ view'.asked = call[c].at + 1
          /\ view'.doubt <=> Pending("list")
      BY <1>1, <1>2, <3>1 DEF Views
    <3>3. /\ Home(c, "list")' /\ call'[c].phase = "sent"
          /\ \A d \in Calls \ {c} : Home(d, "list")' <=> Home(d, "list")
      BY <1>12, <2>1, <2>3 DEF Watched
    <3>4. Pending("list")'
      BY <3>3, PendingWas
    <3>5. ASSUME ~Pending("list") PROVE ListsFresh'
      <4>1. \A d \in Calls : Home(d, "list")' => call'[d].phase = "sent"
        BY <3>3, <3>5, PendingIs
      <4> QED
        BY <3>2, <3>4, <4>1 DEF ListsFresh, MembersFresh
    <3>6. RolesPast'
      BY <1>1, <1>2, <3>2 DEF RolesPast
    <3> QED
      BY <3>2, <3>5, <3>6 DEF Followed, Offers, AuditLoads, PlanFollowed, TokenFollows
  <2> QED
    BY <1>2, <2>2, <2>3
<1>16. CASE MembersArrive(c)
  <2>1. Done(c) /\ call[c].kind = "list" /\ call[c].phase = "back" /\ token' = token
    BY <1>16 DEF MembersArrive, Back
  <2>2. CASE ~call[c].home
    <3>1. view' = view
      BY <1>16, <2>2 DEF MembersArrive, Shows
    <3> QED
      BY <1>5, <1>6, <2>1, <2>2, <3>1
  <2>3. CASE call[c].home
    <3>1. /\ view' = [view EXCEPT !.shown = call[c].at + 1, !.busy = FALSE]
          /\ view.page = "members"
      BY <1>2, <1>16, <2>1, <2>3 DEF MembersArrive, Shows, PagesOf
    <3>2. /\ view'.page = "members" /\ view'.asked = view.asked /\ view'.shown = call[c].at + 1
          /\ view'.doubt = view.doubt
      BY <1>1, <1>2, <3>1 DEF Views
    <3> SUFFICES ASSUME ~view.doubt PROVE ListsFresh'
      BY <1>1, <3>1, <3>2
      DEF Followed, Offers, AuditLoads, RolesPast, PlanFollowed, TokenFollows
    <3>3. ListsFresh /\ Home(c, "list")
      BY <1>2, <2>1, <2>3 DEF Followed, Home
    <3>4. view.asked <= call[c].at + 1
      BY <2>1, <3>1, <3>3 DEF ListsFresh
    <3>5. ASSUME NEW d \in Calls, Home(d, "list")', call'[d].phase = "back"
          PROVE  view.asked <= call'[d].at + 1
      <4>1. d # c /\ Home(d, "list")
        BY <1>4, <2>1, <3>5 DEF Watched
      <4>2. call'[d] = call[d]
        BY <2>1, <4>1, SlotSet DEF Done
      <4> QED
        BY <3>1, <3>3, <3>5, <4>1, <4>2 DEF ListsFresh
    <3> QED
      BY <1>1, <3>2, <3>4, <3>5 DEF ListsFresh, MembersFresh
  <2> QED
    BY <1>2, <2>2, <2>3
<1>17. ASSUME Done(c), call[c].home, call[c].kind = "audit", view'.page = view.page,
              view'.asked = view.asked, view'.shown = call[c].arg \/ view'.refused
       PROVE  Followed'
  <2>1. view.page = "audit-log"
    BY <1>2, <1>17 DEF PagesOf
  <2>2. AuditLoads /\ Home(c, "audit")
    BY <1>2, <1>17 DEF Followed, Home
  <2>3. call[c].arg = view.asked /\ \A d \in Calls : Home(d, "audit") => d = c
    BY <2>1, <2>2 DEF AuditLoads
  <2>4. \A d \in Calls : ~Home(d, "audit")'
    BY <1>4, <1>17, <2>3 DEF Watched
  <2> QED
    BY <1>17, <2>1, <2>3, <2>4
    DEF Followed, AuditLoads, AuditMatch, Offers, ListsFresh, RolesPast, PlanFollowed,
        TokenFollows
<1>18. CASE AuditArrives(c)
  <2>1. Done(c) /\ call[c].kind = "audit" /\ token' = token
    BY <1>18 DEF AuditArrives
  <2>2. CASE ~call[c].home
    <3>1. view' = view
      BY <1>18, <2>2 DEF AuditArrives, Shows
    <3> QED
      BY <1>5, <1>6, <2>1, <2>2, <3>1
  <2>3. CASE call[c].home
    <3> DEFINE n == IF call[c].at = 0 THEN 1 ELSE call[c].at
    <3>1. view' = [view EXCEPT !.shown = call[c].arg, !.busy = FALSE, !.pages = n]
      BY <1>18, <2>3 DEF AuditArrives, Shows
    <3>2. view'.page = view.page /\ view'.asked = view.asked /\ view'.shown = call[c].arg
      <4> HIDE DEF n
      <4> QED
        BY <1>1, <1>2, <3>1 DEF Views
    <3> QED
      BY <1>17, <2>1, <2>3, <3>2
  <2> QED
    BY <1>2, <2>2, <2>3
<1>19. CASE Fails(c) \/ GiveUp(c)
  <2>1. /\ Done(c) /\ token' \in {token, None}
        /\ view' = IF call[c].home THEN AfterFailure(c) ELSE view
    BY <1>19 DEF Fails, GiveUp, Shows
  <2>2. CASE ~call[c].home
    BY <1>5, <1>6, <2>1, <2>2
  <2>3. CASE call[c].home /\ call[c].kind = "orgs"
    BY <1>7, <2>1, <2>3, Failed
  <2>4. CASE call[c].home /\ call[c].kind = "audit"
    BY <1>17, <2>1, <2>4, Failed
  <2>5. CASE call[c].home /\ call[c].kind = "list"
    <3>1. /\ view'.page = "members" /\ view.page = "members" /\ view'.asked = view.asked
          /\ view'.doubt
      BY <1>2, <2>1, <2>5, Failed DEF PagesOf
    <3>2. RolesPast'
      BY <1>1, <3>1 DEF Followed, RolesPast
    <3> QED
      BY <3>1, <3>2 DEF Followed, AuditLoads, PlanFollowed
  <2>6. CASE call[c].home /\ call[c].kind \in {"me", "signin", "invite", "role"}
    <3>1. /\ view'.page = view.page /\ view'.asked = view.asked /\ view'.shown = view.shown
          /\ view'.doubt <=> view.doubt
          /\ view.refused => view'.refused
          /\ call[c].kind # "signin" => (view'.busy <=> view.busy)
      BY <2>1, <2>6, Failed
    <3>2. call[c].kind = "signin" => view.page \in SignInPages
      BY <1>2, <2>6 DEF PagesOf
    <3>3. KeepsRequests
      BY <1>5, <2>1, <2>6 DEF Watched
    <3> QED
      BY <1>6, <2>1, <3>1, <3>2, <3>3 DEF SignInPages
  <2>7. CASE call[c].home /\ call[c].kind \in {"plan", "refresh"}
    <3>1. view.page = "dashboard"
      BY <1>2, <2>7 DEF PagesOf
    <3>2. /\ view'.page = "dashboard" /\ view'.asked = view.asked
          /\ view'.doubt <=> view.doubt
          /\ view'.busy <=> view.busy /\ call[c].kind = "refresh"
      BY <2>1, <2>7, <3>1, Failed
    <3>3. /\ PlanFollowed /\ Planning(c) /\ (call[c].kind = "plan" => Home(c, "plan"))
          /\ ~view.doubt => TokenFollows
      BY <1>2, <2>7 DEF Followed, Planning, Home
    <3>4. /\ view.asked <= now /\ view.busy
          /\ \A d \in Calls : Planning(d) => d = c
      BY <3>1, <3>3 DEF PlanFollowed
    <3>5. \A d \in Calls : ~Planning(d)' /\ ~Home(d, "refresh")' /\ ~Home(d, "plan")'
      BY <1>4, <2>1, <3>4 DEF Planning, Watched
    <3>6. PlanFollowed'
      BY <1>1, <3>2, <3>4, <3>5 DEF PlanFollowed
    <3>7. ~view'.doubt => TokenFollows'
      BY <2>1, <2>7, <3>1, <3>2, <3>3, <3>4, <3>5 DEF TokenFollows, Signed
    <3> QED
      BY <3>2, <3>6, <3>7 DEF Followed, Offers, ListsFresh, AuditLoads, RolesPast
  <2> QED
    BY <1>1, <1>2, <2>2, <2>3, <2>4, <2>5, <2>6, <2>7 DEF Requests
<1> QED
  BY <1>8, <1>9, <1>10, <1>11, <1>13, <1>14, <1>15, <1>16, <1>18, <1>19 DEF Arrives

(* A page at rest shows what it stands at, from step to step.              *)
LEMMA FollowedStep ==
    ASSUME TypeOK, TypeOK', HomesRight, HomesRight', Followed, [Next]_vars PROVE Followed'
<1> USE PagesAssumption
<1>1. now <= now'
  BY NowGrows
<1>2. ASSUME UNCHANGED view, KeepsRequests, token' \in {token, None} PROVE Followed'
  BY <1>1, <1>2, Untouched
<1>3. CASE UNCHANGED <<view, call>> /\ token' \in {token, None}
  BY <1>2, <1>3, Quiet
<1>4. ASSUME NEW p \in Routes, OpenUrl(p) PROVE Followed'
  <2>1. view'.page = "none"
    BY <1>4, NewView DEF OpenUrl
  <2> QED
    BY <2>1 DEF Followed, Offers, ListsFresh, AuditLoads, RolesPast, PlanFollowed,
       TokenFollows
<1>5. ASSUME NEW c \in Calls, Serve(c) \/ Renew(c) PROVE Followed'
  <2>1. PICK r \in Requests :
            /\ call' = [call EXCEPT ![c] = r]
            /\ r.kind = call[c].kind /\ r.arg = call[c].arg /\ r.home = call[c].home
            /\ r.phase = "back" => \/ call[c].phase = "back" /\ r.at = call[c].at
                                   \/ r.at = now'
    BY <1>5, NowGrows, ServeMeans, RenewMeans
  <2>2. call[c] # Idle /\ r # Idle
    BY <1>5, Slots, RequestsBusy DEF Serve, Renew, Api, Reads, Writes
  <2>3. KeepsRequests
    BY <2>1, <2>2, SlotSet DEF KeepsRequests, Home
  <2>4. view' = view
    BY <1>5 DEF Serve, Renew
  <2>5. token' = token \/ (token' \in Tokens /\ token'.at = now')
    BY <1>5 DEF Serve, Renew, TypeOK, Tokens
  <2> QED
    BY <1>1, <2>3, <2>4, <2>5, Untouched
<1>6. CASE Logout \/ OtherAdmin \/ ChunkFails \/ \E p \in Routes : Follow(p)
  BY <1>3, <1>6 DEF Logout, OtherAdmin, ChunkFails, Follow
<1> QED
  BY <1>3, <1>4, <1>5, <1>6, ActivateFollowed, UserFollowed, ArrivesFollowed DEF Next, vars

-----------------------------------------------------------------------------
LEMMA PagesStart == Init => PagesInv
<1> SUFFICES ASSUME Init PROVE PagesInv
  OBVIOUS
<1> USE PagesAssumption
<1>1. /\ view \in Views /\ view.page = "none" /\ ~view.busy
  BY NewView DEF Init
<1>2. \A p \in Routes : Guard(p, token) \in Routes
                        /\ (token = None => Guard(p, token) \notin Guarded)
  BY Leads
<1>3. TypeOK
  <2>1. token \in {None} \cup Tokens
    BY DEF Init, Tokens
  <2>2. nav \in Routes
    BY <1>2 DEF Init
  <2>3. 0 \in 0..MaxChanges /\ 0 \in 0..MaxUses
    OBVIOUS
  <2>4. call \in [Calls -> {Idle} \cup Requests] /\ \A c \in Calls : call[c] = Idle
    BY DEF Init
  <2> QED
    BY <1>1, <2>1, <2>2, <2>3, <2>4 DEF Init, TypeOK
<1>4. NavGuarded
  BY <1>2 DEF Init, NavGuarded, Signed
<1>5. HomesRight /\ PairsHaveRoles
  BY DEF Init, HomesRight, PairsHaveRoles
<1>6. GuardHolds
  BY <1>1 DEF GuardHolds, Guarded
<1>7. Followed
  BY <1>1 DEF Followed, Offers, ListsFresh, AuditLoads, RolesPast, PlanFollowed,
     TokenFollows
<1> QED
  BY <1>3, <1>4, <1>5, <1>6, <1>7 DEF PagesInv

LEMMA PagesInvariant == Spec => []PagesInv
<1>1. PagesInv /\ [Next]_vars => PagesInv'
  <2> SUFFICES ASSUME PagesInv, [Next]_vars PROVE PagesInv'
    OBVIOUS
  <2>1. TypeOK /\ HomesRight /\ PairsHaveRoles /\ NavGuarded /\ GuardHolds /\ Followed
    BY DEF PagesInv
  <2>2. TypeOK' /\ HomesRight' /\ PairsHaveRoles'
    BY <2>1, TypeStep, HomesStep, CallsStep
  <2>3. NavGuarded' /\ GuardHolds'
    BY <2>1, GuardStep
  <2>4. Followed'
    BY <2>1, <2>2, FollowedStep
  <2> QED
    BY <2>2, <2>3, <2>4 DEF PagesInv
<1> QED
  BY <1>1, PagesStart, PTL DEF Spec

(* Tokens, screens and requests keep their shape, nothing is answered from *)
(* the future, and only pages that have a spinner or a disabled button     *)
(* are ever busy: pages.                                                   *)
THEOREM TypeCorrect == Spec => []TypeOK
BY PagesInvariant, PTL DEF PagesInv

(* auth.guard.ts: whatever logs the user out, and whichever order answers, *)
(* navigations and late 401s come in, no page behind authGuard stays on    *)
(* the screen of a user without a token.                                   *)
THEOREM StrangersKeptOut == Spec => []GuardHolds
BY PagesInvariant, PTL DEF PagesInv

(* What a page shows when none of its loads is under way, whatever answers *)
(* of pages left behind, renewed requests and other admins' changes come   *)
(* in between.  The audit log is on the page asked for last, or shows an   *)
(* error.  Unless its own lookups or lists overlapped or its list failed,  *)
(* the login page offers no other email's organizations and the members    *)
(* are no older than the user's last change.  The dashboard's token has    *)
(* the user's last change of plan, until a token pair that another page    *)
(* asked for arrives.                                                      *)
THEOREM PagesShowWhatTheyAsk == Spec => []ShowsWhatIsAsked
<1>1. PagesInv => ShowsWhatIsAsked
  <2> SUFFICES ASSUME PagesInv PROVE ShowsWhatIsAsked
    OBVIOUS
  <2>1. /\ AuditLoads /\ PlanFollowed
        /\ ~view.doubt => Offers /\ ListsFresh /\ TokenFollows
    BY DEF PagesInv, Followed
  <2>2. AuditMatch
    BY <2>1 DEF AuditLoads, AuditMatch
  <2>3. ~view.doubt => OffersMatch /\ MembersFresh
    BY <2>1 DEF Offers, ListsFresh, OffersMatch, MembersFresh
  <2>4. ~view.doubt => PlanReflected
    BY <2>1 DEF TokenFollows, PlanReflected
  <2> QED
    BY <2>2, <2>3, <2>4 DEF ShowsWhatIsAsked
<1> QED
  BY <1>1, PagesInvariant, PTL
=============================================================================
