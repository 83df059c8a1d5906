--------------------------------- MODULE Pages ---------------------------------
(***************************************************************************)
(* The Angular client's pages: the router with authGuard and its lazily    *)
(* loaded components, the sign-in pages, the dashboard, the members and    *)
(* the audit log, and the requests they leave behind.  A component that is *)
(* left is destroyed, its requests are not: their answers still store      *)
(* tokens, navigate and send what follows them.                            *)
(*                                                                         *)
(* The organization is a number, of the changes committed to its roles and *)
(* its plan; what a page shows and what a token claims is the number at    *)
(* which it was read.  The tasks page has a module of its own (TasksPage), *)
(* and so have the steps of a refresh (SessionClient).                     *)
(***************************************************************************)
EXTENDS Naturals

CONSTANTS
    Emails,      \* number of valid emails that are typed; 0 is an invalid one
    Calls,       \* slots for requests in flight
    MaxChanges,  \* bound on the changes committed
    MaxUses,     \* bound on what the user and the other admins do
    None         \* no token, no navigation

SignInPages == {"login", "register", "accept-invitation"}
Guarded     == {"dashboard", "tasks", "members", "audit-log"}
Routes      == SignInPages \cup Guarded

Roles == {"admin", "member"}

ASSUME PagesAssumption ==
    /\ Emails \in Nat /\ MaxChanges \in Nat /\ MaxUses \in Nat
    /\ None \notin Routes \cup [role : Roles, at : 0..MaxChanges]

VARIABLES
    now,    \* changes committed to the organization so far
    role,   \* the user's role in the memberships
    token,  \* the claims of the access token: the role, and the now they are of
    nav,    \* the page the router is loading, past its guard
    view,   \* the component on the screen
    call,   \* call[c]: a request in flight
    broken, \* history: something has failed that no page gets over
    uses    \* how often the user or another admin did something

vars == <<now, role, token, nav, view, call, broken, uses>>

(* view.asked is what the page stands at, view.shown what it has got:      *)
(* the email and the one whose organizations are offered; the version that *)
(* the user's own last change made and the version on the screen; the      *)
(* number of the page of the audit log.  view.busy is submitting(),        *)
(* planChanging() or loading(), view.refused error().  view.doubt: lookups *)
(* or lists of this page have overlapped, its list has failed, or a token  *)
(* pair that another page asked for has reached the dashboard, until the   *)
(* next lookup or list that is alone, or the dashboard's own refresh.      *)
View(p) == [page |-> p, asked |-> IF p = "audit-log" THEN 1 ELSE 0, shown |-> 0,
            pages |-> 1, busy |-> p \in {"members", "audit-log"},
            refused |-> FALSE, doubt |-> FALSE]

Idle == [kind |-> "idle"]

Reads  == {"me", "list", "audit"}
Writes == {"plan", "role", "invite"}
Api    == Reads \cup Writes          \* requests that carry a bearer token
Auth   == {"orgs", "signin", "refresh"}

Signed == token # None

(* A request: arg is what it asks for, home whether the component that     *)
(* subscribed is still there, by the role in its bearer token, or in the   *)
(* token pair that it is answered with.                                    *)
Request(kind, arg) ==
    [kind |-> kind, arg |-> arg, phase |-> "sent", home |-> TRUE,
     by |-> IF Signed THEN token.role ELSE "none", at |-> 0]

(* Where a navigation to p ends up: authGuard sends strangers to /login.   *)
Guard(p, t) == IF p \in Guarded /\ t = None THEN "login" ELSE p

(* router.navigate, with the token t: it cancels the navigation that is    *)
(* under way, and goes nowhere from the page itself.                       *)
Navigate(p, t) ==
    nav' = IF Guard(p, t) = view.page THEN None ELSE Guard(p, t)

Init ==
    /\ now = 0
    /\ role \in Roles
    /\ token \in {None, [role |-> role, at |-> 0]}
    /\ view = View("none")
    /\ nav \in {Guard(p, token) : p \in Routes}
    /\ call = [c \in Calls |-> Idle]
    /\ broken = FALSE
    /\ uses = 0

-----------------------------------------------------------------------------
(* The chunk has arrived: the old component is destroyed and the new one's *)
(* ngOnInit asks for what it shows.                                        *)
FirstRequest(p) ==
    CASE p = "dashboard" -> Request("me", 0)
      [] p = "members"   -> Request("list", 0)
      [] p = "audit-log" -> Request("audit", 1)
      [] OTHER           -> Idle

Activate(c) ==
    /\ nav # None
    /\ call[c] = Idle
    /\ view' = View(nav)
    /\ nav'  = None
    /\ call' = [d \in Calls |->
                  IF d = c THEN FirstRequest(nav)
                  ELSE IF call[d] = Idle THEN Idle
                  ELSE [call[d] EXCEPT !.home = FALSE]]
    /\ UNCHANGED <<now, role, token, broken>>

(* The chunk cannot be loaded: the page stays, and nobody is told. *)
ChunkFails ==
    /\ nav # None
    /\ nav' = None
    /\ broken' = TRUE
    /\ UNCHANGED <<now, role, token, view, call>>

(* A URL is opened, or the page reloaded: the application starts over.     *)
OpenUrl(p) ==
    /\ view' = View("none")
    /\ nav'  = Guard(p, token)
    /\ call' = [c \in Calls |-> Idle]
    /\ broken' = FALSE
    /\ UNCHANGED <<now, role, token>>

(* *appHasRole="'admin'" *)
ShownToAdmins == Signed /\ token.role = "admin"

(* The routerLinks in the templates. *)
Links ==
    CASE view.page = "login"     -> {"register"}
      [] view.page = "register"  -> {"login"}
      [] view.page = "dashboard" ->
            {"tasks", "members"} \cup
            {p \in {"audit-log"} : view.shown # 0 /\ ShownToAdmins}
      [] view.page \in {"tasks", "members", "audit-log"} -> {"dashboard"}
      [] OTHER -> {}

Follow(p) ==
    /\ p \in Links
    /\ Navigate(p, token)
    /\ UNCHANGED <<now, role, token, view, call, broken>>

(* A request from the component on the screen. *)
Send(c, kind, arg, v) ==
    /\ call[c] = Idle
    /\ call' = [call EXCEPT ![c] = Request(kind, arg)]
    /\ view' = v
    /\ UNCHANGED <<now, role, token, nav, broken>>

(* Whether the component has a request of this kind in flight already. *)
Pending(kind) ==
    \E c \in Calls : call[c] # Idle /\ call[c].kind = kind /\ call[c].home

(* onEmailBlur: a valid email is looked up, an invalid one is left alone. *)
EmailBlur(c, e) ==
    /\ view.page = "login"
    /\ IF e = 0
       THEN /\ view' = [view EXCEPT !.asked = 0]
            /\ UNCHANGED <<now, role, token, nav, call, broken>>
       ELSE Send(c, "orgs", e, [view EXCEPT !.asked = e,
                                            !.doubt = Pending("orgs")])

(* submit() of the three sign-in pages. *)
Submit(c) ==
    /\ view.page \in SignInPages
    /\ ~view.busy
    /\ view.page = "login" => view.asked # 0
    /\ Send(c, "signin", 0, [view EXCEPT !.busy = TRUE, !.refused = FALSE])

(* togglePlan *)
TogglePlan(c) ==
    /\ view.page = "dashboard" /\ view.shown # 0
    /\ ShownToAdmins /\ ~view.busy
    /\ Send(c, "plan", 0, [view EXCEPT !.busy = TRUE])

(* invite *)
Invite(c) ==
    /\ view.page = "dashboard"
    /\ ShownToAdmins
    /\ Send(c, "invite", 0, [view EXCEPT !.refused = FALSE])

(* changeRole of the members page. *)
ChangeRole(c) ==
    /\ view.page = "members" /\ ~view.busy /\ view.shown # 0
    /\ ShownToAdmins
    /\ Send(c, "role", 0, [view EXCEPT !.refused = FALSE])

(* goToPage of the audit log; an error hides the pager for good. *)
GoToPage(c, p) ==
    /\ view.page = "audit-log" /\ ~view.busy /\ ~view.refused
    /\ p \in {view.shown - 1, view.shown + 1} /\ 1 <= p /\ p <= view.pages
    /\ Send(c, "audit", p, [view EXCEPT !.asked = p, !.busy = TRUE])

(* logout() of the dashboard. *)
Logout ==
    /\ view.page = "dashboard"
    /\ token' = None
    /\ Navigate("login", None)
    /\ UNCHANGED <<now, role, view, call, broken>>

-----------------------------------------------------------------------------
(* The backend.  A change counts, and a read or a new token is of now;     *)
(* RolesGuard asks the bearer's role.  An invitation changes neither the   *)
(* roles nor the plan.                                                     *)
Admitted(c) ==
    /\ call[c].kind \in Api => call[c].by # "none"
    /\ call[c].kind \in Writes \cup {"audit"} => call[c].by = "admin"

Commit ==
    /\ now < MaxChanges
    /\ now' = now + 1
    /\ role' \in Roles

Serve(c) ==
    /\ call[c] # Idle
    /\ call[c].phase = "sent"
    /\ Admitted(c)
    /\ IF call[c].kind = "role" THEN Commit
       ELSE IF call[c].kind = "plan" THEN Commit /\ role' = role
       ELSE UNCHANGED <<now, role>>
    /\ call' = [call EXCEPT ![c] =
                  [@ EXCEPT !.phase = "back", !.at = now',
                            !.by = IF call[c].kind \in Auth THEN role
                                    ELSE call[c].by]]
    /\ UNCHANGED <<token, nav, view, broken>>

OtherAdmin == Commit /\ UNCHANGED <<token, nav, view, call, broken>>

(* 401, and the interceptor's refresh succeeds: the request is sent again. *)
Renew(c) ==
    /\ call[c].kind \in Api
    /\ call[c].phase = "sent"
    /\ Signed
    /\ token' = [role |-> role, at |-> now]
    /\ call' = [call EXCEPT ![c].by = role]
    /\ UNCHANGED <<now, role, nav, view, broken>>

-----------------------------------------------------------------------------
(* What an answer changes in the component, if that is still there. *)
Back(c) == call[c] # Idle /\ call[c].phase = "back"

Shows(c, v) == view' = IF call[c].home THEN v ELSE view

Done(c) == call' = [call EXCEPT ![c] = Idle]

OrgsArrive(c) ==
    /\ Back(c) /\ call[c].kind = "orgs"
    /\ Shows(c, [view EXCEPT !.shown = call[c].arg])
    /\ Done(c)
    /\ UNCHANGED <<now, role, token, nav, broken>>

(* The three sign-in pages store the pair and go to the dashboard, whether *)
(* or not the user is still there.                                         *)
SignedIn(c) ==
    /\ Back(c) /\ call[c].kind = "signin"
    /\ token' = [role |-> call[c].by, at |-> call[c].at]
    /\ Navigate("dashboard", token')
    /\ view' = [view EXCEPT !.doubt = @ \/ view.page = "dashboard"]
    /\ Done(c)
    /\ UNCHANGED <<now, role, broken>>

OrganizationArrives(c) ==
    /\ Back(c) /\ call[c].kind = "me"
    /\ Shows(c, [view EXCEPT !.shown = call[c].at + 1])
    /\ Done(c)
    /\ UNCHANGED <<now, role, token, nav, broken>>

(* Faulty: the session's own token is not refreshed. *)
PlanChanged_NotRefreshed(c) ==
    /\ Back(c) /\ call[c].kind = "plan"
    /\ Shows(c, [view EXCEPT !.shown = call[c].at + 1, !.asked = call[c].at,
                             !.busy = FALSE])
    /\ Done(c)
    /\ UNCHANGED <<now, role, token, nav, broken>>

(* next of updatePlan: show it, and refresh the session's own token. *)
PlanChanged(c) ==
    /\ Back(c) /\ call[c].kind = "plan"
    /\ Shows(c, [view EXCEPT !.shown = call[c].at + 1, !.asked = call[c].at])
    /\ call' = [call EXCEPT ![c] = [Request("refresh", 0) EXCEPT !.home = call[c].home]]
    /\ UNCHANGED <<now, role, token, nav, broken>>

(* complete of the refresh.  Of two refreshes with one token only one      *)
(* succeeds (SessionClient); here each of them may.                        *)
Refreshed(c) ==
    /\ Back(c) /\ call[c].kind = "refresh"
    /\ token' = [role |-> call[c].by, at |-> call[c].at]
    /\ view' = IF call[c].home THEN [view EXCEPT !.busy = FALSE, !.doubt = FALSE]
               ELSE [view EXCEPT !.doubt = @ \/ view.page = "dashboard"]
    /\ Done(c)
    /\ UNCHANGED <<now, role, nav, broken>>

InvitationArrives(c) ==
    /\ Back(c) /\ call[c].kind = "invite"
    /\ Done(c)
    /\ UNCHANGED <<now, role, token, nav, view, broken>>

(* Faulty: what is loading is kept where every page finds it. *)
RoleChanged_Anywhere(c) ==
    /\ Back(c) /\ call[c].kind = "role"
    /\ view' = [view EXCEPT !.busy = TRUE]
    /\ call' = [call EXCEPT ![c] = [Request("list", 0) EXCEPT !.home = call[c].home]]
    /\ UNCHANGED <<now, role, token, nav, broken>>

(* next of updateRole: load the members again. *)
RoleChanged(c) ==
    /\ Back(c) /\ call[c].kind = "role"
    /\ Shows(c, [view EXCEPT !.asked = call[c].at + 1, !.busy = TRUE,
                             !.doubt = Pending("list")])
    /\ call' = [call EXCEPT ![c] = [Request("list", 0) EXCEPT !.home = call[c].home]]
    /\ UNCHANGED <<now, role, token, nav, broken>>

MembersArrive(c) ==
    /\ Back(c) /\ call[c].kind = "list"
    /\ Shows(c, [view EXCEPT !.shown = call[c].at + 1, !.busy = FALSE])
    /\ Done(c)
    /\ UNCHANGED <<now, role, token, nav, broken>>

(* Every change has a row in the audit log; here a page holds one. *)
AuditArrives(c) ==
    /\ Back(c) /\ call[c].kind = "audit"
    /\ Shows(c, [view EXCEPT !.shown = call[c].arg, !.busy = FALSE,
                             !.pages = IF call[c].at = 0 THEN 1 ELSE call[c].at])
    /\ Done(c)
    /\ UNCHANGED <<now, role, token, nav, broken>>

(* The error handlers: the spinner stops, except the dashboard's after a   *)
(* plan change whose refresh fails, and an error is shown for some.        *)
AfterFailure(c) ==
    LET k == call[c].kind
    IN  [view EXCEPT
            !.busy    = @ /\ k \notin {"signin", "plan", "list", "audit"},
            !.refused = @ \/ k \in {"signin", "invite", "role", "audit"},
            !.shown   = IF k = "orgs" THEN 0 ELSE @,
            !.doubt   = @ \/ k = "list"]

(* Faulty: catchError without the handlers of the page. *)
Fails_Unhandled(c) ==
    /\ call[c] # Idle
    /\ UNCHANGED view
    /\ Done(c)
    /\ broken' = (broken \/ call[c].kind = "refresh")
    /\ UNCHANGED <<now, role, token, nav>>

(* A refusal, a lost request or a lost answer. *)
Fails(c) ==
    /\ call[c] # Idle
    /\ Shows(c, AfterFailure(c))
    /\ Done(c)
    /\ broken' = (broken \/ call[c].kind = "refresh")
    /\ UNCHANGED <<now, role, token, nav>>

(* Faulty: the interceptor logs out and leaves the user where they are. *)
GiveUp_Stays(c) ==
    /\ call[c].kind \in Api
    /\ call[c].phase = "sent"
    /\ Signed
    /\ token' = None
    /\ Shows(c, AfterFailure(c))
    /\ Done(c)
    /\ UNCHANGED <<now, role, nav, broken>>

(* The session just begun on /login ends before the dashboard is there:    *)
(* the router is told to go to /login, where it is, and drops the way to   *)
(* the dashboard.                                                          *)
SignInCut == view.page = "login" /\ view.busy /\ nav # None

(* 401, and the interceptor's refresh fails: auth.logout(), on to /login,  *)
(* and the page's error handler.                                           *)
GiveUp(c) ==
    /\ call[c].kind \in Api
    /\ call[c].phase = "sent"
    /\ Signed
    /\ token' = None
    /\ Navigate("login", None)
    /\ Shows(c, AfterFailure(c))
    /\ Done(c)
    /\ broken' = (broken \/ SignInCut)
    /\ UNCHANGED <<now, role>>

-----------------------------------------------------------------------------
User(c) ==
    \/ \E e \in 0..Emails : EmailBlur(c, e)
    \/ \E p \in 1..MaxChanges : GoToPage(c, p)
    \/ Submit(c) \/ TogglePlan(c) \/ Invite(c) \/ ChangeRole(c)

(* A request that is answered, one way or the other. *)
Arrives(c) ==
    \/ OrgsArrive(c)  \/ SignedIn(c)  \/ OrganizationArrives(c)
    \/ PlanChanged(c) \/ Refreshed(c) \/ InvitationArrives(c)
    \/ RoleChanged(c) \/ MembersArrive(c) \/ AuditArrives(c)
    \/ Fails(c) \/ GiveUp(c)

Next ==
    \/ /\ uses < MaxUses
       /\ uses' = uses + 1
       /\ \/ \E c \in Calls : User(c)
          \/ \E p \in Routes : OpenUrl(p) \/ Follow(p)
          \/ Logout \/ OtherAdmin
    \/ /\ UNCHANGED uses
       /\ \/ ChunkFails
          \/ \E c \in Calls : Activate(c) \/ Serve(c) \/ Renew(c) \/ Arrives(c)

Spec == Init /\ [][Next]_vars

(* Requests are answered or fail, and so do the chunks of the pages.       *)
FairSpec ==
    /\ Spec
    /\ \A c \in Calls : WF_vars(Arrives(c) /\ UNCHANGED uses)
    /\ WF_vars((ChunkFails \/ \E c \in Calls : Activate(c)) /\ UNCHANGED uses)

-----------------------------------------------------------------------------
Tokens == [role : Roles, at : 0..MaxChanges]

Views ==
    [page : {"none"} \cup Routes, asked : Nat, shown : Nat, pages : Nat,
     busy : BOOLEAN, refused : BOOLEAN, doubt : BOOLEAN]

Requests ==
    [kind : Api \cup Auth, arg : Nat, phase : {"sent", "back"}, home : BOOLEAN,
     by : Roles \cup {"none"}, at : 0..MaxChanges]

TypeOK ==
    /\ now \in 0..MaxChanges
    /\ role \in Roles
    /\ token \in {None} \cup Tokens
    /\ nav \in {None} \cup Routes
    /\ view \in Views
    /\ view.busy => view.page \in SignInPages \cup {"dashboard", "members", "audit-log"}
    /\ call \in [Calls -> {Idle} \cup Requests]
    /\ \A c \in Calls : call[c] # Idle => call[c].at <= now
    /\ broken \in BOOLEAN
    /\ uses \in 0..MaxUses

(* A page behind authGuard is on the screen of a user without a token only *)
(* while the router is on its way elsewhere, unless a chunk did not load.  *)
GuardHolds ==
    view.page \in Guarded /\ nav = None /\ ~broken => Signed

(* What a page shows when none of its loads is under way.  The audit log:  *)
(* the page that was asked for last, or an error.  The others too, unless  *)
(* in doubt: the organizations of the email in the form, or none; members  *)
(* no older than the user's own last change; on the dashboard, a token     *)
(* that has the plan the user has just set.                                *)
AuditMatch ==
    view.page = "audit-log" /\ ~Pending("audit") => view.shown = view.asked \/ view.refused
OffersMatch ==
    view.page = "login" /\ view.asked # 0 /\ ~Pending("orgs") => view.shown \in {0, view.asked}
MembersFresh ==
    view.page = "members" /\ ~Pending("list") => view.asked <= view.shown
PlanReflected ==
    view.page = "dashboard" /\ ~view.busy /\ Signed => view.asked <= token.at

ShowsWhatIsAsked ==
    /\ AuditMatch
    /\ view.doubt \/ (OffersMatch /\ MembersFresh /\ PlanReflected)

(* No page stays at its spinner or its disabled button for ever, unless a  *)
(* chunk or the refresh that follows a plan change has failed, or a late   *)
(* 401 of an earlier session has ended the one that a sign-in began.       *)
BusyEnds == view.busy ~> ~view.busy \/ broken
=============================================================================
