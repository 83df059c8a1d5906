------------------------------ MODULE Onboarding ------------------------------
(***************************************************************************)
(* How people come to an organization: AuthService.register founds one,    *)
(* InvitationsService.create invites an email to one, and                  *)
(* AuthService.acceptInvitation turns the invitation into a membership,    *)
(* creating the account first when the email has none.  Inviting people    *)
(* and changing their roles is for holders of a token that says admin,     *)
(* whatever their membership has become since (RolesGuard).                *)
(*                                                                         *)
(* register is one database function; acceptInvitation is a chain of       *)
(* statements, each committed on its own, with a password hash between     *)
(* them.  auth_accept_invitation is two steps: its SELECT, and its INSERT  *)
(* and UPDATE with the commit; the UPDATE does not ask for accepted_at     *)
(* IS NULL again.  A role change is one step here, a login or a refresh    *)
(* two; RoleChange and Sessions have their details.  Tokens stay usable:   *)
(* no property needs them to expire.                                       *)
(***************************************************************************)
EXTENDS Naturals, FiniteSets

CONSTANTS
    Orgs,         \* organizations (slugs) that can be registered
    Emails,       \* people
    Invites,      \* invitations that can be sent
    Requests,     \* slots for requests in flight at once
    InviteRoles,  \* the roles invitations carry
    WantedRoles,  \* the roles role changes ask for
    None          \* no organization, no email, no invitation

ASSUME OnboardingAssumption ==
    /\ InviteRoles \cup WantedRoles \subseteq {"admin", "member"}
    /\ None \notin Orgs \cup Emails \cup Invites

VARIABLES
    founder,     \* founder[o]: who registered o, None while the slug is free
    users,       \* emails with an account
    role,        \* role[o, e]: e's membership in o, or "none"
    invitation,  \* invitation[i]: its row
    sessions,    \* the token pairs issued: whose, for which org and role
    granted,     \* granted[o, e]: the roles e has been given in o, ever
    pc,          \* pc[r]: the statement r runs next
    call         \* call[r]: what r was called with and has read

tables == <<founder, users, role, invitation, sessions, granted>>
vars   == <<tables, pc, call>>

Unsent == [org |-> None, email |-> None, role |-> "none", status |-> "unsent"]
NoCall == [org |-> None, email |-> None, role |-> "none", invite |-> None]

(* auth_accept_invitation and everything before it in an acceptance. *)
Accepting == {"lookup", "user", "create", "select", "accept"}
Phases    == {"idle", "register", "issue"} \cup Accepting

Member(o, e) == role[<<o, e>>] # "none"

Init ==
    /\ founder    = [o \in Orgs |-> None]
    /\ users      = {}
    /\ role       = [oe \in Orgs \X Emails |-> "none"]
    /\ invitation = [i \in Invites |-> Unsent]
    /\ sessions   = {}
    /\ granted    = [oe \in Orgs \X Emails |-> {}]
    /\ pc         = [r \in Requests |-> "idle"]
    /\ call       = [r \in Requests |-> NoCall]

-----------------------------------------------------------------------------
Goto(r, phase) == pc' = [pc EXCEPT ![r] = phase]

(* The request is over: answered, failed, or lost with its process. *)
End(r) == Goto(r, "idle") /\ call' = [call EXCEPT ![r] = NoCall]

(* A registration, an accepted invitation or a role change gives e a role. *)
Grant(o, e, w) == granted' = [granted EXCEPT ![<<o, e>>] = @ \cup {w}]

(* Faulty variant: the role is left out of the claims. *)
RegisterCall_NoRole(r, o, e) ==
    /\ pc[r] = "idle"
    /\ Goto(r, "register")
    /\ call' = [call EXCEPT ![r] = [NoCall EXCEPT !.org = o, !.email = e]]
    /\ UNCHANGED tables

(* POST /auth/register arrives; bcrypt.hash runs first. *)
RegisterCall(r, o, e) ==
    /\ pc[r] = "idle"
    /\ Goto(r, "register")
    /\ call' = [call EXCEPT ![r] = [NoCall EXCEPT !.org = o, !.email = e, !.role = "admin"]]
    /\ UNCHANGED tables

(* auth_register inserts organization, user and admin membership in one    *)
(* transaction; a slug or an email already taken undoes them all: 409.     *)
Register(r) ==
    LET o == call[r].org
        e == call[r].email
    IN  /\ pc[r] = "register"
        /\ \/ /\ founder[o] = None
              /\ e \notin users
              /\ founder' = [founder EXCEPT ![o] = e]
              /\ users'   = users \cup {e}
              /\ role'    = [role EXCEPT ![<<o, e>>] = "admin"]
              /\ Grant(o, e, "admin")
              /\ Goto(r, "issue")
              /\ UNCHANGED <<invitation, sessions, call>>
           \/ /\ founder[o] # None \/ e \in users
              /\ End(r)
              /\ UNCHANGED tables

(* RolesGuard with @Roles('admin'): the claims of the caller's token. *)
AdminCalls(o) == \E t \in sessions : t.org = o /\ t.role = "admin"

(* POST /organizations/invitations, for any email. *)
Invite(i, o, e, w) ==
    /\ invitation[i].status = "unsent"
    /\ AdminCalls(o)
    /\ invitation' = [invitation EXCEPT ![i] =
                        [org |-> o, email |-> e, role |-> w, status |-> "open"]]
    /\ UNCHANGED <<founder, users, role, sessions, granted, pc, call>>

(* PATCH /memberships/:id.  Any admin may be demoted here, the last one    *)
(* too: the rule against it, and how a race gets past it, are RoleChange's. *)
ChangeRole(o, e, w) ==
    /\ AdminCalls(o)
    /\ Member(o, e)
    /\ role' = [role EXCEPT ![<<o, e>>] = w]
    /\ Grant(o, e, w)
    /\ UNCHANGED <<founder, users, invitation, sessions, pc, call>>

(* expires_at passes. *)
Expire(i) ==
    /\ invitation[i].status = "open"
    /\ invitation' = [invitation EXCEPT ![i].status = "expired"]
    /\ UNCHANGED <<founder, users, role, sessions, granted, pc, call>>

(* POST /auth/invitations/:token/accept, with or without a password. *)
AcceptCall(r, i) ==
    /\ pc[r] = "idle"
    /\ invitation[i].status # "unsent"
    /\ Goto(r, "lookup")
    /\ call' = [call EXCEPT ![r] =
                  [org |-> invitation[i].org, email |-> invitation[i].email,
                   role |-> invitation[i].role, invite |-> i]]
    /\ UNCHANGED tables

(* auth_invitation_lookup: an open invitation, or 410. *)
Lookup(r) ==
    /\ pc[r] = "lookup"
    /\ IF invitation[call[r].invite].status = "open"
       THEN Goto(r, "user") /\ UNCHANGED call
       ELSE End(r)
    /\ UNCHANGED tables

(* user.findUnique: an account goes straight on; without one the password  *)
(* is missing, 400, or is hashed.                                          *)
FindUser(r) ==
    /\ pc[r] = "user"
    /\ \/ call[r].email \in users /\ Goto(r, "select") /\ UNCHANGED call
       \/ call[r].email \notin users /\ Goto(r, "create") /\ UNCHANGED call
       \/ call[r].email \notin users /\ End(r)
    /\ UNCHANGED tables

(* user.create commits the account, or fails on the unique email: 500. *)
CreateUser(r) ==
    /\ pc[r] = "create"
    /\ IF call[r].email \notin users
       THEN Goto(r, "select") /\ UNCHANGED call
       ELSE End(r)
    /\ users' = users \cup {call[r].email}
    /\ UNCHANGED <<founder, role, invitation, sessions, granted>>

(* Faulty variant: an empty answer is taken for an acceptance. *)
AcceptSelect_Unchecked(r) ==
    /\ pc[r] = "select"
    /\ IF invitation[call[r].invite].status = "open"
       THEN Goto(r, "accept") ELSE Goto(r, "issue")
    /\ UNCHANGED <<tables, call>>

(* auth_accept_invitation's SELECT: still open, or 410. *)
AcceptSelect(r) ==
    /\ pc[r] = "select"
    /\ IF invitation[call[r].invite].status = "open"
       THEN Goto(r, "accept") /\ UNCHANGED call
       ELSE End(r)
    /\ UNCHANGED tables

(* Faulty variant: accepted_at is not set. *)
AcceptCommit_NotMarked(r) ==
    LET i == call[r].invite
        o == call[r].org
        e == call[r].email
    IN  /\ pc[r] = "accept"
        /\ role' = IF Member(o, e) THEN role ELSE [role EXCEPT ![<<o, e>>] = call[r].role]
        /\ Grant(o, e, call[r].role)
        /\ Goto(r, "issue")
        /\ UNCHANGED <<founder, users, invitation, sessions, call>>

(* Its INSERT ... ON CONFLICT DO NOTHING and UPDATE, committed together. *)
AcceptCommit(r) ==
    LET i == call[r].invite
        o == call[r].org
        e == call[r].email
    IN  /\ pc[r] = "accept"
        /\ role' = IF Member(o, e) THEN role ELSE [role EXCEPT ![<<o, e>>] = call[r].role]
        /\ Grant(o, e, call[r].role)
        /\ invitation' = [invitation EXCEPT ![i].status = "accepted"]
        /\ Goto(r, "issue")
        /\ UNCHANGED <<founder, users, sessions, call>>

(* POST /auth/login or /auth/refresh has read the membership. *)
SignIn(r, o, e) ==
    /\ pc[r] = "idle"
    /\ Member(o, e)
    /\ Goto(r, "issue")
    /\ call' = [call EXCEPT ![r] = [NoCall EXCEPT !.org = o, !.email = e, !.role = role[<<o, e>>]]]
    /\ UNCHANGED tables

(* issueTokenPair, with the role that was read, or that register or the    *)
(* acceptance returned.                                                    *)
Issue(r) ==
    /\ pc[r] = "issue"
    /\ sessions' = sessions \cup {[org |-> call[r].org, email |-> call[r].email,
                                   role |-> call[r].role]}
    /\ End(r)
    /\ UNCHANGED <<founder, users, role, invitation, granted>>

(* The process or its connection dies between two statements of r. *)
Crash(r) ==
    /\ pc[r] # "idle"
    /\ End(r)
    /\ UNCHANGED tables

Next ==
    \/ \E r \in Requests :
          \/ \E o \in Orgs, e \in Emails : RegisterCall(r, o, e) \/ SignIn(r, o, e)
          \/ \E i \in Invites : AcceptCall(r, i)
          \/ Register(r)     \/ Lookup(r)       \/ FindUser(r) \/ CreateUser(r)
          \/ AcceptSelect(r) \/ AcceptCommit(r) \/ Issue(r)    \/ Crash(r)
    \/ \E i \in Invites :
          \/ \E o \in Orgs, e \in Emails, w \in InviteRoles : Invite(i, o, e, w)
          \/ Expire(i)
    \/ \E o \in Orgs, e \in Emails, w \in WantedRoles : ChangeRole(o, e, w)

Spec == Init /\ [][Next]_vars

-----------------------------------------------------------------------------
InvitationRows ==
    [org : Orgs \cup {None}, email : Emails \cup {None},
     role : {"admin", "member", "none"},
     status : {"unsent", "open", "expired", "accepted"}]

Tokens == [org : Orgs, email : Emails, role : {"admin", "member"}]

Calls ==
    [org : Orgs \cup {None}, email : Emails \cup {None},
     role : {"admin", "member", "none"}, invite : Invites \cup {None}]

TypeOK ==
    /\ founder \in [Orgs -> Emails \cup {None}]
    /\ users \subseteq Emails
    /\ role \in [Orgs \X Emails -> {"admin", "member", "none"}]
    /\ invitation \in [Invites -> InvitationRows]
    /\ sessions \subseteq Tokens
    /\ granted \in [Orgs \X Emails -> SUBSET {"admin", "member"}]
    /\ pc \in [Requests -> Phases]
    /\ call \in [Requests -> Calls]

(* Every membership has a reason: its holder founded the organization, or  *)
(* accepted an invitation to it.  And the other way round: an organization *)
(* that exists has its founder as a member, whatever failed.               *)
Entitled(o, e) ==
    \/ founder[o] = e
    \/ \E i \in Invites : /\ invitation[i].status = "accepted"
                          /\ invitation[i].org = o
                          /\ invitation[i].email = e

MembersEntitled ==
    \A o \in Orgs, e \in Emails : Member(o, e) <=> Entitled(o, e)

(* Whoever is a member has an account, and whoever has been given tokens   *)
(* for an organization is a member of it and has been given the role in    *)
(* them there, in whatever order roles changed, invitations were accepted  *)
(* and tokens were issued.                                                 *)
SessionsOfMembers ==
    /\ \A o \in Orgs, e \in Emails : Member(o, e) => e \in users
    /\ \A t \in sessions : /\ Member(t.org, t.email)
                           /\ t.role \in granted[<<t.org, t.email>>]
=============================================================================
