------------------------------- MODULE Sessions -------------------------------
(***************************************************************************)
(* AuthService.login, refresh and logout over the refresh_tokens table of  *)
(* one organization.                                                       *)
(*                                                                         *)
(* A request is a chain of separate statements, each its own transaction;  *)
(* whatever happens between two of them, the process dying included, is    *)
(* not undone.  auth_consume_refresh_token is two steps: its SELECT, and   *)
(* its UPDATE together with RETURN QUERY and the commit.  The UPDATE takes *)
(* the row by id and does not look at revoked_at again, so what            *)
(* SessionChain promises holds only of clients that show a token to one    *)
(* request at a time.  raced, a history variable that no action reads,     *)
(* records the sessions of those that did not.                             *)
(***************************************************************************)
EXTENDS Naturals, FiniteSets

CONSTANTS
    Users,     \* the members of the organization
    Tokens,    \* refresh tokens that can be issued
    Requests,  \* slots for requests in flight at once
    MaxLogins, \* bound on a user's audited logins
    None       \* no token, no user

ASSUME SessionsAssumption ==
    /\ MaxLogins \in Nat
    /\ None \notin Tokens \cup Users

VARIABLES
    owner,      \* owner[t]: the user of t's row, None before t is issued
    state,      \* state[t]: "unissued", "live", "expired" or "revoked"
    root,       \* root[t]: the login's token that t descends from
    exchanges,  \* exchanges[t]: how many refreshes t has paid for
    over,       \* the sessions a token of which was logged out
    audit,      \* audit[u]: auth.login rows of u
    pc,         \* pc[r]: the statement r runs next
    token,      \* token[r]: the refresh token r was called with, or None
    user,       \* user[r]: the user r acts for, or None
    raced       \* sessions whose client showed two requests one usable token

calls == <<pc, token, user>>
vars  == <<owner, state, root, exchanges, over, audit, calls, raced>>

Phases == {"idle", "compare", "audit", "find", "rotate", "issue"}

Init ==
    /\ owner     = [t \in Tokens |-> None]
    /\ state     = [t \in Tokens |-> "unissued"]
    /\ root      = [t \in Tokens |-> None]
    /\ exchanges = [t \in Tokens |-> 0]
    /\ over      = {}
    /\ audit     = [u \in Users |-> 0]
    /\ pc        = [r \in Requests |-> "idle"]
    /\ token     = [r \in Requests |-> None]
    /\ user      = [r \in Requests |-> None]
    /\ raced     = {}

-----------------------------------------------------------------------------
(* A token that a request could still exchange: it is live, or it was when *)
(* a refresh that is about to consume it looked.                           *)
Usable(t) ==
    \/ state[t] = "live"
    \/ state[t] = "expired" /\ \E r \in Requests : token[r] = t /\ pc[r] = "rotate"

(* t is shown to a request: a race, if another one has it. *)
Shown(t) ==
    raced' = IF Usable(t) /\ \E r \in Requests : token[r] = t
             THEN raced \cup {root[t]}
             ELSE raced

(* The request is over: answered, failed, or lost with its process. *)
End(r) ==
    /\ pc'     = [pc EXCEPT ![r] = "idle"]
    /\ token'  = [token EXCEPT ![r] = None]
    /\ user'   = [user EXCEPT ![r] = None]

(* POST /auth/login: auth_login_lookup reads the user's row. *)
LoginLookup(r, u) ==
    /\ pc[r] = "idle"
    /\ pc'   = [pc EXCEPT ![r] = "compare"]
    /\ user' = [user EXCEPT ![r] = u]
    /\ UNCHANGED <<owner, state, root, exchanges, over, audit, token, raced>>

(* bcrypt.compare, off the event loop: the password is wrong, or right. *)
Compare(r) ==
    /\ pc[r] = "compare"
    /\ \/ End(r)
       \/ pc' = [pc EXCEPT ![r] = "audit"] /\ UNCHANGED <<token, user>>
    /\ UNCHANGED <<owner, state, root, exchanges, over, audit, raced>>

(* Faulty: the audit write is not awaited, and may be lost. *)
LoginAudit_Lost(r) ==
    /\ pc[r] = "audit"
    /\ pc' = [pc EXCEPT ![r] = "issue"]
    /\ UNCHANGED <<owner, state, root, exchanges, over, audit, token,
                   user, raced>>

(* audit_write_cross_tenant commits the auth.login row on its own. *)
LoginAudit(r) ==
    /\ pc[r] = "audit"
    /\ audit[user[r]] < MaxLogins
    /\ audit' = [audit EXCEPT ![user[r]] = @ + 1]
    /\ pc'    = [pc EXCEPT ![r] = "issue"]
    /\ UNCHANGED <<owner, state, root, exchanges, over, token, user, raced>>

(* POST /auth/refresh arrives with a token some client holds. *)
RefreshCall(r, t) ==
    /\ pc[r] = "idle"
    /\ state[t] # "unissued"
    /\ pc'    = [pc EXCEPT ![r] = "find"]
    /\ token' = [token EXCEPT ![r] = t]
    /\ user'  = [user EXCEPT ![r] = owner[t]]
    /\ Shown(t)
    /\ UNCHANGED <<owner, state, root, exchanges, over, audit>>

(* Faulty: the SELECT does not ask for revoked_at IS NULL. *)
ConsumeFind_AnyRow(r) ==
    /\ pc[r] = "find"
    /\ pc' = [pc EXCEPT ![r] = "rotate"]
    /\ UNCHANGED <<owner, state, root, exchanges, over, audit, token,
                   user, raced>>

(* auth_consume_refresh_token's SELECT: a live row, or 401. *)
ConsumeFind(r) ==
    /\ pc[r] = "find"
    /\ \/ /\ state[token[r]] = "live"
          /\ pc' = [pc EXCEPT ![r] = "rotate"]
          /\ UNCHANGED <<token, user>>
       \/ state[token[r]] # "live" /\ End(r)
    /\ UNCHANGED <<owner, state, root, exchanges, over, audit, raced>>

(* Faulty: the token is not revoked. *)
ConsumeRotate_NotRevoked(r) ==
    /\ pc[r] = "rotate"
    /\ exchanges' = [exchanges EXCEPT ![token[r]] = @ + 1]
    /\ pc'        = [pc EXCEPT ![r] = "issue"]
    /\ UNCHANGED <<owner, state, root, over, audit, token, user, raced>>

(* Its UPDATE by id, RETURN QUERY, and the commit. *)
ConsumeRotate(r) ==
    /\ pc[r] = "rotate"
    /\ state'     = [state EXCEPT ![token[r]] = "revoked"]
    /\ exchanges' = [exchanges EXCEPT ![token[r]] = @ + 1]
    /\ pc'        = [pc EXCEPT ![r] = "issue"]
    /\ UNCHANGED <<owner, root, over, audit, token, user, raced>>

(* Faulty: the row is inserted without its user. *)
Issue_NoUser(r, t) ==
    /\ pc[r] = "issue"
    /\ state[t] = "unissued"
    /\ state' = [state EXCEPT ![t] = "live"]
    /\ root'  = [root EXCEPT ![t] = IF token[r] = None THEN t ELSE root[token[r]]]
    /\ End(r)
    /\ UNCHANGED <<owner, exchanges, over, audit, raced>>

(* issueTokenPair inserts a refresh token never used before, for the user  *)
(* of the token that was consumed; the pair is the answer.                 *)
Issue(r, t) ==
    /\ pc[r] = "issue"
    /\ state[t] = "unissued"
    /\ state' = [state EXCEPT ![t] = "live"]
    /\ owner' = [owner EXCEPT ![t] = user[r]]
    /\ root'  = [root EXCEPT ![t] = IF token[r] = None THEN t ELSE root[token[r]]]
    /\ End(r)
    /\ UNCHANGED <<exchanges, over, audit, raced>>

(* Faulty: logging out only tells the client to forget. *)
Logout_NotRevoked(t) ==
    /\ state[t] # "unissued"
    /\ over' = IF state[t] = "revoked" THEN over ELSE over \cup {root[t]}
    /\ Shown(t)
    /\ UNCHANGED <<owner, state, root, exchanges, audit, calls>>

(* POST /auth/logout: one UPDATE of the row, if not yet revoked; 204. *)
Logout(t) ==
    /\ state[t] # "unissued"
    /\ over'  = IF state[t] = "revoked" THEN over ELSE over \cup {root[t]}
    /\ state' = [state EXCEPT ![t] = "revoked"]
    /\ Shown(t)
    /\ UNCHANGED <<owner, root, exchanges, audit, calls>>

(* The process or its connection dies between two statements of r. *)
Crash(r) ==
    /\ pc[r] # "idle"
    /\ End(r)
    /\ UNCHANGED <<owner, state, root, exchanges, over, audit, raced>>

(* expires_at passes. *)
Expire(t) ==
    /\ state[t] = "live"
    /\ state' = [state EXCEPT ![t] = "expired"]
    /\ UNCHANGED <<owner, root, exchanges, over, audit, calls, raced>>

Next ==
    \/ \E r \in Requests :
          \/ \E u \in Users : LoginLookup(r, u)
          \/ \E t \in Tokens : RefreshCall(r, t) \/ Issue(r, t)
          \/ Compare(r)
          \/ LoginAudit(r)
          \/ ConsumeFind(r)
          \/ ConsumeRotate(r)
          \/ Crash(r)
    \/ \E t \in Tokens : Logout(t) \/ Expire(t)

Spec == Init /\ [][Next]_vars

-----------------------------------------------------------------------------
TypeOK ==
    /\ owner \in [Tokens -> Users \cup {None}]
    /\ state \in [Tokens -> {"unissued", "live", "expired", "revoked"}]
    /\ root \in [Tokens -> Tokens \cup {None}]
    /\ exchanges \in [Tokens -> Nat]
    /\ over \subseteq Tokens /\ raced \subseteq Tokens
    /\ audit \in [Users -> Nat]
    /\ pc \in [Requests -> Phases]
    /\ token \in [Requests -> Tokens \cup {None}]
    /\ user \in [Requests -> Users \cup {None}]
    /\ \A t \in Tokens : state[t] # "unissued" => /\ owner[t] \in Users
                                                  /\ root[t] \in Tokens
    /\ \A r \in Requests :
          /\ pc[r] # "idle" => user[r] \in Users
          /\ pc[r] \in {"find", "rotate"} => token[r] \in Tokens
          /\ token[r] \in Tokens => state[token[r]] # "unissued"

(* "a token can only ever be exchanged once" *)
ExchangedOnce == \A t \in Tokens : exchanges[t] <= 1

(* It is, in a session whose client shows a token to one request at a      *)
(* time, whatever crashes, expires or is logged out in between.            *)
UnracedExchangedOnce ==
    \A t \in Tokens : root[t] \in raced \/ exchanges[t] <= 1

(* Where a session lives: in its usable tokens, and in the refreshes that  *)
(* have consumed the last one and not issued the next.                     *)
Tips(f)  == {t \in Tokens : root[t] = f /\ Usable(t)}
Heirs(f) == {r \in Requests :
                pc[r] = "issue" /\ token[r] # None /\ root[token[r]] = f}

(* A logged-out session stays over: no token of it is, or will be, usable, *)
(* unless its client raced.                                                *)
LogoutEnds == \A f \in over \ raced : Tips(f) = {} /\ Heirs(f) = {}

(* No session without its auth.login row, whatever dies in between. *)
LoginsAudited ==
    \A u \in Users :
        Cardinality({t \in Tokens : root[t] = t /\ owner[t] = u}) <= audit[u]

-----------------------------------------------------------------------------
(* The session as SessionChain sees it. *)
ChainPhase(f) ==
    IF f \in raced THEN "forked"
    ELSE IF root[f] # f THEN "unopened"
    ELSE IF Heirs(f) # {} THEN "changing"
    ELSE IF Tips(f) # {} THEN "open"
    ELSE "ended"

ChainUsable(f) == IF f \in raced THEN {} ELSE Tips(f)

Chain == INSTANCE SessionChain
         WITH phase  <- [f \in Tokens |-> ChainPhase(f)],
              usable <- [f \in Tokens |-> ChainUsable(f)],
              used   <- {t \in Tokens : state[t] # "unissued"}

(* Rotation implements SessionChain: every statement of every request      *)
(* opens, exchanges, renews, ends or forks one session, or changes none.   *)
ChainSpec == Chain!Spec
=============================================================================
