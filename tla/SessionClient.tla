----------------------------- MODULE SessionClient -----------------------------
(***************************************************************************)
(* The Angular client's session: AuthService with its two localStorage     *)
(* entries and its signal, authInterceptor with its refreshInFlight, and   *)
(* the dashboard's own refresh, against the backend's rotation of refresh  *)
(* tokens (Sessions).                                                      *)
(*                                                                         *)
(* refreshInFlight holds a cold observable: auth.refresh() reads the       *)
(* refresh token once, when it is called, but every request that           *)
(* subscribes sends a POST /auth/refresh of its own with that token.       *)
(* A token pair is known by its number, in the order of issue; 0 is none.  *)
(***************************************************************************)
EXTENDS Naturals, FiniteSets

CONSTANTS
    Tabs,       \* browser tabs, which share localStorage
    Calls,      \* slots for the application's HTTP requests in flight
    MaxPairs    \* bound on the token pairs issued

ASSUME SessionClientAssumption == MaxPairs \in Nat

VARIABLES
    stored,     \* the refresh token in localStorage
    signal,     \* signal[b]: the access token tab b sends, accessTokenSignal
    inFlight,   \* inFlight[b]: the token captured by refreshInFlight, or 0
    call,       \* call[c]: an application request or a refresh on its behalf
    issued,     \* pairs issued so far
    fresh,      \* pairs whose access token has not expired
    live,       \* pairs whose refresh token the backend would exchange
    logouts,    \* refresh tokens in POST /auth/logout requests on their way
    loggedOut,  \* the user has logged out, and not in again
    rough       \* what has happened so far that an easy day is without

client  == <<stored, signal, inFlight>>
server  == <<issued, fresh, live, logouts>>
history == <<loggedOut, rough>>
vars    == <<client, call, server, history>>

(* Two refreshes at once; a login or a logout while a request is on its    *)
(* way, or a login over the session of another tab; an answer or a logout  *)
(* request lost.  No action reads rough.                                   *)
Rough == {"overlap", "hasty", "lost"}

Pairs == 1..MaxPairs
Idle  == [phase |-> "idle"]

(* A refresh on its way: asked for, found live, refused, or answered.      *)
Refreshing == {"asked", "found", "refused", "granted"}

(* POST /auth/refresh for call c of tab b with token k; shared is FALSE    *)
(* for the dashboard's own refresh.                                        *)
Ask(b, k, shared) ==
    [phase |-> "asked", tab |-> b, token |-> k, shared |-> shared]

Init ==
    /\ stored    = 0
    /\ signal    = [b \in Tabs |-> 0]
    /\ inFlight  = [b \in Tabs |-> 0]
    /\ call      = [c \in Calls |-> Idle]
    /\ issued    = 0
    /\ fresh     = {}
    /\ live      = {}
    /\ logouts   = {}
    /\ loggedOut = FALSE
    /\ rough     = {}

-----------------------------------------------------------------------------
(* storeTokens and clearTokens: localStorage is every tab's, the signal is *)
(* the tab's own.                                                          *)
StoreTokens(b, p) == stored' = p /\ signal' = [signal EXCEPT ![b] = p]

(* Faulty: the refresh token is read after it has been removed. *)
LogOut_ClearedFirst(b) == StoreTokens(b, 0) /\ UNCHANGED logouts

(* Faulty: only the access token is forgotten. *)
LogOut_KeepsRefreshToken(b) ==
    /\ signal' = [signal EXCEPT ![b] = 0]
    /\ logouts' = IF stored = 0 THEN logouts ELSE logouts \cup {stored}
    /\ UNCHANGED stored

(* AuthService.logout: forget the tokens, then tell the backend if one     *)
(* was stored.                                                             *)
LogOut(b) ==
    /\ StoreTokens(b, 0)
    /\ logouts' = IF stored = 0 THEN logouts ELSE logouts \cup {stored}

(* issueTokenPair *)
NewPair(p) ==
    /\ p = issued + 1
    /\ p \in Pairs
    /\ issued' = p
    /\ fresh'  = fresh \cup {p}

Mark(what, happens) == rough' = IF happens THEN rough \cup {what} ELSE rough

Quiet == \A c \in Calls : call[c] = Idle

(* A refresh is on its way. *)
SomeRefresh == \E c \in Calls : call[c].phase \in Refreshing

(* A login, a registration or an accepted invitation is answered. *)
Login(b) ==
    \E p \in Pairs :
        /\ signal[b] = 0
        /\ NewPair(p)
        /\ StoreTokens(b, p)
        /\ live' = live \cup {p}
        /\ loggedOut' = FALSE
        /\ Mark("hasty", ~Quiet \/ stored # 0)
        /\ UNCHANGED <<inFlight, call, logouts>>

(* A tab is opened or reloaded: the signal starts from localStorage. *)
OpenTab(b) ==
    /\ \A c \in Calls : call[c] # Idle => call[c].tab # b
    /\ signal'   = [signal EXCEPT ![b] = stored]
    /\ inFlight' = [inFlight EXCEPT ![b] = 0]
    /\ UNCHANGED <<stored, call, server, history>>

(* The user logs out in tab b. *)
UserLogout(b) ==
    /\ signal[b] # 0
    /\ LogOut(b)
    /\ loggedOut' = TRUE
    /\ Mark("hasty", ~Quiet)
    /\ UNCHANGED <<inFlight, call, issued, fresh, live>>

(* Faulty: a request is sent as "Bearer null". *)
Send_NoToken(c, b) ==
    /\ call[c] = Idle
    /\ call' = [call EXCEPT ![c] =
                  [phase |-> "sent", tab |-> b, bearer |-> signal[b]]]
    /\ UNCHANGED <<client, server, history>>

(* A page behind authGuard sends a request with the tab's access token. *)
Send(c, b) ==
    /\ call[c] = Idle
    /\ signal[b] # 0
    /\ call' = [call EXCEPT ![c] =
                  [phase |-> "sent", tab |-> b, bearer |-> signal[b]]]
    /\ UNCHANGED <<client, server, history>>

(* The request is answered for good, at the first or the second attempt. *)
Answered(c) ==
    /\ call[c].phase \in {"sent", "retried"}
    /\ call[c].bearer \in fresh
    /\ call' = [call EXCEPT ![c] = Idle]
    /\ UNCHANGED <<client, server, history>>

(* 401, and nothing stored to refresh with: the error goes to the page. *)
Rejected(c) ==
    /\ call[c].phase = "sent"
    /\ call[c].bearer \notin fresh
    /\ stored = 0
    /\ call' = [call EXCEPT ![c] = Idle]
    /\ UNCHANGED <<client, server, history>>

(* Faulty: the refresh token is kept in the tab's memory. *)
Subscribe_TabToken(c) ==
    LET b == call[c].tab
        k == IF inFlight[b] = 0 THEN signal[b] ELSE inFlight[b]
    IN  /\ call[c].phase = "sent"
        /\ call[c].bearer \notin fresh
        /\ stored # 0
        /\ inFlight' = [inFlight EXCEPT ![b] = k]
        /\ call' = [call EXCEPT ![c] = Ask(b, k, TRUE)]
        /\ Mark("overlap", SomeRefresh)
        /\ UNCHANGED <<stored, signal, server, loggedOut>>

(* 401: refreshInFlight ??= auth.refresh(), and subscribe to it. *)
Subscribe(c) ==
    LET b == call[c].tab
        k == IF inFlight[b] = 0 THEN stored ELSE inFlight[b]
    IN  /\ call[c].phase = "sent"
        /\ call[c].bearer \notin fresh
        /\ stored # 0
        /\ inFlight' = [inFlight EXCEPT ![b] = k]
        /\ call' = [call EXCEPT ![c] = Ask(b, k, TRUE)]
        /\ Mark("overlap", SomeRefresh)
        /\ UNCHANGED <<stored, signal, server, loggedOut>>

(* 401 again, or any other error, after the refresh: catchError drops      *)
(* refreshInFlight, whoever waits for it now.                              *)
RejectedAgain(c) ==
    /\ call[c].phase = "retried"
    /\ inFlight' = [inFlight EXCEPT ![call[c].tab] = 0]
    /\ call' = [call EXCEPT ![c] = Idle]
    /\ UNCHANGED <<stored, signal, server, history>>

(* DashboardComponent.togglePlan, once the plan has changed, refreshes     *)
(* with whatever is stored, next to refreshInFlight.                       *)
PlanRefresh(c, b) ==
    /\ call[c] = Idle
    /\ signal[b] # 0
    /\ call' = [call EXCEPT ![c] = Ask(b, stored, FALSE)]
    /\ Mark("overlap", SomeRefresh)
    /\ UNCHANGED <<client, server, loggedOut>>

-----------------------------------------------------------------------------
(* The backend's half of a refresh: Sessions' ConsumeFind; ConsumeRotate   *)
(* with Issue; and a failure or a lost answer, which the client cannot     *)
(* tell from a refusal.                                                    *)
Find(c) ==
    /\ call[c].phase = "asked"
    /\ call' = [call EXCEPT ![c].phase =
                  IF call[c].token \in live THEN "found" ELSE "refused"]
    /\ UNCHANGED <<client, server, history>>

Rotate(c) ==
    \E p \in Pairs :
        /\ call[c].phase = "found"
        /\ NewPair(p)
        /\ live' = (live \ {call[c].token}) \cup {p}
        /\ call' = [call EXCEPT ![c] = [phase |-> "granted", tab |-> @.tab,
                                        token |-> p, shared |-> @.shared]]
        /\ UNCHANGED <<client, logouts, history>>

Lose(c) ==
    /\ call[c].phase \in {"asked", "granted"}
    /\ call' = [call EXCEPT ![c].phase = "refused"]
    /\ Mark("lost", TRUE)
    /\ UNCHANGED <<client, server, loggedOut>>

(* The rotation cannot be followed in the model any further.               *)
OutOfPairs(c) ==
    /\ call[c].phase = "found"
    /\ issued = MaxPairs
    /\ live' = live \ {call[c].token}
    /\ call' = [call EXCEPT ![c].phase = "refused"]
    /\ UNCHANGED <<client, issued, fresh, logouts, history>>

-----------------------------------------------------------------------------
(* Faulty: refreshInFlight is not dropped when the refresh succeeds. *)
Granted_KeepsRefresh(c) ==
    LET b == call[c].tab
        p == call[c].token
    IN  /\ call[c].phase = "granted"
        /\ StoreTokens(b, p)
        /\ call' = [call EXCEPT ![c] =
                      IF call[c].shared
                      THEN [phase |-> "retried", tab |-> b, bearer |-> p]
                      ELSE Idle]
        /\ UNCHANGED <<inFlight, server, history>>

(* The new pair is stored; a request of the interceptor's is sent again    *)
(* with it.                                                                *)
Granted(c) ==
    LET b == call[c].tab
        p == call[c].token
    IN  /\ call[c].phase = "granted"
        /\ StoreTokens(b, p)
        /\ IF call[c].shared
           THEN /\ inFlight' = [inFlight EXCEPT ![b] = 0]
                /\ call' = [call EXCEPT ![c] =
                              [phase |-> "retried", tab |-> b, bearer |-> p]]
           ELSE /\ call' = [call EXCEPT ![c] = Idle]
                /\ UNCHANGED inFlight
        /\ UNCHANGED <<server, history>>

(* Faulty: the request is left waiting behind the login page. *)
GiveUp_Pending(c) ==
    /\ call[c].phase = "refused"
    /\ call[c].shared
    /\ LogOut(call[c].tab)
    /\ inFlight' = [inFlight EXCEPT ![call[c].tab] = 0]
    /\ UNCHANGED <<call, issued, fresh, live, history>>

(* The interceptor's refresh failed: auth.logout() and on to /login. *)
GiveUp(c) ==
    LET b == call[c].tab
    IN  /\ call[c].phase = "refused"
        /\ call[c].shared
        /\ LogOut(b)
        /\ inFlight' = [inFlight EXCEPT ![b] = 0]
        /\ call' = [call EXCEPT ![c] = Idle]
        /\ UNCHANGED <<issued, fresh, live, history>>

(* The dashboard's refresh failed: nobody handles the error. *)
PlanRefreshFailed(c) ==
    /\ call[c].phase = "refused"
    /\ ~call[c].shared
    /\ call' = [call EXCEPT ![c] = Idle]
    /\ UNCHANGED <<client, server, history>>

(* POST /auth/logout arrives, or is lost. *)
ServerLogout(k) ==
    /\ k \in logouts
    /\ \/ live' = live \ {k} /\ UNCHANGED rough
       \/ Mark("lost", TRUE) /\ UNCHANGED live
    /\ logouts' = logouts \ {k}
    /\ UNCHANGED <<client, call, issued, fresh, loggedOut>>

(* Fifteen minutes pass, or thirty days: access tokens issued up to p have *)
(* expired, and maybe the refresh tokens too.                              *)
ExpireTokens(p) ==
    /\ p \in fresh \cup live
    /\ fresh' = {q \in fresh : q > p}
    /\ live' \in {live, {q \in live : q > p}}
    /\ UNCHANGED <<client, call, issued, logouts, history>>

(* What happens to a call that is in flight. *)
Progress(c) ==
    \/ Answered(c) \/ Rejected(c) \/ Subscribe(c) \/ RejectedAgain(c)
    \/ Find(c)     \/ Rotate(c)   \/ OutOfPairs(c)
    \/ Granted(c)  \/ GiveUp(c)   \/ PlanRefreshFailed(c)

Next ==
    \/ \E b \in Tabs : Login(b) \/ OpenTab(b) \/ UserLogout(b)
    \/ \E c \in Calls :
          \/ \E b \in Tabs : Send(c, b) \/ PlanRefresh(c, b)
          \/ Progress(c)
          \/ Lose(c)
    \/ \E p \in Pairs : ServerLogout(p) \/ ExpireTokens(p)

Spec == Init /\ [][Next]_vars

(* Every request is answered or fails, and the client handles it.          *)
FairSpec == Spec /\ \A c \in Calls : WF_vars(Progress(c))

-----------------------------------------------------------------------------
Requests  == [phase : {"sent", "retried"}, tab : Tabs, bearer : Pairs]
Refreshes == [phase : Refreshing, tab : Tabs, token : 0..MaxPairs, shared : BOOLEAN]

TypeOK ==
    /\ stored \in 0..MaxPairs
    /\ signal \in [Tabs -> 0..MaxPairs]
    /\ inFlight \in [Tabs -> 0..MaxPairs]
    /\ call \in [Calls -> {Idle} \cup Requests \cup Refreshes]
    /\ issued \in 0..MaxPairs
    /\ fresh \subseteq Pairs /\ live \subseteq Pairs /\ logouts \subseteq Pairs
    /\ loggedOut \in BOOLEAN
    /\ rough \subseteq Rough

Asking(b) == {c \in Calls : /\ call[c].phase \in Refreshing
                            /\ call[c].tab = b
                            /\ call[c].shared}

(* "N requests failing with 401 at once trigger a single refresh call" *)
SingleRefresh == \A b \in Tabs : Cardinality(Asking(b)) <= 1

(* refreshInFlight does not outlive the requests that wait for it: a later *)
(* 401 never replays a refresh that was settled long ago.                  *)
NoStaleRefresh == \A b \in Tabs : inFlight[b] # 0 => Asking(b) # {}

(* After a logout the tokens are gone until the next login, unless a       *)
(* request was still on its way.                                           *)
StaysLoggedOut == loggedOut /\ "hasty" \notin rough => stored = 0

(* The client gives up, without being told to, only a session the backend  *)
(* would not have continued, as long as refreshes and logins come one at a *)
(* time and are answered, whichever tabs they come from.                   *)
GivesUpDeadOnly ==
    [][stored # 0 /\ stored' = 0 /\ ~loggedOut' /\ rough = {}
       => stored \notin live]_vars

(* Once the user has logged out and every request has arrived, no refresh  *)
(* token of the session is left that the backend would exchange, as long   *)
(* as refreshes and logins came one at a time and were answered: of two    *)
(* refreshes with one token each leaves a pair, and only one is stored.    *)
LogoutLeavesNothing ==
    loggedOut /\ logouts = {} /\ Quiet /\ rough = {} => live = {}

(* Every request comes to an end: refreshing and retrying cannot go on     *)
(* for ever.                                                               *)
EveryCallEnds == \A c \in Calls : call[c] # Idle ~> call[c] = Idle
=============================================================================
