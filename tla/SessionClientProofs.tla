------------------------- MODULE SessionClientProofs -------------------------
(***************************************************************************)
(* What the client's session promises for any number of tabs, requests in  *)
(* flight and token pairs: no refresh is replayed after it was settled, a  *)
(* logout stays a logout, and as long as refreshes and logins come one at  *)
(* a time and are answered, only a dead session is given up and a logout   *)
(* leaves no refresh token behind.                                         *)
(***************************************************************************)
EXTENDS SessionClient, TLAPS

(* An answered refresh carries a new pair. *)
GrantsPairs == \A c \in Calls : call[c].phase = "granted" => call[c].token \in Pairs

(* After a logout that nothing was on its way at, what other tabs may      *)
(* still ask for is without a token, and is refused.                       *)
LoggedOutForGood ==
    loggedOut /\ "hasty" \notin rough =>
        /\ stored = 0
        /\ \A c \in Calls : call[c].phase \in Refreshing =>
              call[c].token = 0 /\ call[c].phase \in {"asked", "refused"}

(* Without anything rough: one refresh at a time, with the token that is   *)
(* stored; one that was refused is dead; and what the backend would        *)
(* exchange is stored, on its way to be, or about to be logged out.        *)
OneAtATime ==
    \A c, d \in Calls :
        call[c].phase \in Refreshing /\ call[d].phase \in Refreshing => c = d

UsesStored ==
    \A c \in Calls :
        /\ call[c].phase \in {"asked", "found", "refused"} => call[c].token = stored
        /\ call[c].phase = "refused" => call[c].token \notin live

LiveKnown ==
    \A k \in live :
        \/ k \in logouts
        \/ k = stored /\ \A c \in Calls : call[c].phase # "granted"
        \/ \E c \in Calls : call[c].phase = "granted" /\ call[c].token = k

Orderly == rough = {} => OneAtATime /\ UsesStored /\ LiveKnown

ClientInv ==
    TypeOK /\ GrantsPairs /\ NoStaleRefresh /\ LoggedOutForGood /\ Orderly

-----------------------------------------------------------------------------
(* What kind of record a call is, by its phase. *)
LEMMA CallKinds ==
    ASSUME TypeOK, NEW c \in Calls
    PROVE  /\ call[c].phase \in Refreshing => call[c] \in Refreshes
           /\ call[c].phase \in {"sent", "retried"} => call[c] \in Requests
           /\ call[c].phase = "idle" <=> call[c] = Idle
           /\ call[c].phase \in Refreshing \cup {"sent", "retried", "idle"}
BY DEF TypeOK, Requests, Refreshes, Refreshing, Idle

LEMMA IdlePhase == Idle.phase = "idle"
BY DEF Idle

(* A refresh that goes on to another phase is the same refresh. *)
LEMMA MovesOn ==
    ASSUME NEW r \in Refreshes, NEW s \in Refreshing
    PROVE  /\ [r EXCEPT !.phase = s] \in Refreshes
           /\ [r EXCEPT !.phase = s].phase = s
           /\ [r EXCEPT !.phase = s].tab = r.tab
           /\ [r EXCEPT !.phase = s].token = r.token
           /\ [r EXCEPT !.phase = s].shared = r.shared
BY DEF Refreshes

(* What the backend or the network does to the call c: it stays a refresh  *)
(* of its tab, for whoever asked for it, and goes on with the token k.     *)
Turns(c, s, k) ==
    /\ call[c] \in Refreshes /\ s \in Refreshing /\ k \in 0..MaxPairs
    /\ \E r \in Refreshes :
          /\ call' = [call EXCEPT ![c] = r]
          /\ r.phase = s /\ r.token = k /\ r.tab = call[c].tab /\ r.shared = call[c].shared

LEMMA GoesOn ==
    ASSUME NEW c \in Calls, call[c] \in Refreshes, NEW s \in Refreshing,
           call' = [call EXCEPT ![c] = [call[c] EXCEPT !.phase = s]]
    PROVE  Turns(c, s, call[c].token)
<1> DEFINE r == [call[c] EXCEPT !.phase = s]
<1>1. /\ r \in Refreshes /\ r.phase = s /\ r.tab = call[c].tab
      /\ r.token = call[c].token /\ r.shared = call[c].shared
  BY MovesOn
<1>2. call' = [call EXCEPT ![c] = r]
  OBVIOUS
<1>3. call[c].token \in 0..MaxPairs
  BY DEF Refreshes
<1> HIDE DEF r
<1> QED
  BY <1>1, <1>2, <1>3 DEF Turns

LEMMA FindMeans ==
    ASSUME TypeOK, NEW c \in Calls, Find(c)
    PROVE  /\ call[c].phase = "asked"
           /\ IF call[c].token \in live THEN Turns(c, "found", call[c].token)
              ELSE Turns(c, "refused", call[c].token)
           /\ UNCHANGED <<client, server, history>>
<1>1. call[c].phase = "asked" /\ call[c] \in Refreshes /\ call[c].token \in 0..MaxPairs
  BY CallKinds DEF Find, Refreshing, Refreshes
<1>2. "found" \in Refreshing /\ "refused" \in Refreshing
  BY DEF Refreshing
<1>3. CASE call[c].token \in live
  <2>1. call' = [call EXCEPT ![c] = [call[c] EXCEPT !.phase = "found"]]
    BY <1>3 DEF Find
  <2>2. Turns(c, "found", call[c].token)
    BY <1>1, <1>2, <2>1, GoesOn
  <2> QED
    BY <1>3, <2>2 DEF Find
<1>4. CASE call[c].token \notin live
  <2>1. call' = [call EXCEPT ![c] = [call[c] EXCEPT !.phase = "refused"]]
    BY <1>4 DEF Find
  <2>2. Turns(c, "refused", call[c].token)
    BY <1>1, <1>2, <2>1, GoesOn
  <2> QED
    BY <1>4, <2>2 DEF Find
<1> QED
  BY <1>3, <1>4

LEMMA RotateMeans ==
    ASSUME TypeOK, NEW c \in Calls, Rotate(c)
    PROVE  /\ call[c].phase = "found" /\ call[c] \in Refreshes
           /\ issued + 1 \in Pairs /\ issued' = issued + 1
           /\ fresh' = fresh \cup {issued'}
           /\ live' = (live \ {call[c].token}) \cup {issued'}
           /\ Turns(c, "granted", issued')
           /\ UNCHANGED <<client, logouts, history>>
<1>1. call[c].phase = "found" /\ call[c] \in Refreshes
  BY CallKinds DEF Rotate, Refreshing
<1>2. PICK p \in Pairs :
          /\ NewPair(p)
          /\ live' = (live \ {call[c].token}) \cup {p}
          /\ call' = [call EXCEPT ![c] = [phase |-> "granted", tab |-> call[c].tab,
                                          token |-> p, shared |-> call[c].shared]]
          /\ UNCHANGED <<client, logouts, history>>
  BY DEF Rotate
<1>3. p = issued + 1 /\ issued' = p /\ fresh' = fresh \cup {p}
  BY <1>2 DEF NewPair
<1>4. /\ [phase |-> "granted", tab |-> call[c].tab, token |-> p,
          shared |-> call[c].shared] \in Refreshes
      /\ p \in 0..MaxPairs
  BY <1>1, SessionClientAssumption DEF Refreshes, Refreshing, Pairs
<1> QED
  BY <1>1, <1>2, <1>3, <1>4 DEF Turns, Refreshing

LEMMA RefusedMeans ==
    ASSUME TypeOK, NEW c \in Calls, Lose(c) \/ OutOfPairs(c)
    PROVE  /\ Turns(c, "refused", call[c].token) /\ UNCHANGED <<client, issued, fresh, logouts, loggedOut>>
           /\ \/ call[c].phase \in {"asked", "granted"} /\ "lost" \in rough' /\ rough' \subseteq rough \cup {"lost"} /\ UNCHANGED live
              \/ call[c].phase = "found" /\ live' = live \ {call[c].token} /\ UNCHANGED rough
<1>1. call[c] \in Refreshes /\ call[c].token \in 0..MaxPairs
  BY CallKinds DEF Lose, OutOfPairs, Refreshing, Refreshes
<1>2. call' = [call EXCEPT ![c] = [call[c] EXCEPT !.phase = "refused"]]
  BY DEF Lose, OutOfPairs
<1>3. "refused" \in Refreshing
  BY DEF Refreshing
<1>4. Turns(c, "refused", call[c].token)
  BY <1>1, <1>2, <1>3, GoesOn
<1> QED
  BY <1>4 DEF Lose, OutOfPairs, Mark, server, history, client

LEMMA TurnsOnly ==
    ASSUME TypeOK, NEW c \in Calls, NEW s, NEW k, Turns(c, s, k)
    PROVE  /\ call' \in [Calls -> {Idle} \cup Requests \cup Refreshes]
           /\ call[c].phase \in Refreshing
           /\ s \in Refreshing /\ k \in 0..MaxPairs
           /\ call'[c].phase = s /\ call'[c].token = k
           /\ call'[c].tab = call[c].tab /\ call'[c].shared = call[c].shared
           /\ \A d \in Calls \ {c} : call'[d] = call[d]
<1>1. PICK r \in Refreshes :
          /\ call' = [call EXCEPT ![c] = r]
          /\ r.phase = s /\ r.token = k /\ r.tab = call[c].tab /\ r.shared = call[c].shared
  BY DEF Turns
<1>2. call[c].phase \in Refreshing
  BY DEF Turns, Refreshes
<1> QED
  BY <1>1, <1>2 DEF Turns, TypeOK

(* A call that ends, is sent, is sent again, or turns to a refresh.        *)
LEMMA Becomes ==
    ASSUME TypeOK, NEW c \in Calls, NEW v \in {Idle} \cup Requests \cup Refreshes,
           call' = [call EXCEPT ![c] = v]
    PROVE  /\ call' \in [Calls -> {Idle} \cup Requests \cup Refreshes]
           /\ call'[c] = v
           /\ \A d \in Calls \ {c} : call'[d] = call[d]
BY DEF TypeOK

LEMMA NewCalls ==
    ASSUME TypeOK, NEW b \in Tabs
    PROVE  /\ \A p \in Pairs, s \in {"sent", "retried"} :
                  [phase |-> s, tab |-> b, bearer |-> p] \in Requests
           /\ \A k \in 0..MaxPairs, w \in BOOLEAN : Ask(b, k, w) \in Refreshes
BY DEF Requests, Refreshes, Refreshing, Ask

(* A shared refresh of tab b begins, with what refreshInFlight holds.      *)
LEMMA SubscribeMeans ==
    ASSUME TypeOK, NEW c \in Calls, Subscribe(c)
    PROVE  \E b \in Tabs, k \in 0..MaxPairs :
              /\ call[c].phase = "sent" /\ stored # 0
              /\ k = IF inFlight[b] = 0 THEN stored ELSE inFlight[b]
              /\ inFlight' = [inFlight EXCEPT ![b] = k]
              /\ call' = [call EXCEPT ![c] = Ask(b, k, TRUE)]
              /\ Mark("overlap", SomeRefresh)
              /\ UNCHANGED <<stored, signal, server, loggedOut>>
<1>1. call[c].tab \in Tabs
  BY CallKinds DEF Subscribe, Requests
<1>2. stored \in 0..MaxPairs /\ inFlight[call[c].tab] \in 0..MaxPairs
  BY <1>1 DEF TypeOK
<1> QED
  BY <1>1, <1>2 DEF Subscribe, Mark

(* The pair that a refresh brought is stored, and its request retried.     *)
LEMMA GrantedMeans ==
    ASSUME TypeOK, GrantsPairs, NEW c \in Calls, Granted(c)
    PROVE  \E b \in Tabs, p \in Pairs :
              /\ call[c].phase = "granted" /\ call[c].tab = b /\ call[c].token = p
              /\ stored' = p /\ signal' = [signal EXCEPT ![b] = p]
              /\ \/ /\ call[c].shared
                    /\ inFlight' = [inFlight EXCEPT ![b] = 0]
                    /\ call' = [call EXCEPT ![c] =
                                  [phase |-> "retried", tab |-> b, bearer |-> p]]
                 \/ /\ ~call[c].shared
                    /\ call' = [call EXCEPT ![c] = Idle]
                    /\ UNCHANGED inFlight
              /\ UNCHANGED <<server, history>>
<1>1. call[c].tab \in Tabs /\ call[c].token \in Pairs
  BY CallKinds DEF Granted, Refreshes, Refreshing, GrantsPairs
<1> QED
  BY <1>1 DEF Granted, StoreTokens

(* The interceptor gives the session up.                                   *)
LEMMA GiveUpMeans ==
    ASSUME TypeOK, NEW c \in Calls, GiveUp(c)
    PROVE  \E b \in Tabs :
              /\ call[c].phase = "refused" /\ call[c].shared /\ call[c].tab = b
              /\ stored' = 0
              /\ logouts' = IF stored = 0 THEN logouts ELSE logouts \cup {stored}
              /\ inFlight' = [inFlight EXCEPT ![b] = 0]
              /\ call' = [call EXCEPT ![c] = Idle]
              /\ UNCHANGED <<issued, fresh, live, history>>
<1>1. call[c].tab \in Tabs
  BY CallKinds DEF GiveUp, Refreshing, Refreshes
<1> QED
  BY <1>1 DEF GiveUp, LogOut, StoreTokens

-----------------------------------------------------------------------------
(* Every step keeps the shape of the client and of the server, and new     *)
(* pairs come out of refreshes.                                            *)
LEMMA TypeStep ==
    ASSUME TypeOK, GrantsPairs, [Next]_vars PROVE TypeOK' /\ GrantsPairs'
<1> USE SessionClientAssumption
<1>1. Pairs \subseteq 0..MaxPairs /\ 0 \notin Pairs
  BY DEF Pairs
<1>2. ASSUME UNCHANGED call PROVE GrantsPairs'
  BY <1>2 DEF GrantsPairs
<1>3. ASSUME NEW c \in Calls, NEW v \in {Idle} \cup Requests \cup Refreshes,
             call' = [call EXCEPT ![c] = v], v.phase # "granted"
      PROVE  GrantsPairs' /\ call' \in [Calls -> {Idle} \cup Requests \cup Refreshes]
  BY <1>3, Becomes DEF GrantsPairs
<1>4. ASSUME NEW what \in Rough, NEW happens, Mark(what, happens) PROVE rough' \subseteq Rough
  BY <1>4 DEF Mark, TypeOK
<1>5. ASSUME NEW b \in Tabs, Login(b) PROVE TypeOK' /\ GrantsPairs'
  <2>1. rough' \subseteq Rough
    BY <1>5 DEF Login, Mark, TypeOK, Rough
  <2> QED
    BY <1>1, <1>2, <1>5, <2>1 DEF Login, NewPair, StoreTokens, TypeOK
<1>6. ASSUME NEW b \in Tabs, OpenTab(b) PROVE TypeOK' /\ GrantsPairs'
  BY <1>2, <1>6 DEF OpenTab, TypeOK, server, history
<1>7. ASSUME NEW b \in Tabs, LogOut(b)
      PROVE  /\ stored' \in 0..MaxPairs /\ signal' \in [Tabs -> 0..MaxPairs]
             /\ logouts' \subseteq Pairs
  BY <1>1, <1>7 DEF LogOut, StoreTokens, TypeOK, Pairs
<1>8. ASSUME NEW b \in Tabs, UserLogout(b) PROVE TypeOK' /\ GrantsPairs'
  <2>1. rough' \subseteq Rough
    BY <1>8 DEF UserLogout, Mark, TypeOK, Rough
  <2> QED
    BY <1>2, <1>7, <1>8, <2>1 DEF UserLogout, TypeOK
<1>9. ASSUME NEW c \in Calls, NEW b \in Tabs, Send(c, b) PROVE TypeOK' /\ GrantsPairs'
  <2>1. signal[b] \in Pairs
    BY <1>9 DEF Send, TypeOK, Pairs
  <2> DEFINE v == [phase |-> "sent", tab |-> b, bearer |-> signal[b]]
  <2>2. v \in Requests /\ v.phase # "granted" /\ call' = [call EXCEPT ![c] = v]
    BY <1>9, <2>1, NewCalls DEF Send
  <2> HIDE DEF v
  <2>3. GrantsPairs' /\ call' \in [Calls -> {Idle} \cup Requests \cup Refreshes]
    BY <1>3, <2>2
  <2> QED
    BY <1>9, <2>3 DEF Send, TypeOK, client, server, history
<1>10. ASSUME NEW c \in Calls, NEW b \in Tabs, PlanRefresh(c, b) PROVE TypeOK' /\ GrantsPairs'
  <2>1. Ask(b, stored, FALSE) \in Refreshes /\ Ask(b, stored, FALSE).phase # "granted"
    BY NewCalls DEF TypeOK, Ask
  <2>2. rough' \subseteq Rough
    BY <1>10 DEF PlanRefresh, Mark, TypeOK, Rough
  <2> QED
    BY <1>3, <1>10, <2>1, <2>2 DEF PlanRefresh, TypeOK, client, server
<1>11. ASSUME NEW c \in Calls, Subscribe(c) PROVE TypeOK' /\ GrantsPairs'
  <2>1. PICK b \in Tabs, k \in 0..MaxPairs :
            /\ inFlight' = [inFlight EXCEPT ![b] = k]
            /\ call' = [call EXCEPT ![c] = Ask(b, k, TRUE)]
            /\ Mark("overlap", SomeRefresh)
            /\ UNCHANGED <<stored, signal, server, loggedOut>>
    BY <1>11, SubscribeMeans
  <2>2. Ask(b, k, TRUE) \in Refreshes /\ Ask(b, k, TRUE).phase # "granted"
    BY NewCalls DEF Ask
  <2>3. rough' \subseteq Rough
    BY <2>1 DEF Mark, TypeOK, Rough
  <2> QED
    BY <1>3, <2>1, <2>2, <2>3 DEF TypeOK, server
<1>12. ASSUME NEW c \in Calls, call' = [call EXCEPT ![c] = Idle], UNCHANGED <<server, history>>,
              stored' \in 0..MaxPairs, signal' \in [Tabs -> 0..MaxPairs],
              inFlight' \in [Tabs -> 0..MaxPairs]
       PROVE  TypeOK' /\ GrantsPairs'
  <2>1. GrantsPairs' /\ call' \in [Calls -> {Idle} \cup Requests \cup Refreshes]
    BY <1>3, <1>12, IdlePhase
  <2> QED
    BY <1>12, <2>1 DEF TypeOK, server, history
<1>13. ASSUME NEW c \in Calls,
              Answered(c) \/ Rejected(c) \/ RejectedAgain(c) \/ PlanRefreshFailed(c)
       PROVE  TypeOK' /\ GrantsPairs'
  BY <1>12, <1>13
  DEF Answered, Rejected, RejectedAgain, PlanRefreshFailed, client, server, history, TypeOK
<1>14. ASSUME NEW c \in Calls, NEW s \in Refreshing, NEW k, Turns(c, s, k),
              s = "granted" => k \in Pairs
       PROVE  GrantsPairs' /\ call' \in [Calls -> {Idle} \cup Requests \cup Refreshes]
  BY <1>14, TurnsOnly DEF GrantsPairs
<1>15. ASSUME NEW c \in Calls, Find(c) PROVE TypeOK' /\ GrantsPairs'
  <2>1. \E s \in {"found", "refused"} : Turns(c, s, call[c].token)
    BY <1>15, FindMeans
  <2> QED
    BY <1>14, <1>15, <2>1, FindMeans DEF Refreshing, TypeOK, client, server, history
<1>16. ASSUME NEW c \in Calls, Rotate(c) PROVE TypeOK' /\ GrantsPairs'
  BY <1>1, <1>14, <1>16, RotateMeans DEF TypeOK, Refreshing, client, history
<1>17. ASSUME NEW c \in Calls, Lose(c) \/ OutOfPairs(c) PROVE TypeOK' /\ GrantsPairs'
  BY <1>14, <1>17, RefusedMeans DEF TypeOK, Refreshing, Rough, client
<1>18. ASSUME NEW c \in Calls, Granted(c) PROVE TypeOK' /\ GrantsPairs'
  <2>1. PICK b \in Tabs, p \in Pairs :
            /\ stored' = p /\ signal' = [signal EXCEPT ![b] = p]
            /\ \/ /\ inFlight' = [inFlight EXCEPT ![b] = 0]
                  /\ call' = [call EXCEPT ![c] =
                                [phase |-> "retried", tab |-> b, bearer |-> p]]
               \/ call' = [call EXCEPT ![c] = Idle] /\ UNCHANGED inFlight
            /\ UNCHANGED <<server, history>>
    BY <1>18, GrantedMeans
  <2>2. [phase |-> "retried", tab |-> b, bearer |-> p] \in Requests
    BY NewCalls
  <2>3. GrantsPairs' /\ call' \in [Calls -> {Idle} \cup Requests \cup Refreshes]
    BY <1>3, <2>1, <2>2 DEF Idle
  <2> QED
    BY <1>1, <2>1, <2>3 DEF TypeOK, server, history
<1>19. ASSUME NEW c \in Calls, GiveUp(c) PROVE TypeOK' /\ GrantsPairs'
  <2>1. call[c].tab \in Tabs
    BY <1>19, CallKinds DEF GiveUp, Refreshing, Refreshes
  <2>2. GrantsPairs' /\ call' \in [Calls -> {Idle} \cup Requests \cup Refreshes]
    BY <1>3, <1>19, IdlePhase DEF GiveUp
  <2>3. /\ LogOut(call[c].tab)
        /\ inFlight' = [inFlight EXCEPT ![call[c].tab] = 0]
        /\ UNCHANGED <<issued, fresh, live, history>>
    BY <1>19 DEF GiveUp
  <2>4. /\ stored' \in 0..MaxPairs /\ signal' \in [Tabs -> 0..MaxPairs]
        /\ logouts' \subseteq Pairs
    BY <1>7, <2>1, <2>3
  <2>5. inFlight' \in [Tabs -> 0..MaxPairs]
    <3>1. 0 \in 0..MaxPairs
      OBVIOUS
    <3> QED
      BY <2>1, <2>3, <3>1 DEF TypeOK
  <2> QED
    BY <2>2, <2>3, <2>4, <2>5 DEF TypeOK, history
<1>20. ASSUME NEW p \in Pairs, ServerLogout(p) \/ ExpireTokens(p) PROVE TypeOK' /\ GrantsPairs'
  BY <1>2, <1>20 DEF ServerLogout, ExpireTokens, Mark, TypeOK, Rough, client, history
<1>21. CASE UNCHANGED vars
  BY <1>2, <1>21 DEF vars, TypeOK, client, server, history
<1> QED
  BY <1>5, <1>6, <1>8, <1>9, <1>10, <1>11, <1>13, <1>15, <1>16, <1>17, <1>18, <1>19, <1>20,
     <1>21 DEF Next, Progress

-----------------------------------------------------------------------------
(* Whoever stops waiting for a refresh drops refreshInFlight. *)
LEMMA StaleStep ==
    ASSUME TypeOK, GrantsPairs, NoStaleRefresh, [Next]_vars PROVE NoStaleRefresh'
<1> USE SessionClientAssumption
<1>1. ASSUME NEW c \in Calls, \A d \in Calls \ {c} : call'[d] = call[d],
             \A b \in Tabs : inFlight'[b] # 0 => inFlight[b] # 0,
             \A b \in Tabs : /\ inFlight'[b] # 0 /\ call[c].phase \in Refreshing
                             /\ call[c].tab = b /\ call[c].shared
                             => /\ call'[c].phase \in Refreshing
                                /\ call'[c].tab = b /\ call'[c].shared
      PROVE  NoStaleRefresh'
  <2> SUFFICES ASSUME NEW b \in Tabs, inFlight'[b] # 0
               PROVE  \E d \in Calls : /\ call'[d].phase \in Refreshing
                                       /\ call'[d].tab = b /\ call'[d].shared
    BY DEF NoStaleRefresh, Asking
  <2>1. PICK d \in Calls : call[d].phase \in Refreshing /\ call[d].tab = b /\ call[d].shared
    BY <1>1 DEF NoStaleRefresh, Asking
  <2> QED
    BY <1>1, <2>1
<1>2. CASE UNCHANGED <<inFlight, call>>
  BY <1>2 DEF NoStaleRefresh, Asking
<1>3. ASSUME NEW b \in Tabs, OpenTab(b) PROVE NoStaleRefresh'
  <2>1. call' = call /\ \A t \in Tabs : inFlight'[t] # 0 => inFlight[t] # 0
    BY <1>3 DEF OpenTab, TypeOK
  <2> QED
    BY <2>1 DEF NoStaleRefresh, Asking
<1>4. ASSUME NEW c \in Calls, call[c].phase \notin Refreshing, UNCHANGED inFlight,
             NEW v, call' = [call EXCEPT ![c] = v]
      PROVE  NoStaleRefresh'
  <2>1. \A d \in Calls \ {c} : call'[d] = call[d]
    BY <1>4 DEF TypeOK
  <2> QED
    BY <1>1, <1>4, <2>1
<1>5. "idle" \notin Refreshing /\ "sent" \notin Refreshing /\ "retried" \notin Refreshing
  BY DEF Refreshing
<1>6. ASSUME NEW c \in Calls, NEW b \in Tabs, Send(c, b) \/ PlanRefresh(c, b)
      PROVE  NoStaleRefresh'
  BY <1>4, <1>5, <1>6, IdlePhase DEF Send, PlanRefresh, client
<1>7. ASSUME NEW c \in Calls, Answered(c) \/ Rejected(c) PROVE NoStaleRefresh'
  BY <1>4, <1>5, <1>7 DEF Answered, Rejected, client
<1>8. ASSUME NEW c \in Calls, Subscribe(c) PROVE NoStaleRefresh'
  <2>1. PICK b \in Tabs, k \in 0..MaxPairs :
            /\ call[c].phase = "sent"
            /\ inFlight' = [inFlight EXCEPT ![b] = k]
            /\ call' = [call EXCEPT ![c] = Ask(b, k, TRUE)]
    BY <1>8, SubscribeMeans
  <2>2. /\ call'[c].phase \in Refreshing /\ call'[c].tab = b /\ call'[c].shared
        /\ \A d \in Calls \ {c} : call'[d] = call[d]
        /\ \A t \in Tabs \ {b} : inFlight'[t] = inFlight[t]
    BY <2>1 DEF Ask, Refreshing, TypeOK
  <2> SUFFICES ASSUME NEW t \in Tabs, inFlight'[t] # 0
               PROVE  \E d \in Calls : /\ call'[d].phase \in Refreshing
                                       /\ call'[d].tab = t /\ call'[d].shared
    BY DEF NoStaleRefresh, Asking
  <2>3. CASE t = b
    BY <2>2, <2>3
  <2>4. CASE t # b
    <3>1. PICK d \in Calls : call[d].phase \in Refreshing /\ call[d].tab = t /\ call[d].shared
      BY <2>2, <2>4 DEF NoStaleRefresh, Asking
    <3> QED
      BY <1>5, <2>1, <2>2, <3>1
  <2> QED
    BY <2>3, <2>4
<1>9. ASSUME NEW c \in Calls, RejectedAgain(c) PROVE NoStaleRefresh'
  <2>1. /\ call[c].phase = "retried" /\ call' = [call EXCEPT ![c] = Idle]
        /\ inFlight' = [inFlight EXCEPT ![call[c].tab] = 0]
    BY <1>9 DEF RejectedAgain
  <2>2. /\ \A d \in Calls \ {c} : call'[d] = call[d]
        /\ \A b \in Tabs : inFlight'[b] # 0 => inFlight[b] # 0
    BY <2>1 DEF TypeOK
  <2> QED
    BY <1>1, <1>5, <2>1, <2>2
<1>10. ASSUME NEW c \in Calls, NEW s \in Refreshing, NEW k, Turns(c, s, k), UNCHANGED inFlight
       PROVE  NoStaleRefresh'
  BY <1>1, <1>10, TurnsOnly
<1>11. ASSUME NEW c \in Calls, Find(c) \/ Rotate(c) \/ Lose(c) \/ OutOfPairs(c)
       PROVE  NoStaleRefresh'
  <2>1. UNCHANGED inFlight /\ \E s \in Refreshing : \E k \in 0..MaxPairs : Turns(c, s, k)
    BY <1>11, FindMeans, RotateMeans, RefusedMeans DEF Turns, client
  <2> QED
    BY <1>10, <2>1
<1>12. ASSUME NEW c \in Calls, Granted(c) PROVE NoStaleRefresh'
  <2>1. PICK b \in Tabs, p \in Pairs :
            /\ call[c].tab = b
            /\ \/ /\ call[c].shared
                  /\ inFlight' = [inFlight EXCEPT ![b] = 0]
                  /\ call' = [call EXCEPT ![c] =
                                [phase |-> "retried", tab |-> b, bearer |-> p]]
               \/ /\ ~call[c].shared
                  /\ call' = [call EXCEPT ![c] = Idle]
                  /\ UNCHANGED inFlight
    BY <1>12, GrantedMeans
  <2>2. /\ \A d \in Calls \ {c} : call'[d] = call[d]
        /\ \A t \in Tabs : inFlight'[t] # 0 => inFlight[t] # 0
        /\ call[c].shared => inFlight'[b] = 0
    BY <2>1 DEF TypeOK
  <2> QED
    BY <1>1, <2>1, <2>2
<1>13. ASSUME NEW c \in Calls, GiveUp(c) PROVE NoStaleRefresh'
  <2>1. PICK b \in Tabs :
            /\ call[c].tab = b /\ call' = [call EXCEPT ![c] = Idle]
            /\ inFlight' = [inFlight EXCEPT ![b] = 0]
    BY <1>13, GiveUpMeans
  <2>2. /\ \A d \in Calls \ {c} : call'[d] = call[d]
        /\ \A t \in Tabs : inFlight'[t] # 0 => inFlight[t] # 0
        /\ inFlight'[b] = 0
    BY <2>1 DEF TypeOK
  <2> QED
    BY <1>1, <2>1, <2>2
<1>14. ASSUME NEW c \in Calls, PlanRefreshFailed(c) PROVE NoStaleRefresh'
  <2>1. /\ ~call[c].shared /\ UNCHANGED inFlight
        /\ \A d \in Calls \ {c} : call'[d] = call[d]
    BY <1>14 DEF PlanRefreshFailed, TypeOK, client
  <2> QED
    BY <1>1, <2>1
<1> QED
  BY <1>2, <1>3, <1>6, <1>7, <1>8, <1>9, <1>11, <1>12, <1>13, <1>14
  DEF Next, Progress, Login, UserLogout, ServerLogout, ExpireTokens, vars, client

-----------------------------------------------------------------------------
(* What has happened has happened. *)
LEMMA HistoryGrows ==
    ASSUME [Next]_vars PROVE rough \subseteq rough'
BY DEF Next, Progress, Login, OpenTab, UserLogout, Send, PlanRefresh, Answered, Rejected,
   Subscribe, RejectedAgain, Find, Rotate, OutOfPairs, Granted, GiveUp, PlanRefreshFailed,
   Lose, ServerLogout, ExpireTokens, Mark, vars, history

(* A call that comes to be out of the refreshes, and the others as before. *)
LEMMA Leaves ==
    ASSUME TypeOK, NEW c \in Calls,
           \/ \E b \in Tabs : Send(c, b)
           \/ Answered(c) \/ Rejected(c) \/ RejectedAgain(c) \/ PlanRefreshFailed(c)
    PROVE  /\ call'[c].phase \notin Refreshing
           /\ call[c].phase \notin Refreshing \/ call[c].phase = "refused"
           /\ \A d \in Calls \ {c} : call'[d] = call[d]
           /\ UNCHANGED <<stored, server, history>>
<1>1. "idle" \notin Refreshing /\ "sent" \notin Refreshing /\ "retried" \notin Refreshing
  BY DEF Refreshing
<1>2. CASE \E b \in Tabs : Send(c, b)
  BY <1>1, <1>2, IdlePhase DEF Send, client, TypeOK
<1>3. CASE Answered(c) \/ Rejected(c) \/ RejectedAgain(c) \/ PlanRefreshFailed(c)
  BY <1>1, <1>3, IdlePhase
  DEF Answered, Rejected, RejectedAgain, PlanRefreshFailed, client, TypeOK
<1> QED
  BY <1>2, <1>3

(* A logout stays a logout: other tabs ask without a token. *)
LEMMA LoggedOutStep ==
    ASSUME TypeOK, GrantsPairs, LoggedOutForGood, [Next]_vars PROVE LoggedOutForGood'
<1> SUFFICES ASSUME loggedOut', "hasty" \notin rough'
             PROVE  /\ stored' = 0
                    /\ \A c \in Calls : call'[c].phase \in Refreshing =>
                          call'[c].token = 0 /\ call'[c].phase \in {"asked", "refused"}
  BY DEF LoggedOutForGood
<1>1. "hasty" \notin rough
  BY HistoryGrows
<1>2. "idle" \notin Refreshing
  BY DEF Refreshing
<1>3. ASSUME NEW b \in Tabs, Login(b) PROVE FALSE
  BY <1>3 DEF Login
<1>4. CASE \E b \in Tabs : UserLogout(b)
  <2>1. stored' = 0 /\ call' = call /\ Quiet
    BY <1>4 DEF UserLogout, LogOut, StoreTokens, Mark
  <2> QED
    BY <1>2, <2>1, IdlePhase DEF Quiet
<1>5. CASE ~\E b \in Tabs : UserLogout(b)
  <2>1. loggedOut
    BY <1>3, <1>5 DEF Next, Progress, OpenTab, Send, PlanRefresh, Answered, Rejected,
       Subscribe, RejectedAgain, Find, Rotate, OutOfPairs, Granted, GiveUp,
       PlanRefreshFailed, Lose, ServerLogout, ExpireTokens, vars, history
  <2>2. /\ stored = 0
        /\ \A c \in Calls : call[c].phase \in Refreshing =>
              call[c].token = 0 /\ call[c].phase \in {"asked", "refused"}
    BY <1>1, <2>1 DEF LoggedOutForGood
  <2>3. CASE UNCHANGED <<stored, call>>
    BY <2>2, <2>3
  <2>4. ASSUME NEW c \in Calls, stored' = 0, \A d \in Calls \ {c} : call'[d] = call[d],
               call'[c].phase \in Refreshing =>
                  call'[c].token = 0 /\ call'[c].phase \in {"asked", "refused"}
        PROVE  /\ stored' = 0
               /\ \A d \in Calls : call'[d].phase \in Refreshing =>
                     call'[d].token = 0 /\ call'[d].phase \in {"asked", "refused"}
    BY <2>2, <2>4
  <2>5. ASSUME NEW c \in Calls,
               \/ \E b \in Tabs : Send(c, b)
               \/ Answered(c) \/ Rejected(c) \/ RejectedAgain(c) \/ PlanRefreshFailed(c)
        PROVE  stored' = 0 /\ call'[c].phase \notin Refreshing
               /\ \A d \in Calls \ {c} : call'[d] = call[d]
    BY <2>2, <2>5, Leaves
  <2>6. ASSUME NEW c \in Calls, NEW b \in Tabs, PlanRefresh(c, b)
        PROVE  /\ stored' = 0 /\ \A d \in Calls \ {c} : call'[d] = call[d]
               /\ call'[c].token = 0 /\ call'[c].phase = "asked"
    BY <2>2, <2>6 DEF PlanRefresh, Ask, TypeOK, client
  <2>7. ASSUME NEW c \in Calls, Subscribe(c) PROVE FALSE
    BY <2>2, <2>7 DEF Subscribe
  <2>8. ASSUME NEW c \in Calls, Find(c) \/ Lose(c) \/ Rotate(c) \/ OutOfPairs(c)
        PROVE  /\ stored' = 0 /\ \A d \in Calls \ {c} : call'[d] = call[d]
               /\ call'[c].token = 0 /\ call'[c].phase = "refused"
    <3>1. call[c].phase \in Refreshing
      BY <2>8 DEF Find, Lose, Rotate, OutOfPairs, Refreshing
    <3>2. call[c].token = 0 /\ call[c].phase \in {"asked", "refused"}
      BY <2>2, <3>1
    <3>3. 0 \notin live
      BY DEF TypeOK, Pairs
    <3>4. Turns(c, "refused", 0) /\ stored' = 0
      BY <2>2, <2>8, <3>2, <3>3, FindMeans, RefusedMeans DEF Rotate, OutOfPairs, client
    <3> QED
      BY <3>4, TurnsOnly
  <2>9. ASSUME NEW c \in Calls, Granted(c) PROVE FALSE
    BY <2>2, <2>9 DEF Granted, Refreshing
  <2>10. ASSUME NEW c \in Calls, GiveUp(c)
         PROVE  /\ stored' = 0 /\ \A d \in Calls \ {c} : call'[d] = call[d]
                /\ call'[c].phase \notin Refreshing
    BY <1>2, <2>10, GiveUpMeans, IdlePhase DEF TypeOK
  <2> QED
    BY <1>3, <1>5, <2>3, <2>4, <2>5, <2>6, <2>7, <2>8, <2>9, <2>10
    DEF Next, Progress, OpenTab, ServerLogout, ExpireTokens, vars, client
<1> QED
  BY <1>4, <1>5

(* As long as nothing is rough, refreshes come one at a time with what is  *)
(* stored, and the backend knows no token that the client does not.        *)
LEMMA OrderlyStep ==
    ASSUME TypeOK, GrantsPairs, NoStaleRefresh, Orderly, [Next]_vars PROVE Orderly'
<1> SUFFICES ASSUME rough' = {} PROVE OneAtATime' /\ UsesStored' /\ LiveKnown'
  BY DEF Orderly
<1>1. rough = {} /\ OneAtATime /\ UsesStored /\ LiveKnown
  BY HistoryGrows DEF Orderly
<1>2. /\ "idle" \notin Refreshing /\ "sent" \notin Refreshing /\ "retried" \notin Refreshing
      /\ {"asked", "found", "refused", "granted"} = Refreshing
  BY DEF Refreshing
<1>3. 0 \notin live /\ 0 \notin Pairs /\ live \subseteq Pairs
  BY DEF TypeOK, Pairs
<1>4. CASE UNCHANGED <<stored, call, logouts>> /\ live' \subseteq live
  BY <1>1, <1>4 DEF OneAtATime, UsesStored, LiveKnown
<1>5. ASSUME NEW b \in Tabs, Login(b) PROVE OneAtATime' /\ UsesStored' /\ LiveKnown'
  <2>1. PICK p \in Pairs : stored' = p /\ live' = live \cup {p} /\ UNCHANGED <<call, logouts>>
    BY <1>5 DEF Login, StoreTokens
  <2>2. Quiet /\ stored = 0
    BY <1>5 DEF Login, Mark
  <2>3. \A c \in Calls : call'[c].phase \notin Refreshing /\ call[c].phase \notin Refreshing
    BY <1>2, <2>1, <2>2, IdlePhase DEF Quiet
  <2> QED
    BY <1>1, <1>2, <1>3, <2>1, <2>2, <2>3 DEF OneAtATime, UsesStored, LiveKnown
<1>6. ASSUME NEW b \in Tabs, UserLogout(b) PROVE OneAtATime' /\ UsesStored' /\ LiveKnown'
  <2>1. /\ Quiet /\ stored' = 0 /\ UNCHANGED <<call, live>>
        /\ logouts' = IF stored = 0 THEN logouts ELSE logouts \cup {stored}
    BY <1>6 DEF UserLogout, LogOut, StoreTokens, Mark
  <2>2. \A c \in Calls : call'[c].phase \notin Refreshing /\ call[c].phase \notin Refreshing
    BY <1>2, <2>1, IdlePhase DEF Quiet
  <2> QED
    BY <1>1, <1>2, <1>3, <2>1, <2>2 DEF OneAtATime, UsesStored, LiveKnown
<1>7. ASSUME NEW c \in Calls,
             \/ \E b \in Tabs : Send(c, b)
             \/ Answered(c) \/ Rejected(c) \/ RejectedAgain(c) \/ PlanRefreshFailed(c)
      PROVE  OneAtATime' /\ UsesStored' /\ LiveKnown'
  <2>1. /\ call'[c].phase \notin Refreshing /\ call[c].phase # "granted"
        /\ \A d \in Calls \ {c} : call'[d] = call[d]
        /\ UNCHANGED <<stored, live, logouts>>
    BY <1>2, <1>7, Leaves DEF server
  <2> QED
    BY <1>1, <1>2, <2>1 DEF OneAtATime, UsesStored, LiveKnown
<1>8. ASSUME NEW c \in Calls, call'[c].phase = "asked", call'[c].token = stored, ~SomeRefresh,
             \A d \in Calls \ {c} : call'[d] = call[d], UNCHANGED <<stored, live, logouts>>
      PROVE  OneAtATime' /\ UsesStored' /\ LiveKnown'
  <2>1. \A d \in Calls : call[d].phase \notin Refreshing
    BY <1>8 DEF SomeRefresh
  <2> QED
    BY <1>1, <1>2, <1>8, <2>1 DEF OneAtATime, UsesStored, LiveKnown
<1>9. ASSUME NEW c \in Calls, NEW b \in Tabs, PlanRefresh(c, b)
      PROVE  OneAtATime' /\ UsesStored' /\ LiveKnown'
  <2>1. /\ call'[c].phase = "asked" /\ call'[c].token = stored /\ ~SomeRefresh
        /\ \A d \in Calls \ {c} : call'[d] = call[d]
        /\ UNCHANGED <<stored, live, logouts>>
    BY <1>9 DEF PlanRefresh, Ask, Mark, TypeOK, client, server
  <2> QED
    BY <1>8, <2>1
<1>10. ASSUME NEW c \in Calls, Subscribe(c) PROVE OneAtATime' /\ UsesStored' /\ LiveKnown'
  <2>1. PICK b \in Tabs, k \in 0..MaxPairs :
            /\ k = IF inFlight[b] = 0 THEN stored ELSE inFlight[b]
            /\ call' = [call EXCEPT ![c] = Ask(b, k, TRUE)]
            /\ Mark("overlap", SomeRefresh)
            /\ UNCHANGED <<stored, server>>
    BY <1>10, SubscribeMeans
  <2>2. ~SomeRefresh
    BY <2>1 DEF Mark
  <2>3. inFlight[b] = 0
    BY <2>2 DEF NoStaleRefresh, Asking, SomeRefresh
  <2>4. /\ call'[c].phase = "asked" /\ call'[c].token = stored
        /\ \A d \in Calls \ {c} : call'[d] = call[d]
        /\ UNCHANGED <<stored, live, logouts>>
    BY <2>1, <2>3 DEF Ask, TypeOK, server
  <2> QED
    BY <1>8, <2>2, <2>4
<1>11. ASSUME NEW c \in Calls, Find(c) PROVE OneAtATime' /\ UsesStored' /\ LiveKnown'
  <2>1. PICK s \in {"found", "refused"} :
            /\ Turns(c, s, call[c].token)
            /\ s = "refused" => call[c].token \notin live
            /\ call[c].phase = "asked" /\ UNCHANGED <<stored, live, logouts>>
    BY <1>11, FindMeans DEF client, server
  <2>2. /\ call'[c].phase = s /\ call'[c].token = call[c].token
        /\ \A d \in Calls \ {c} : call'[d] = call[d]
    BY <2>1, TurnsOnly
  <2> QED
    BY <1>1, <1>2, <2>1, <2>2 DEF OneAtATime, UsesStored, LiveKnown
<1>12. ASSUME NEW c \in Calls, Rotate(c) PROVE OneAtATime' /\ UsesStored' /\ LiveKnown'
  <2>1. /\ call[c].phase = "found" /\ Turns(c, "granted", issued')
        /\ live' = (live \ {call[c].token}) \cup {issued'}
        /\ UNCHANGED <<stored, logouts>>
    BY <1>12, RotateMeans DEF client
  <2>2. /\ call'[c].phase = "granted" /\ call'[c].token = issued'
        /\ \A d \in Calls \ {c} : call'[d] = call[d]
    BY <2>1, TurnsOnly
  <2>3. /\ call[c].token = stored
        /\ \A d \in Calls \ {c} : call[d].phase \notin Refreshing
    BY <1>1, <1>2, <2>1 DEF OneAtATime, UsesStored
  <2> QED
    BY <1>1, <1>2, <2>1, <2>2, <2>3 DEF OneAtATime, UsesStored, LiveKnown
<1>13. ASSUME NEW c \in Calls, Lose(c) \/ OutOfPairs(c)
       PROVE  OneAtATime' /\ UsesStored' /\ LiveKnown'
  <2>1. /\ call[c].phase = "found" /\ Turns(c, "refused", call[c].token)
        /\ live' = live \ {call[c].token} /\ UNCHANGED <<stored, logouts>>
    BY <1>13, RefusedMeans DEF client
  <2>2. /\ call'[c].phase = "refused" /\ call'[c].token = call[c].token
        /\ \A d \in Calls \ {c} : call'[d] = call[d]
    BY <2>1, TurnsOnly
  <2> QED
    BY <1>1, <1>2, <2>1, <2>2 DEF OneAtATime, UsesStored, LiveKnown
<1>14. ASSUME NEW c \in Calls, call[c].phase \in Refreshing, call'[c].phase \notin Refreshing,
              \A d \in Calls \ {c} : call'[d] = call[d], live' = live,
              \A k \in live : k = stored' \/ k \in logouts'
       PROVE  OneAtATime' /\ UsesStored' /\ LiveKnown'
  <2>1. \A d \in Calls : call'[d].phase \notin Refreshing
    BY <1>1, <1>14 DEF OneAtATime
  <2> QED
    BY <1>2, <1>14, <2>1 DEF OneAtATime, UsesStored, LiveKnown
<1>15. ASSUME NEW c \in Calls, Granted(c) PROVE OneAtATime' /\ UsesStored' /\ LiveKnown'
  <2>1. PICK b \in Tabs, p \in Pairs :
            /\ call[c].phase = "granted" /\ call[c].token = p /\ stored' = p
            /\ \/ call' = [call EXCEPT ![c] =
                             [phase |-> "retried", tab |-> b, bearer |-> p]]
               \/ call' = [call EXCEPT ![c] = Idle]
            /\ UNCHANGED server
    BY <1>15, GrantedMeans
  <2>2. /\ call'[c].phase \notin Refreshing
        /\ \A d \in Calls \ {c} : call'[d] = call[d]
    BY <1>2, <2>1, IdlePhase DEF TypeOK
  <2> QED
    BY <1>1, <1>2, <1>14, <2>1, <2>2 DEF OneAtATime, LiveKnown, server
<1>16. ASSUME NEW c \in Calls, GiveUp(c) PROVE OneAtATime' /\ UsesStored' /\ LiveKnown'
  <2>1. /\ call[c].phase = "refused" /\ stored' = 0 /\ call' = [call EXCEPT ![c] = Idle]
        /\ logouts' = IF stored = 0 THEN logouts ELSE logouts \cup {stored}
        /\ UNCHANGED live
    BY <1>16, GiveUpMeans
  <2>2. /\ call'[c].phase \notin Refreshing
        /\ \A d \in Calls \ {c} : call'[d] = call[d]
    BY <1>2, <2>1, IdlePhase DEF TypeOK
  <2>3. \A d \in Calls : call[d].phase # "granted"
    BY <1>1, <1>2, <2>1 DEF OneAtATime
  <2> QED
    BY <1>1, <1>2, <1>3, <1>14, <2>1, <2>2, <2>3 DEF LiveKnown
<1>17. ASSUME NEW p \in Pairs, ServerLogout(p) PROVE OneAtATime' /\ UsesStored' /\ LiveKnown'
  <2>1. /\ live' = live \ {p} /\ logouts' = logouts \ {p} /\ UNCHANGED <<stored, call>>
    BY <1>17 DEF ServerLogout, Mark, client
  <2> QED
    BY <1>1, <2>1 DEF OneAtATime, UsesStored, LiveKnown
<1>18. CASE UNCHANGED vars \/ (\E b \in Tabs : OpenTab(b)) \/ \E p \in Pairs : ExpireTokens(p)
  BY <1>4, <1>18 DEF OpenTab, ExpireTokens, vars, client, server
<1> QED
  BY <1>5, <1>6, <1>7, <1>9, <1>10, <1>11, <1>12, <1>13, <1>15, <1>16, <1>17, <1>18
  DEF Next, Progress

-----------------------------------------------------------------------------
(* The invariant of everything below. *)
LEMMA ClientInvariant == Spec => []ClientInv
<1>1. Init => ClientInv
  <2> SUFFICES ASSUME Init PROVE ClientInv
    OBVIOUS
  <2>1. TypeOK
    <3>1. 0 \in 0..MaxPairs
      BY SessionClientAssumption
    <3> QED
      BY <3>1 DEF Init, TypeOK
  <2>2. \A c \in Calls : call[c].phase \notin Refreshing
    BY IdlePhase DEF Init, Refreshing
  <2>3. GrantsPairs
    BY <2>2 DEF GrantsPairs, Refreshing
  <2>4. NoStaleRefresh /\ LoggedOutForGood
    BY DEF Init, NoStaleRefresh, LoggedOutForGood
  <2>5. OneAtATime /\ UsesStored /\ LiveKnown
    BY <2>2 DEF Init, OneAtATime, UsesStored, LiveKnown, Refreshing
  <2> QED
    BY <2>1, <2>3, <2>4, <2>5 DEF ClientInv, Orderly
<1>2. ClientInv /\ [Next]_vars => ClientInv'
  BY TypeStep, StaleStep, LoggedOutStep, OrderlyStep DEF ClientInv
<1> QED
  BY <1>1, <1>2, PTL DEF Spec

(* Type correctness: tokens are pairs that can be issued, and a call is    *)
(* idle, sent or a refresh.                                                *)
THEOREM TypeCorrect == Spec => []TypeOK
BY ClientInvariant, PTL DEF ClientInv

(* What the interceptor keeps in refreshInFlight has someone waiting for   *)
(* it.                                                                     *)
THEOREM NothingReplayed == Spec => []NoStaleRefresh
BY ClientInvariant, PTL DEF ClientInv

(* After a logout with nothing on its way, no token comes back before the  *)
(* next login, whatever other tabs still send.                             *)
THEOREM LogoutStays == Spec => []StaysLoggedOut
<1>1. ClientInv => StaysLoggedOut
  BY DEF ClientInv, LoggedOutForGood, StaysLoggedOut
<1> QED
  BY <1>1, ClientInvariant, PTL

(* A logout whose requests have all arrived leaves the backend no refresh  *)
(* token to exchange, on an easy day.                                      *)
THEOREM LogoutIsComplete == Spec => []LogoutLeavesNothing
<1>1. ClientInv => LogoutLeavesNothing
  <2> SUFFICES ASSUME ClientInv, loggedOut, logouts = {}, Quiet, rough = {}
               PROVE  live = {}
    BY DEF LogoutLeavesNothing
  <2>1. stored = 0 /\ LiveKnown /\ 0 \notin live
    BY DEF ClientInv, LoggedOutForGood, Orderly, TypeOK, Pairs
  <2>2. \A c \in Calls : call[c].phase # "granted"
    BY IdlePhase DEF Quiet
  <2> QED
    BY <2>1, <2>2 DEF LiveKnown
<1> QED
  BY <1>1, ClientInvariant, PTL

(* The client drops a session on its own only when the backend would not   *)
(* have continued it, on an easy day.                                      *)
THEOREM OnlyDeadSessionsDropped == Spec => GivesUpDeadOnly
<1>1. ClientInv /\ [Next]_vars =>
        [stored # 0 /\ stored' = 0 /\ ~loggedOut' /\ rough = {} => stored \notin live]_vars
  <2> SUFFICES ASSUME ClientInv, [Next]_vars, stored # 0, stored' = 0, ~loggedOut', rough = {}
               PROVE  stored \notin live
    OBVIOUS
  <2> USE DEF ClientInv
  <2>1. 0 \notin Pairs /\ UsesStored
    BY DEF Pairs, Orderly
  <2>2. ASSUME NEW c \in Calls, GiveUp(c) PROVE stored \notin live
    BY <2>1, <2>2 DEF GiveUp, UsesStored
  <2>3. ASSUME NEW c \in Calls, Granted(c) PROVE FALSE
    BY <2>1, <2>3, GrantedMeans
  <2>4. ASSUME NEW b \in Tabs, Login(b) \/ UserLogout(b) PROVE FALSE
    BY <2>1, <2>4 DEF Login, UserLogout, StoreTokens
  <2> QED
    BY <2>2, <2>3, <2>4
    DEF Next, Progress, OpenTab, Send, PlanRefresh, Answered, Rejected, Subscribe,
        RejectedAgain, Find, Rotate, OutOfPairs, PlanRefreshFailed, Lose, ServerLogout,
        ExpireTokens, vars, client
<1> QED
  BY <1>1, ClientInvariant, PTL DEF Spec, GivesUpDeadOnly
=============================================================================
