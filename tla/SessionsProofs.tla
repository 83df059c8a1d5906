---------------------------- MODULE SessionsProofs ----------------------------
(***************************************************************************)
(* What Sessions promises for any number of tokens and of requests in      *)
(* flight: of every session whose client shows a token to one request at a *)
(* time, a token is exchanged at most once and a logout ends it for good;  *)
(* and the statements of all requests together implement SessionChain.     *)
(* Nothing in the tables enforces the condition: SessionsExchange.cfg      *)
(* shows what two requests do together.                                    *)
(***************************************************************************)
EXTENDS Sessions, FiniteSetTheorems, TLAPS

(* Type correctness: every statement keeps the shape of the tables and of  *)
(* the requests.                                                           *)
THEOREM TypeCorrect == Spec => []TypeOK
<1>1. Init => TypeOK
  BY SessionsAssumption DEF Init, TypeOK, Phases
<1>2. TypeOK /\ [Next]_vars => TypeOK'
  <2> SUFFICES ASSUME TypeOK, [Next]_vars PROVE TypeOK'
    OBVIOUS
  <2> USE SessionsAssumption DEF TypeOK, Phases
  <2>1. ASSUME NEW r \in Requests, NEW u \in Users, LoginLookup(r, u)
        PROVE  TypeOK'
    BY <2>1 DEF LoginLookup
  <2>2. ASSUME NEW r \in Requests, NEW t \in Tokens, RefreshCall(r, t)
        PROVE  TypeOK'
    BY <2>2 DEF RefreshCall, Shown
  <2>3. ASSUME NEW r \in Requests, NEW t \in Tokens, Issue(r, t)
        PROVE  TypeOK'
    BY <2>3 DEF Issue, End
  <2>4. ASSUME NEW r \in Requests, Compare(r) PROVE TypeOK'
    BY <2>4 DEF Compare, End
  <2>5. ASSUME NEW r \in Requests, LoginAudit(r) PROVE TypeOK'
    BY <2>5 DEF LoginAudit
  <2>6. ASSUME NEW r \in Requests, ConsumeFind(r) PROVE TypeOK'
    BY <2>6 DEF ConsumeFind, End
  <2>7. ASSUME NEW r \in Requests, ConsumeRotate(r) PROVE TypeOK'
    BY <2>7 DEF ConsumeRotate
  <2>8. ASSUME NEW r \in Requests, Crash(r) PROVE TypeOK'
    BY <2>8 DEF Crash, End
  <2>9. ASSUME NEW t \in Tokens, Logout(t) PROVE TypeOK'
    BY <2>9 DEF Logout, Shown, calls
  <2>10. ASSUME NEW t \in Tokens, Expire(t) PROVE TypeOK'
    BY <2>10 DEF Expire, calls
  <2>11. CASE UNCHANGED vars
    BY <2>11 DEF vars, calls
  <2> QED
    BY <2>1, <2>2, <2>3, <2>4, <2>5, <2>6, <2>7, <2>8, <2>9, <2>10, <2>11
       DEF Next
<1> QED
  BY <1>1, <1>2, PTL DEF Spec
-----------------------------------------------------------------------------
(* A row that could still be exchanged, or that has expired before. *)
Unspent(t) == state[t] \in {"live", "expired"}

(* The refreshes that have consumed a token and not issued the next. *)
Heir(r) == pc[r] = "issue" /\ token[r] # None

(* Every issued token descends from a login's token, in one step of root.  *)
RootsIssued ==
    /\ \A t \in Tokens : /\ root[t] # None <=> state[t] # "unissued"
                         /\ root[t] # None => root[root[t]] = root[t]
    /\ \A f \in over \cup raced : root[f] = f

(* Only refreshes carry a token. *)
LoginsCarryNone ==
    \A r \in Requests : pc[r] \in {"idle", "compare", "audit"} => token[r] = None

(* Without a race, a usable token is in the hands of one request. *)
InOneHand ==
    \A r, s \in Requests :
        /\ token[r] # None /\ token[r] = token[s]
        /\ root[token[r]] \notin raced /\ Usable(token[r])
        => r = s

(* Unspent tokens were never exchanged, nor was one about to be consumed,  *)
(* and a consumed one is revoked.                                          *)
SpentOnce ==
    /\ \A t \in Tokens : state[t] = "unissued" => exchanges[t] = 0
    /\ \A t \in Tokens :
          root[t] \notin raced => /\ exchanges[t] <= 1
                                 /\ (Unspent(t) => exchanges[t] = 0)
    /\ \A r \in Requests :
          /\ pc[r] = "rotate" /\ root[token[r]] \notin raced => Unspent(token[r])
          /\ Heir(r) => state[token[r]] = "revoked"

(* Of one session, at most one token is unspent or about to be issued. *)
OneTip ==
    /\ \A t, u \in Tokens :
          Unspent(t) /\ Unspent(u) /\ root[t] = root[u] /\ root[t] \notin raced
          => t = u
    /\ \A r, s \in Requests :
          /\ Heir(r) /\ Heir(s) /\ root[token[r]] = root[token[s]]
          /\ root[token[r]] \notin raced
          => r = s
    /\ \A r \in Requests, t \in Tokens :
          Heir(r) /\ Unspent(t) /\ root[token[r]] = root[t] => root[t] \in raced

(* A logged-out session has neither. *)
OverIsOver ==
    \A f \in over \ raced :
        /\ \A t \in Tokens : Unspent(t) => root[t] # f
        /\ \A r \in Requests : Heir(r) => root[token[r]] # f

ChainInv == /\ TypeOK
            /\ RootsIssued
            /\ LoginsCarryNone
            /\ InOneHand
            /\ SpentOnce
            /\ OneTip
            /\ OverIsOver

(* A request that ends without touching the tables disturbs nothing. *)
LEMMA EndKeeps ==
    ASSUME ChainInv, TypeOK', NEW r \in Requests, End(r),
           UNCHANGED <<owner, state, root, exchanges, over, raced>>
    PROVE  ChainInv'
<1> USE SessionsAssumption
    DEF ChainInv, TypeOK, RootsIssued, LoginsCarryNone, InOneHand, SpentOnce,
        OneTip, OverIsOver, Unspent, Heir, Usable, Phases
<1>1. \A s \in Requests : s # r => pc'[s] = pc[s] /\ token'[s] = token[s]
  BY DEF End
<1>2. pc'[r] = "idle" /\ token'[r] = None
  BY DEF End
<1>3. RootsIssued' /\ LoginsCarryNone'
  BY <1>1, <1>2
<1>4. InOneHand'
  <2>1. \A t \in Tokens : Usable(t)' => Usable(t)
    BY <1>1, <1>2
  <2> QED
    BY <1>1, <1>2, <2>1 DEF InOneHand
<1>5. SpentOnce'
  BY <1>1, <1>2
<1>6. OneTip'
  <2>1. \A s \in Requests : Heir(s)' => s # r /\ Heir(s) /\ token'[s] = token[s]
    BY <1>1, <1>2
  <2> QED
    BY <2>1
<1>7. OverIsOver'
  <2>1. \A s \in Requests : Heir(s)' => s # r /\ Heir(s) /\ token'[s] = token[s]
    BY <1>1, <1>2
  <2> QED
    BY <2>1
<1> QED
  BY <1>3, <1>4, <1>5, <1>6, <1>7

(* Every step of every request keeps the invariant. *)
LEMMA ChainStep ==
    ASSUME ChainInv, [Next]_vars, TypeOK'
    PROVE  ChainInv'
<1> USE SessionsAssumption
    DEF ChainInv, TypeOK, RootsIssued, LoginsCarryNone, InOneHand, SpentOnce,
        OneTip, OverIsOver, Unspent, Heir, Usable, Phases
<1>1. ASSUME NEW r \in Requests, NEW u \in Users, LoginLookup(r, u)
      PROVE  ChainInv'
  BY <1>1 DEF LoginLookup
<1>2. ASSUME NEW r \in Requests, NEW t \in Tokens, RefreshCall(r, t)
      PROVE  ChainInv'
  <2>1. RootsIssued' /\ LoginsCarryNone'
    BY <1>2 DEF RefreshCall, Shown
  <2>2. InOneHand'
    BY <1>2 DEF RefreshCall, Shown
  <2>3. SpentOnce'
    BY <1>2 DEF RefreshCall, Shown
  <2>4. OneTip'
    BY <1>2 DEF RefreshCall, Shown
  <2>5. OverIsOver'
    BY <1>2 DEF RefreshCall, Shown
  <2> QED
    BY <2>1, <2>2, <2>3, <2>4, <2>5
<1>3. ASSUME NEW r \in Requests, NEW t \in Tokens, Issue(r, t)
      PROVE  ChainInv'
  <2>0. t # None /\ root[t] = None /\ \A s \in Requests : token[s] # t
    BY <1>3 DEF Issue
  <2>1. RootsIssued' /\ LoginsCarryNone'
    <3>1. CASE token[r] = None
      BY <1>3, <2>0, <3>1 DEF Issue, End
    <3>2. CASE token[r] # None
      BY <1>3, <2>0, <3>2 DEF Issue, End
    <3> QED
      BY <3>1, <3>2
  <2>2. InOneHand'
    BY <1>3, <2>0 DEF Issue, End
  <2>3. SpentOnce'
    BY <1>3, <2>0 DEF Issue, End
  <2>4. OneTip'
    <3>1. CASE token[r] = None
      BY <1>3, <2>0, <3>1 DEF Issue, End
    <3>2. CASE token[r] # None
      BY <1>3, <2>0, <3>2 DEF Issue, End
    <3> QED
      BY <3>1, <3>2
  <2>5. OverIsOver'
    <3>1. CASE token[r] = None
      BY <1>3, <2>0, <3>1 DEF Issue, End
    <3>2. CASE token[r] # None
      BY <1>3, <2>0, <3>2 DEF Issue, End
    <3> QED
      BY <3>1, <3>2
  <2> QED
    BY <2>1, <2>2, <2>3, <2>4, <2>5
<1>4. ASSUME NEW r \in Requests, Compare(r) PROVE ChainInv'
  <2>1. CASE End(r)
    BY <1>4, <2>1, EndKeeps DEF Compare
  <2>2. CASE pc' = [pc EXCEPT ![r] = "audit"] /\ UNCHANGED <<token, user>>
    BY <1>4, <2>2 DEF Compare
  <2> QED
    BY <1>4, <2>1, <2>2 DEF Compare
<1>5. ASSUME NEW r \in Requests, LoginAudit(r) PROVE ChainInv'
  BY <1>5 DEF LoginAudit
<1>6. ASSUME NEW r \in Requests, ConsumeFind(r) PROVE ChainInv'
  <2>1. CASE state[token[r]] = "live"
    BY <1>6, <2>1 DEF ConsumeFind
  <2>2. CASE state[token[r]] # "live"
    BY <1>6, <2>2, EndKeeps DEF ConsumeFind
  <2> QED
    BY <2>1, <2>2
<1>7. ASSUME NEW r \in Requests, ConsumeRotate(r) PROVE ChainInv'
  <2>1. RootsIssued' /\ LoginsCarryNone'
    BY <1>7 DEF ConsumeRotate
  <2>2. InOneHand'
    BY <1>7 DEF ConsumeRotate
  <2>3. SpentOnce'
    BY <1>7 DEF ConsumeRotate
  <2>4. OneTip'
    BY <1>7 DEF ConsumeRotate
  <2>5. OverIsOver'
    BY <1>7 DEF ConsumeRotate
  <2> QED
    BY <2>1, <2>2, <2>3, <2>4, <2>5
<1>8. ASSUME NEW r \in Requests, Crash(r) PROVE ChainInv'
  BY <1>8, EndKeeps DEF Crash
<1>9. ASSUME NEW t \in Tokens, Logout(t) PROVE ChainInv'
  <2>1. RootsIssued' /\ LoginsCarryNone'
    BY <1>9 DEF Logout, Shown, calls
  <2>2. InOneHand'
    BY <1>9 DEF Logout, Shown, calls
  <2>3. SpentOnce'
    BY <1>9 DEF Logout, Shown, calls
  <2>4. OneTip'
    BY <1>9 DEF Logout, Shown, calls
  <2>5. OverIsOver'
    <3>1. CASE state[t] = "revoked"
      BY <1>9, <3>1 DEF Logout, Shown, calls
    <3>2. CASE state[t] # "revoked"
      <4>1. Unspent(t)
        BY <1>9, <3>2 DEF Logout
      <4> QED
        BY <1>9, <3>2, <4>1 DEF Logout, Shown, calls
    <3> QED
      BY <3>1, <3>2
  <2> QED
    BY <2>1, <2>2, <2>3, <2>4, <2>5
<1>10. ASSUME NEW t \in Tokens, Expire(t) PROVE ChainInv'
  BY <1>10 DEF Expire, calls
<1>11. CASE UNCHANGED vars
  BY <1>11 DEF vars, calls
<1> QED
  BY <1>1, <1>2, <1>3, <1>4, <1>5, <1>6, <1>7, <1>8, <1>9, <1>10, <1>11
     DEF Next

(* The invariant holds of every reachable state. *)
LEMMA ChainInvariant == Spec => []ChainInv
<1>1. Init /\ TypeOK => ChainInv
  BY SessionsAssumption
  DEF Init, ChainInv, RootsIssued, LoginsCarryNone, InOneHand, SpentOnce,
      OneTip, OverIsOver, Unspent, Heir, Usable
<1>2. ChainInv /\ [Next]_vars /\ TypeOK' => ChainInv'
  BY ChainStep
<1> QED
  BY <1>1, <1>2, TypeCorrect, PTL DEF Spec

(* A client that shows a token to one request at a time exchanges it at    *)
(* most once.                                                              *)
THEOREM ExchangesOnce == Spec => []UnracedExchangedOnce
<1>1. ChainInv => UnracedExchangedOnce
  BY DEF ChainInv, SpentOnce, UnracedExchangedOnce
<1> QED
  BY <1>1, ChainInvariant, PTL

(* Nothing of such a client's session outlives its logout. *)
THEOREM LogoutEndsForGood == Spec => []LogoutEnds
<1>1. ChainInv => LogoutEnds
  BY DEF ChainInv, TypeOK, OverIsOver, SpentOnce, RootsIssued, Unspent, Usable,
         Heir, LogoutEnds, Tips, Heirs
<1> QED
  BY <1>1, ChainInvariant, PTL

-----------------------------------------------------------------------------
(* The sessions of u, and its logins that are recorded and open none yet. *)
Logins(u)  == {t \in Tokens : root[t] = t /\ owner[t] = u}
Waiting(u) == {r \in Requests : pc[r] = "issue" /\ token[r] = None /\ user[r] = u}

(* Each of them has paid with a row of its own. *)
Paid(u) ==
    /\ IsFiniteSet(Logins(u)) /\ IsFiniteSet(Waiting(u))
    /\ Cardinality(Logins(u)) + Cardinality(Waiting(u)) <= audit[u]

(* Nothing is owed when a session ends or a login is lost. *)
LEMMA FewerPaid ==
    ASSUME TypeOK, NEW u \in Users, Paid(u), Logins(u)' = Logins(u),
           Waiting(u)' \subseteq Waiting(u), audit'[u] = audit[u]
    PROVE  Paid(u)'
<1>1. /\ IsFiniteSet(Waiting(u)') /\ Cardinality(Waiting(u)') \in Nat
      /\ Cardinality(Waiting(u)') <= Cardinality(Waiting(u))
  BY FS_Subset, FS_CardinalityType DEF Paid
<1>2. Cardinality(Logins(u)) \in Nat /\ Cardinality(Waiting(u)) \in Nat
  BY FS_CardinalityType DEF Paid
<1>3. audit[u] \in Nat
  BY DEF TypeOK
<1> QED
  BY <1>1, <1>2, <1>3 DEF Paid

(* A recorded login waits to open its session. *)
LEMMA RecordedPaid ==
    ASSUME TypeOK, NEW u \in Users, Paid(u), NEW r \in Requests, LoginAudit(r)
    PROVE  Paid(u)'
<1> USE DEF TypeOK, Phases
<1>1. Logins(u)' = Logins(u) /\ user[r] \in Users
  BY DEF LoginAudit, Logins
<1>2. CASE user[r] = u
  <2>1. /\ Waiting(u)' \subseteq Waiting(u) \cup {r}
        /\ audit'[u] = audit[u] + 1
    BY <1>2 DEF LoginAudit, Waiting
  <2>2. /\ IsFiniteSet(Waiting(u) \cup {r})
        /\ Cardinality(Waiting(u) \cup {r}) = Cardinality(Waiting(u)) + 1
    <3>1. r \notin Waiting(u)
      BY DEF LoginAudit, Waiting
    <3> QED
      BY <3>1, FS_AddElement DEF Paid
  <2>3. /\ IsFiniteSet(Waiting(u)')
        /\ Cardinality(Waiting(u)') <= Cardinality(Waiting(u) \cup {r})
    BY <2>1, <2>2, FS_Subset
  <2>4. /\ Cardinality(Logins(u)) \in Nat /\ Cardinality(Waiting(u)) \in Nat
        /\ Cardinality(Waiting(u)') \in Nat
        /\ Cardinality(Waiting(u) \cup {r}) \in Nat
    BY <2>2, <2>3, FS_CardinalityType DEF Paid
  <2>5. audit[u] \in Nat
    OBVIOUS
  <2> QED
    BY <1>1, <2>1, <2>2, <2>3, <2>4, <2>5 DEF Paid
<1>3. CASE user[r] # u
  <2>1. Waiting(u)' \subseteq Waiting(u) /\ audit'[u] = audit[u]
    BY <1>1, <1>3 DEF LoginAudit, Waiting
  <2> QED
    BY <1>1, <2>1, FewerPaid
<1> QED
  BY <1>2, <1>3

(* A session is opened by a login that waited, or by no login at all. *)
LEMMA IssuedPaid ==
    ASSUME ChainInv, NEW u \in Users, Paid(u), NEW r \in Requests, NEW t \in Tokens,
           Issue(r, t)
    PROVE  Paid(u)'
<1> USE SessionsAssumption DEF ChainInv, TypeOK, RootsIssued
<1>1. /\ root[t] = None /\ t \notin Logins(u) /\ audit'[u] = audit[u]
      /\ \A v \in Tokens \ {t} : root'[v] = root[v] /\ owner'[v] = owner[v]
      /\ root'[t] = IF token[r] = None THEN t ELSE root[token[r]]
      /\ owner'[t] = user[r]
  BY DEF Issue, Logins
<1>2. Waiting(u)' = Waiting(u) \ {r}
  BY DEF Issue, End, Waiting
<1>3. CASE token[r] = None /\ user[r] = u
  <2>1. Logins(u)' = Logins(u) \cup {t}
    BY <1>1, <1>3 DEF Logins
  <2>2. r \in Waiting(u)
    BY <1>3 DEF Issue, Waiting
  <2>3. /\ IsFiniteSet(Logins(u)')
        /\ Cardinality(Logins(u)') = Cardinality(Logins(u)) + 1
    BY <1>1, <2>1, FS_AddElement DEF Paid
  <2>4. /\ IsFiniteSet(Waiting(u)')
        /\ Cardinality(Waiting(u)') = Cardinality(Waiting(u)) - 1
    BY <1>2, <2>2, FS_RemoveElement DEF Paid
  <2>5. Cardinality(Logins(u)) \in Nat /\ Cardinality(Waiting(u)) \in Nat
    BY FS_CardinalityType DEF Paid
  <2> QED
    BY <1>1, <2>3, <2>4, <2>5 DEF Paid
<1>4. CASE token[r] = None /\ user[r] # u
  <2>1. Logins(u)' = Logins(u)
    BY <1>1, <1>4 DEF Logins
  <2> QED
    BY <1>1, <1>2, <2>1, FewerPaid
<1>5. CASE token[r] # None
  <2>1. root[token[r]] # None /\ root[root[token[r]]] = root[token[r]]
    BY <1>5
  <2>2. root'[t] # t
    BY <1>1, <1>5, <2>1
  <2>3. Logins(u)' = Logins(u)
    BY <1>1, <2>2 DEF Logins
  <2> QED
    BY <1>1, <1>2, <2>3, FewerPaid
<1> QED
  BY <1>3, <1>4, <1>5

(* No session without the auth.login row of its login, whatever dies in    *)
(* between and however many logins run at once.                            *)
THEOREM EveryLoginAudited == Spec => []LoginsAudited
<1> DEFINE AllPaid == \A u \in Users : Paid(u)
<1>1. Init => AllPaid
  <2> SUFFICES ASSUME Init, NEW u \in Users PROVE Paid(u)
    OBVIOUS
  <2>1. Logins(u) = {} /\ Waiting(u) = {} /\ audit[u] = 0
    BY SessionsAssumption DEF Init, Logins, Waiting
  <2> QED
    BY <2>1, FS_EmptySet DEF Paid
<1>2. ChainInv /\ AllPaid /\ [Next]_vars => AllPaid'
  <2> SUFFICES ASSUME ChainInv, AllPaid, [Next]_vars, NEW u \in Users PROVE Paid(u)'
    OBVIOUS
  <2> USE DEF ChainInv, TypeOK, Phases
  <2>1. ASSUME UNCHANGED <<root, owner, audit>>, Waiting(u)' \subseteq Waiting(u)
        PROVE  Paid(u)'
    <3>1. Logins(u)' = Logins(u)
      BY <2>1 DEF Logins
    <3> QED
      BY <2>1, <3>1, FewerPaid
  <2>2. ASSUME NEW r \in Requests,
               \/ \E v \in Users : LoginLookup(r, v)
               \/ \E t \in Tokens : RefreshCall(r, t)
               \/ Compare(r) \/ ConsumeFind(r) \/ Crash(r)
        PROVE  Paid(u)'
    <3>1. UNCHANGED <<root, owner, audit>>
      BY <2>2 DEF LoginLookup, RefreshCall, Compare, ConsumeFind, Crash
    <3>2. pc'[r] # "issue"
      BY <2>2 DEF LoginLookup, RefreshCall, Compare, ConsumeFind, Crash, End
    <3>3. \A s \in Requests \ {r} :
              pc'[s] = pc[s] /\ token'[s] = token[s] /\ user'[s] = user[s]
      BY <2>2 DEF LoginLookup, RefreshCall, Compare, ConsumeFind, Crash, End
    <3> QED
      BY <2>1, <3>1, <3>2, <3>3 DEF Waiting
  <2>3. ASSUME NEW r \in Requests, ConsumeRotate(r) PROVE Paid(u)'
    BY <2>1, <2>3, SessionsAssumption DEF ConsumeRotate, Waiting
  <2>4. ASSUME NEW r \in Requests, LoginAudit(r) PROVE Paid(u)'
    BY <2>4, RecordedPaid
  <2>5. ASSUME NEW r \in Requests, NEW t \in Tokens, Issue(r, t) PROVE Paid(u)'
    BY <2>5, IssuedPaid
  <2>6. ASSUME NEW t \in Tokens, Logout(t) \/ Expire(t) PROVE Paid(u)'
    BY <2>1, <2>6 DEF Logout, Expire, calls, Waiting
  <2>7. CASE UNCHANGED vars
    BY <2>1, <2>7 DEF vars, calls, Waiting
  <2> QED
    BY <2>2, <2>3, <2>4, <2>5, <2>6, <2>7 DEF Next
<1>3. TypeOK /\ AllPaid => LoginsAudited
  <2> SUFFICES ASSUME TypeOK, AllPaid, NEW u \in Users
               PROVE  Cardinality(Logins(u)) <= audit[u]
    BY DEF LoginsAudited, Logins
  <2>1. Cardinality(Logins(u)) \in Nat /\ Cardinality(Waiting(u)) \in Nat
    BY FS_CardinalityType DEF Paid
  <2> QED
    BY <2>1 DEF Paid, TypeOK
<1> HIDE DEF AllPaid
<1> QED
  BY <1>1, <1>2, <1>3, ChainInvariant, TypeCorrect, PTL DEF Spec
-----------------------------------------------------------------------------
(* A session none of whose tokens and refreshes a step touches looks the   *)
(* same to SessionChain; so does a forked one, whatever touches it.        *)
Untouched(g) ==
    /\ g \in raced' <=> g \in raced
    /\ root'[g] = g <=> root[g] = g
    /\ g \notin raced => Tips(g)' = Tips(g) /\ Heirs(g)' = Heirs(g)

LEMMA UntouchedSame ==
    ASSUME NEW g \in Tokens, Untouched(g)
    PROVE  ChainPhase(g)' = ChainPhase(g) /\ ChainUsable(g)' = ChainUsable(g)
BY DEF Untouched, ChainPhase, ChainUsable

(* A step that touches no session and issues no token is a stutter. *)
LEMMA NoneTouched ==
    ASSUME \A g \in Tokens : Untouched(g),
           \A t \in Tokens : state'[t] = "unissued" <=> state[t] = "unissued"
    PROVE  UNCHANGED Chain!vars
<1>1. \A g \in Tokens : /\ ChainPhase(g)' = ChainPhase(g)
                        /\ ChainUsable(g)' = ChainUsable(g)
  BY UntouchedSame
<1>2. UNCHANGED [g \in Tokens |-> ChainPhase(g)]
  BY <1>1
<1>3. UNCHANGED [g \in Tokens |-> ChainUsable(g)]
  BY <1>1
<1>4. UNCHANGED {t \in Tokens : state[t] # "unissued"}
  OBVIOUS
<1> QED
  BY <1>2, <1>3, <1>4 DEF Chain!vars

(* A step that touches one session is a move of that session. *)
LEMMA OneTouched ==
    ASSUME NEW f \in Tokens, \A g \in Tokens : g # f => Untouched(g),
           NEW from, ChainPhase(f) \in from,
           NEW to, ChainPhase(f)' = to,
           NEW tokens, ChainUsable(f)' = tokens
    PROVE  Chain!Move(f, from, to, tokens)
<1>1. \A g \in Tokens : g # f => /\ ChainPhase(g)' = ChainPhase(g)
                                 /\ ChainUsable(g)' = ChainUsable(g)
  BY UntouchedSame
<1>2. [g \in Tokens |-> ChainPhase(g)]'
        = [[g \in Tokens |-> ChainPhase(g)] EXCEPT ![f] = to]
  BY <1>1
<1>3. [g \in Tokens |-> ChainUsable(g)]'
        = [[g \in Tokens |-> ChainUsable(g)] EXCEPT ![f] = tokens]
  BY <1>1
<1> QED
  BY <1>2, <1>3 DEF Chain!Move

(* The session of a usable token is open, and lives in that token alone. *)
LEMMA TipAlone ==
    ASSUME ChainInv, NEW t \in Tokens, Usable(t), root[t] \notin raced
    PROVE  /\ root[t] \in Tokens
           /\ Tips(root[t]) = {t} /\ Heirs(root[t]) = {}
           /\ ChainPhase(root[t]) = "open"
<1> USE DEF ChainInv, TypeOK
<1>1. Unspent(t) /\ root[t] \in Tokens /\ root[root[t]] = root[t]
  BY SessionsAssumption DEF Usable, Unspent, RootsIssued
<1>2. Tips(root[t]) = {t}
  BY <1>1 DEF Tips, Usable, Unspent, OneTip
<1>3. Heirs(root[t]) = {}
  BY <1>1 DEF Heirs, Heir, OneTip
<1> QED
  BY <1>1, <1>2, <1>3 DEF ChainPhase

(* That of a refresh between its two halves lives in that refresh. *)
LEMMA HeirAlone ==
    ASSUME ChainInv, NEW r \in Requests, Heir(r), root[token[r]] \notin raced
    PROVE  /\ root[token[r]] \in Tokens
           /\ Tips(root[token[r]]) = {} /\ Heirs(root[token[r]]) = {r}
           /\ ChainPhase(root[token[r]]) = "changing"
<1> USE DEF ChainInv, TypeOK
<1> DEFINE f == root[token[r]]
<1>1. token[r] \in Tokens /\ f \in Tokens /\ root[f] = f
  BY SessionsAssumption DEF Heir, RootsIssued
<1>2. Tips(f) = {}
  BY <1>1 DEF Tips, Usable, Unspent, OneTip
<1>3. Heirs(f) = {r}
  BY <1>1 DEF Heirs, Heir, OneTip
<1> QED
  BY <1>1, <1>2, <1>3 DEF ChainPhase

(* A token is shown: at most, it forks its session. *)
LEMMA ShownForks ==
    ASSUME ChainInv, NEW t \in Tokens, state[t] # "unissued", Shown(t),
           UNCHANGED <<state, root>>,
           \A u \in Tokens : Usable(u)' = Usable(u),
           \A g \in Tokens : Heirs(g)' = Heirs(g)
    PROVE  [Chain!Next]_(Chain!vars)
<1>1. \A g \in Tokens : Tips(g)' = Tips(g)
  BY DEF Tips
<1>2. CASE raced' = raced
  <2>1. \A g \in Tokens : Untouched(g)
    BY <1>1, <1>2 DEF Untouched
  <2> QED
    BY <2>1, NoneTouched
<1>3. CASE raced' # raced
  <2>1. Usable(t) /\ root[t] \notin raced /\ raced' = raced \cup {root[t]}
    BY <1>3 DEF Shown
  <2>2. PICK f \in Tokens : f = root[t]
    BY <2>1, TipAlone
  <2>3. ChainPhase(f) = "open"
    BY <2>1, <2>2, TipAlone
  <2>4. \A g \in Tokens : g # f => Untouched(g)
    BY <1>1, <2>1, <2>2 DEF Untouched
  <2>5. ChainPhase(f)' = "forked" /\ ChainUsable(f)' = {}
    BY <2>1, <2>2 DEF ChainPhase, ChainUsable
  <2>6. Chain!Move(f, {"open"}, "forked", {})
    BY <2>3, <2>4, <2>5, OneTouched
  <2>7. UNCHANGED {u \in Tokens : state[u] # "unissued"}
    OBVIOUS
  <2> QED
    BY <2>6, <2>7 DEF Chain!Fork, Chain!Next
<1> QED
  BY <1>2, <1>3

(* What is left of a session is taken from it, and it ends. *)
LEMMA LastTaken ==
    ASSUME NEW f \in Tokens, f \notin raced,
           ChainPhase(f) \in {"open", "changing"},
           UNCHANGED <<root, raced>>, Tips(f)' = {}, Heirs(f)' = {},
           \A g \in Tokens : g # f => Tips(g)' = Tips(g) /\ Heirs(g)' = Heirs(g),
           \A t \in Tokens : state'[t] = "unissued" <=> state[t] = "unissued"
    PROVE  [Chain!Next]_(Chain!vars)
<1>1. \A g \in Tokens : g # f => Untouched(g)
  BY DEF Untouched
<1>2. root[f] = f
  BY DEF ChainPhase
<1>3. ChainPhase(f)' = "ended" /\ ChainUsable(f)' = {}
  BY <1>2 DEF ChainPhase, ChainUsable
<1>4. Chain!Move(f, {"open", "changing"}, "ended", {})
  BY <1>1, <1>3, OneTouched
<1>5. UNCHANGED {t \in Tokens : state[t] # "unissued"}
  OBVIOUS
<1> QED
  BY <1>4, <1>5 DEF Chain!End, Chain!Next

(* Every step is a step of SessionChain, or changes nothing of it. *)
LEMMA ChainNextStep ==
    ASSUME ChainInv, [Next]_vars
    PROVE  [Chain!Next]_(Chain!vars)
<1> USE SessionsAssumption DEF ChainInv, TypeOK, Phases
<1>1. ASSUME UNCHANGED <<state, root, raced>>,
             \A t \in Tokens : Usable(t)' = Usable(t),
             \A g \in Tokens : Heirs(g)' = Heirs(g)
      PROVE  [Chain!Next]_(Chain!vars)
  <2>1. \A g \in Tokens : Untouched(g)
    BY <1>1 DEF Untouched, Tips
  <2> QED
    BY <1>1, <2>1, NoneTouched
<1>2. ASSUME NEW r \in Requests, NEW u \in Users, LoginLookup(r, u)
      PROVE  [Chain!Next]_(Chain!vars)
  <2>1. \A t \in Tokens : Usable(t)' = Usable(t)
    BY <1>2 DEF LoginLookup, Usable, LoginsCarryNone
  <2>2. \A g \in Tokens : Heirs(g)' = Heirs(g)
    BY <1>2 DEF LoginLookup, Heirs
  <2> QED
    BY <1>1, <1>2, <2>1, <2>2 DEF LoginLookup
<1>3. ASSUME NEW r \in Requests, NEW t \in Tokens, RefreshCall(r, t)
      PROVE  [Chain!Next]_(Chain!vars)
  <2>1. \A u \in Tokens : Usable(u)' = Usable(u)
    BY <1>3 DEF RefreshCall, Usable
  <2>2. \A g \in Tokens : Heirs(g)' = Heirs(g)
    BY <1>3 DEF RefreshCall, Heirs
  <2> QED
    BY <1>3, <2>1, <2>2, ShownForks DEF RefreshCall
<1>4. ASSUME NEW r \in Requests, NEW t \in Tokens, Issue(r, t)
      PROVE  [Chain!Next]_(Chain!vars)
  <2>1. /\ root[t] = None /\ t # None /\ t \notin raced
        /\ \A u \in Tokens : root[u] # t
        /\ \A s \in Requests : token[s] # t
    BY <1>4 DEF Issue, RootsIssued
  <2>2. \A u \in Tokens : u # t => Usable(u)' = Usable(u) /\ root'[u] = root[u]
    BY <1>4, <2>1 DEF Issue, End, Usable
  <2>3. Usable(t)' /\ ~Usable(t)
    BY <1>4 DEF Issue, Usable
  <2>4. {u \in Tokens : state[u] # "unissued"}'
          = {u \in Tokens : state[u] # "unissued"} \cup {t}
    BY <1>4 DEF Issue
  <2>5. t \notin {u \in Tokens : state[u] # "unissued"}
    BY <1>4 DEF Issue
  <2>6. Chain!HandOut(t)
    BY <2>4, <2>5 DEF Chain!HandOut
  <2>7. CASE token[r] = None
    <3>1. root'[t] = t
      BY <1>4, <2>7 DEF Issue
    <3>2. \A g \in Tokens : Heirs(g)' = Heirs(g)
      BY <1>4, <2>1, <2>7 DEF Issue, End, Heirs
    <3>3. \A g \in Tokens : g # t => Untouched(g)
      BY <1>4, <2>1, <2>2, <2>3, <3>1, <3>2 DEF Issue, Untouched, Tips
    <3>4. ChainPhase(t) = "unopened"
      BY <2>1 DEF ChainPhase
    <3>5. Heirs(t)' = {} /\ Tips(t)' = {t}
      BY <2>1, <2>2, <2>3, <3>1, <3>2 DEF Heirs, Tips
    <3>6. ChainPhase(t)' = "open" /\ ChainUsable(t)' = {t}
      BY <1>4, <2>1, <3>1, <3>5 DEF Issue, ChainPhase, ChainUsable
    <3>7. Chain!Move(t, {"unopened"}, "open", {t})
      BY <3>3, <3>4, <3>6, OneTouched
    <3> QED
      BY <2>6, <3>7 DEF Chain!Open, Chain!Next
  <2>8. CASE token[r] # None
    <3>1. Heir(r) /\ root[token[r]] \in Tokens /\ token[r] # t
      BY <1>4, <2>1, <2>8 DEF Issue, Heir, RootsIssued
    <3>2. PICK f \in Tokens : f = root[token[r]]
      BY <3>1
    <3>3. root'[t] = f /\ f # t /\ root[f] = f /\ root'[f] = f
      BY <1>4, <2>1, <2>2, <2>8, <3>1, <3>2 DEF Issue, RootsIssued
    <3>4. \A s \in Requests : s # r /\ token[s] # None
                               => root'[token[s]] = root[token[s]]
      BY <2>1, <2>2
    <3>5. \A g \in Tokens : g # f => Heirs(g)' = Heirs(g)
      BY <1>4, <3>2, <3>4 DEF Issue, End, Heirs
    <3>6. \A g \in Tokens : g # f => Tips(g)' = Tips(g)
      BY <2>2, <2>3, <3>3, <2>1 DEF Tips
    <3>7. \A g \in Tokens : g # f => Untouched(g)
      BY <1>4, <2>1, <2>2, <3>3, <3>5, <3>6 DEF Issue, Untouched
    <3>8. CASE f \in raced
      <4>1. \A g \in Tokens : Untouched(g)
        BY <1>4, <3>3, <3>7, <3>8 DEF Issue, Untouched
      <4>2. \A g \in Tokens : /\ ChainPhase(g)' = ChainPhase(g)
                              /\ ChainUsable(g)' = ChainUsable(g)
        BY <4>1, UntouchedSame
      <4>3. UNCHANGED [g \in Tokens |-> ChainPhase(g)]
        BY <4>2
      <4>4. UNCHANGED [g \in Tokens |-> ChainUsable(g)]
        BY <4>2
      <4>5. [g \in Tokens |-> ChainPhase(g)][f] = "forked"
        BY <3>8 DEF ChainPhase
      <4> QED
        BY <2>6, <4>3, <4>4, <4>5 DEF Chain!Stray, Chain!Next
    <3>9. CASE f \notin raced
      <4>1. ChainPhase(f) = "changing" /\ Tips(f) = {} /\ Heirs(f) = {r}
        BY <3>1, <3>2, <3>9, HeirAlone
      <4>2. Heirs(f)' = {}
        BY <1>4, <3>4, <4>1 DEF Issue, End, Heirs
      <4>3. Tips(f)' = {t}
        BY <2>2, <2>3, <3>3, <4>1 DEF Tips
      <4>4. ChainPhase(f)' = "open" /\ ChainUsable(f)' = {t}
        BY <1>4, <3>3, <3>9, <4>2, <4>3 DEF Issue, ChainPhase, ChainUsable
      <4>5. Chain!Move(f, {"changing"}, "open", {t})
        BY <3>7, <4>1, <4>4, OneTouched
      <4> QED
        BY <2>6, <4>5 DEF Chain!Renew, Chain!Next
    <3> QED
      BY <3>8, <3>9
  <2> QED
    BY <2>7, <2>8
<1>5. ASSUME NEW r \in Requests, Compare(r) PROVE [Chain!Next]_(Chain!vars)
  <2>1. \A t \in Tokens : Usable(t)' = Usable(t)
    BY <1>5 DEF Compare, End, Usable, LoginsCarryNone
  <2>2. \A g \in Tokens : Heirs(g)' = Heirs(g)
    BY <1>5 DEF Compare, End, Heirs
  <2> QED
    BY <1>1, <1>5, <2>1, <2>2 DEF Compare
<1>6. ASSUME NEW r \in Requests, LoginAudit(r) PROVE [Chain!Next]_(Chain!vars)
  <2>1. \A t \in Tokens : Usable(t)' = Usable(t)
    BY <1>6 DEF LoginAudit, Usable, LoginsCarryNone
  <2>2. \A g \in Tokens : Heirs(g)' = Heirs(g)
    BY <1>6 DEF LoginAudit, Heirs, LoginsCarryNone
  <2> QED
    BY <1>1, <1>6, <2>1, <2>2 DEF LoginAudit
<1>7. ASSUME NEW r \in Requests, ConsumeFind(r) PROVE [Chain!Next]_(Chain!vars)
  <2>1. \A t \in Tokens : Usable(t)' = Usable(t)
    BY <1>7 DEF ConsumeFind, End, Usable
  <2>2. \A g \in Tokens : Heirs(g)' = Heirs(g)
    BY <1>7 DEF ConsumeFind, End, Heirs
  <2> QED
    BY <1>1, <1>7, <2>1, <2>2 DEF ConsumeFind
<1>8. ASSUME NEW r \in Requests, ConsumeRotate(r) PROVE [Chain!Next]_(Chain!vars)
  <2>1. token[r] \in Tokens /\ root[token[r]] \in Tokens
    BY <1>8 DEF ConsumeRotate, RootsIssued
  <2>2. PICK t \in Tokens, f \in Tokens : t = token[r] /\ f = root[t]
    BY <2>1
  <2>3. \A u \in Tokens : u # t => Usable(u)' = Usable(u)
    BY <1>8, <2>2 DEF ConsumeRotate, Usable
  <2>4. \A g \in Tokens : g # f => Tips(g)' = Tips(g) /\ Heirs(g)' = Heirs(g)
    BY <1>8, <2>2, <2>3 DEF ConsumeRotate, Tips, Heirs
  <2>5. \A g \in Tokens : g # f => Untouched(g)
    BY <1>8, <2>4 DEF ConsumeRotate, Untouched
  <2>6. \A u \in Tokens : state'[u] = "unissued" <=> state[u] = "unissued"
    BY <1>8 DEF ConsumeRotate
  <2>7. CASE f \in raced
    <3>1. \A g \in Tokens : Untouched(g)
      BY <1>8, <2>5, <2>7 DEF ConsumeRotate, Untouched
    <3> QED
      BY <2>6, <3>1, NoneTouched
  <2>8. CASE f \notin raced
    <3>1. Usable(t)
      BY <1>8, <2>2, <2>8 DEF ConsumeRotate, SpentOnce, Unspent, Usable
    <3>2. Tips(f) = {t} /\ Heirs(f) = {} /\ ChainPhase(f) = "open"
      BY <2>2, <2>8, <3>1, TipAlone
    <3>3. r \in Heirs(f)'
      BY <1>8, <2>1, <2>2 DEF ConsumeRotate, Heirs
    <3>4. Tips(f)' = {}
      BY <1>8, <2>2, <2>3, <3>2 DEF ConsumeRotate, Tips, Usable
    <3>5. ChainPhase(f)' = "changing" /\ ChainUsable(f)' = {}
      BY <1>8, <2>8, <3>2, <3>3, <3>4
      DEF ConsumeRotate, ChainPhase, ChainUsable
    <3>6. Chain!Move(f, {"open"}, "changing", {})
      BY <2>5, <3>2, <3>5, OneTouched
    <3>7. UNCHANGED {u \in Tokens : state[u] # "unissued"}
      BY <2>6
    <3> QED
      BY <3>6, <3>7 DEF Chain!Exchange, Chain!Next
  <2> QED
    BY <2>7, <2>8
<1>9. ASSUME NEW r \in Requests, Crash(r) PROVE [Chain!Next]_(Chain!vars)
  <2>1. UNCHANGED <<state, root, raced>>
    BY <1>9 DEF Crash
  <2>2. CASE pc[r] \notin {"rotate", "issue"} \/ token[r] = None
    <3>1. \A t \in Tokens : Usable(t)' = Usable(t)
      BY <1>9, <2>2 DEF Crash, End, Usable
    <3>2. \A g \in Tokens : Heirs(g)' = Heirs(g)
      BY <1>9, <2>2 DEF Crash, End, Heirs
    <3> QED
      BY <1>1, <2>1, <3>1, <3>2
  <2>3. CASE pc[r] \in {"rotate", "issue"} /\ token[r] # None
    <3>1. PICK t \in Tokens, f \in Tokens : t = token[r] /\ f = root[t]
      BY <2>3 DEF RootsIssued
    <3>2. \A u \in Tokens : u # t => Usable(u)' = Usable(u)
      BY <1>9, <3>1 DEF Crash, End, Usable
    <3>3. \A g \in Tokens : g # f => Tips(g)' = Tips(g) /\ Heirs(g)' = Heirs(g)
      BY <1>9, <2>1, <3>1, <3>2 DEF Crash, End, Tips, Heirs
    <3>4. CASE f \in raced
      <4>1. \A g \in Tokens : Untouched(g)
        BY <2>1, <3>3, <3>4 DEF Untouched
      <4> QED
        BY <2>1, <4>1, NoneTouched
    <3>5. CASE f \notin raced /\ pc[r] = "rotate"
      <4>1. Usable(t)
        BY <3>1, <3>5 DEF SpentOnce, Unspent, Usable
      <4>2. Tips(f) = {t} /\ Heirs(f) = {} /\ ChainPhase(f) = "open"
        BY <3>1, <3>5, <4>1, TipAlone
      <4>3. Heirs(f)' = {}
        BY <1>9, <2>1, <4>2 DEF Crash, End, Heirs
      <4>4. CASE Usable(t)'
        <5>1. Tips(f)' = Tips(f)
          BY <2>1, <3>2, <4>1, <4>4 DEF Tips
        <5>2. \A g \in Tokens : Untouched(g)
          BY <2>1, <3>3, <4>2, <4>3, <5>1 DEF Untouched
        <5> QED
          BY <2>1, <5>2, NoneTouched
      <4>5. CASE ~Usable(t)'
        <5>1. Tips(f)' = {}
          BY <2>1, <3>2, <4>2, <4>5 DEF Tips
        <5> QED
          BY <2>1, <3>3, <3>5, <4>2, <4>3, <5>1, LastTaken
      <4> QED
        BY <4>4, <4>5
    <3>6. CASE f \notin raced /\ pc[r] = "issue"
      <4>1. Heir(r) /\ ~Usable(t)
        BY <2>3, <3>1, <3>6 DEF Heir, SpentOnce, Usable
      <4>2. Tips(f) = {} /\ Heirs(f) = {r} /\ ChainPhase(f) = "changing"
        BY <3>1, <3>6, <4>1, HeirAlone
      <4>3. Tips(f)' = {}
        BY <2>1, <3>1, <3>2, <4>1, <4>2 DEF Tips, Usable, Heir, SpentOnce
      <4>4. Heirs(f)' = {}
        BY <1>9, <2>1, <4>2 DEF Crash, End, Heirs
      <4> QED
        BY <2>1, <3>3, <3>6, <4>2, <4>3, <4>4, LastTaken
    <3> QED
      BY <2>3, <3>4, <3>5, <3>6
  <2> QED
    BY <2>2, <2>3
<1>10. ASSUME NEW t \in Tokens, Logout(t) PROVE [Chain!Next]_(Chain!vars)
  <2>1. \A u \in Tokens : u # t => Usable(u)' = Usable(u)
    BY <1>10 DEF Logout, calls, Usable
  <2>2. ~Usable(t)'
    BY <1>10 DEF Logout, Usable
  <2>3. \A g \in Tokens : Heirs(g)' = Heirs(g)
    BY <1>10 DEF Logout, calls, Heirs
  <2>4. \A u \in Tokens : state'[u] = "unissued" <=> state[u] = "unissued"
    BY <1>10 DEF Logout
  <2>5. UNCHANGED root
    BY <1>10 DEF Logout
  <2>6. UNCHANGED {u \in Tokens : state[u] # "unissued"}
    BY <2>4
  <2>7. CASE ~Usable(t)
    <3>1. raced' = raced
      BY <1>10, <2>7 DEF Logout, Shown
    <3>2. \A g \in Tokens : Tips(g)' = Tips(g)
      BY <2>1, <2>2, <2>5, <2>7 DEF Tips
    <3>3. \A g \in Tokens : Untouched(g)
      BY <2>3, <2>5, <3>1, <3>2 DEF Untouched
    <3> QED
      BY <2>4, <3>3, NoneTouched
  <2>8. CASE Usable(t)
    <3>1. PICK f \in Tokens : f = root[t]
      BY <1>10 DEF Logout, RootsIssued
    <3>2. \A g \in Tokens : g # f => Tips(g)' = Tips(g)
      BY <2>1, <2>5, <3>1 DEF Tips
    <3>3. raced' \in {raced, raced \cup {f}}
      BY <1>10, <3>1 DEF Logout, Shown
    <3>4. \A g \in Tokens : g # f => Untouched(g)
      BY <2>3, <2>5, <3>2, <3>3 DEF Untouched
    <3>5. CASE f \in raced
      <4>1. \A g \in Tokens : Untouched(g)
        BY <2>5, <3>3, <3>4, <3>5 DEF Untouched
      <4> QED
        BY <2>4, <4>1, NoneTouched
    <3>6. CASE f \notin raced
      <4>1. Tips(f) = {t} /\ Heirs(f) = {} /\ ChainPhase(f) = "open"
        BY <2>8, <3>1, <3>6, TipAlone
      <4>2. Tips(f)' = {} /\ Heirs(f)' = {}
        BY <2>1, <2>2, <2>3, <2>5, <4>1 DEF Tips
      <4>3. CASE f \notin raced'
        <5>1. raced' = raced
          BY <3>3, <4>3
        <5> QED
          BY <2>3, <2>4, <2>5, <3>2, <3>6, <4>1, <4>2, <5>1, LastTaken
      <4>4. CASE f \in raced'
        <5>1. ChainPhase(f)' = "forked" /\ ChainUsable(f)' = {}
          BY <4>4 DEF ChainPhase, ChainUsable
        <5>2. Chain!Move(f, {"open"}, "forked", {})
          BY <3>4, <4>1, <5>1, OneTouched
        <5> QED
          BY <2>6, <5>2 DEF Chain!Fork, Chain!Next
      <4> QED
        BY <4>3, <4>4
    <3> QED
      BY <3>5, <3>6
  <2> QED
    BY <2>7, <2>8
<1>11. ASSUME NEW t \in Tokens, Expire(t) PROVE [Chain!Next]_(Chain!vars)
  <2>1. \A u \in Tokens : u # t => Usable(u)' = Usable(u)
    BY <1>11 DEF Expire, calls, Usable
  <2>2. \A g \in Tokens : Heirs(g)' = Heirs(g)
    BY <1>11 DEF Expire, calls, Heirs
  <2>3. \A u \in Tokens : state'[u] = "unissued" <=> state[u] = "unissued"
    BY <1>11 DEF Expire
  <2>4. UNCHANGED <<root, raced>>
    BY <1>11 DEF Expire
  <2>5. Usable(t)
    BY <1>11 DEF Expire, Usable
  <2>6. PICK f \in Tokens : f = root[t]
    BY <1>11 DEF Expire, RootsIssued
  <2>7. \A g \in Tokens : g # f => Tips(g)' = Tips(g)
    BY <2>1, <2>4, <2>6 DEF Tips
  <2>8. CASE f \in raced \/ Usable(t)'
    <3>1. f \in raced \/ Tips(f)' = Tips(f)
      BY <2>1, <2>4, <2>5, <2>8 DEF Tips
    <3>2. \A g \in Tokens : Untouched(g)
      BY <2>2, <2>4, <2>7, <3>1 DEF Untouched
    <3> QED
      BY <2>3, <3>2, NoneTouched
  <2>9. CASE f \notin raced /\ ~Usable(t)'
    <3>1. Tips(f) = {t} /\ Heirs(f) = {} /\ ChainPhase(f) = "open"
      BY <2>5, <2>6, <2>9, TipAlone
    <3>2. Tips(f)' = {} /\ Heirs(f)' = {}
      BY <2>1, <2>2, <2>4, <2>9, <3>1 DEF Tips
    <3> QED
      BY <2>2, <2>3, <2>4, <2>7, <2>9, <3>1, <3>2, LastTaken
  <2> QED
    BY <2>8, <2>9
<1>12. CASE UNCHANGED vars
  <2>1. \A t \in Tokens : Usable(t)' = Usable(t)
    BY <1>12 DEF vars, calls, Usable
  <2>2. \A g \in Tokens : Heirs(g)' = Heirs(g)
    BY <1>12 DEF vars, calls, Heirs
  <2> QED
    BY <1>1, <1>12, <2>1, <2>2 DEF vars
<1> QED
  BY <1>2, <1>3, <1>4, <1>5, <1>6, <1>7, <1>8, <1>9, <1>10, <1>11, <1>12
     DEF Next

(* Login, refresh and logout implement SessionChain, for any number of     *)
(* users, tokens and requests.                                             *)
THEOREM ImplementsChain == Spec => ChainSpec
<1>1. Init => Chain!Init
  <2> SUFFICES ASSUME Init PROVE Chain!Init
    OBVIOUS
  <2>1. \A f \in Tokens : ChainPhase(f) = "unopened" /\ ChainUsable(f) = {}
    BY SessionsAssumption
    DEF Init, ChainPhase, ChainUsable, Tips, Usable
  <2>2. {t \in Tokens : state[t] # "unissued"} = {}
    BY DEF Init
  <2> QED
    BY <2>1, <2>2 DEF Chain!Init
<1>2. ChainInv /\ [Next]_vars => [Chain!Next]_(Chain!vars)
  BY ChainNextStep
<1> QED
  BY <1>1, <1>2, ChainInvariant, PTL DEF Spec, ChainSpec, Chain!Spec
=============================================================================
