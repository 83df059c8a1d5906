------------------------- MODULE TenantRequestsProofs -------------------------
(***************************************************************************)
(* What TenantGuard, TenantInterceptor and AuditInterceptor promise        *)
(* together, for any number of organizations, tasks, requests in flight    *)
(* and connections: a request is shown and changes only what its own       *)
(* organization has, no context is left on a connection, an answered       *)
(* deletion is recorded exactly once, and all requests together implement  *)
(* TaskStore.                                                              *)
(***************************************************************************)
EXTENDS TenantRequests, TLAPS

(* The phases in which a request has a transaction. *)
Inside == {"run", "count", "audit", "commit"}

(* A request past the guard has an organization, and names a task unless   *)
(* it lists or creates; it holds a connection within its transaction.      *)
Asked ==
    \A r \in Requests :
        /\ pc[r] # "idle" =>
              /\ req[r].org \in Orgs
              /\ req[r].task = None <=> req[r].kind \in {"list", "create"}
        /\ pc[r] = "count" => req[r].kind = "list"
        /\ pc[r] = "audit" => req[r].kind = "delete"
        /\ held[r] # None <=> pc[r] \in Inside

(* A statement that writes a row leaves every connection with transactions *)
(* of the right shape, and a client that is none writes nothing.           *)
LEMMA RowWritten ==
    ASSUME tx \in [Conns -> Transactions], NEW c \in Conns \cup {None},
           NEW t \in Tasks, NEW v \in Rows, tx' = [tx EXCEPT ![c].rows[t] = v]
    PROVE  tx' \in [Conns -> Transactions]
<1>1. CASE c \in Conns
  <2>1. [tx[c] EXCEPT !.rows[t] = v] \in Transactions
    BY <1>1 DEF Transactions
  <2> QED
    BY <1>1, <2>1
<1>2. CASE c \notin Conns
  BY <1>2
<1> QED
  BY <1>1, <1>2

(* The same of set_config. *)
LEMMA OrgDeclared ==
    ASSUME tx \in [Conns -> Transactions], NEW c \in Conns, NEW o \in Orgs,
           tx' = [tx EXCEPT ![c].org = o]
    PROVE  tx' \in [Conns -> Transactions]
<1>1. [tx[c] EXCEPT !.org = o] \in Transactions
  BY DEF Transactions
<1> QED
  BY <1>1

(* The same of the audit row. *)
LEMMA AuditRowWritten ==
    ASSUME tx \in [Conns -> Transactions], NEW c \in Conns \cup {None},
           NEW o \in Orgs, NEW t \in Tasks,
           tx' = [tx EXCEPT ![c].audits = @ \cup {<<o, t>>}]
    PROVE  tx' \in [Conns -> Transactions]
<1>1. CASE c \in Conns
  <2>1. [tx[c] EXCEPT !.audits = tx[c].audits \cup {<<o, t>>}] \in Transactions
    BY <1>1 DEF Transactions
  <2> QED
    BY <1>1, <2>1
<1>2. CASE c \notin Conns
  BY <1>2
<1> QED
  BY <1>1, <1>2

(* Every step keeps that. *)
LEMMA AskedStep ==
    ASSUME TypeOK, Asked, [Next]_vars PROVE Asked'
<1> USE TenantRequestsAssumption DEF TypeOK, Phases, Questions, Asked, Inside, Goto
<1>1. ASSUME NEW r \in Requests, NEW o \in Orgs, NEW k \in Kinds,
             NEW t \in Tasks \cup {None}, Arrive(r, o, k, t)
      PROVE  Asked'
  BY <1>1 DEF Arrive
<1>2. ASSUME NEW r \in Requests, Answer(r),
             \/ Close(r)
             \/ pc[r] \in {"queued", "late"} /\ held' = held
      PROVE  Asked'
  BY <1>2 DEF Answer, Close
<1>3. ASSUME NEW r \in Requests,
             \/ PoolTimeout(r) \/ OutOfIds(r) \/ NotFound(r) \/ Commit(r)
             \/ Abort(r) \/ Late(r)
      PROVE  Asked'
  BY <1>2, <1>3 DEF PoolTimeout, OutOfIds, NotFound, Commit, Abort, Late
<1>4. ASSUME NEW r \in Requests,
             \/ \E c \in Conns : Begin(r, c)
             \/ List(r) \/ Update(r) \/ Remove(r) \/ WriteAudit(r) \/ TxTimeout(r)
             \/ \E t \in Tasks : Create(r, t)
      PROVE  Asked'
  <2>1. /\ pc[r] # "idle" /\ req' = req
        /\ \E p \in Phases : pc' = [pc EXCEPT ![r] = p]
        /\ \A s \in Requests \ {r} : held'[s] = held[s]
        /\ held'[r] # None <=> pc'[r] \in Inside
        /\ pc'[r] = "count" => req[r].kind = "list"
        /\ pc'[r] = "audit" => req[r].kind = "delete"
    BY <1>4 DEF Begin, List, Update, Remove, WriteAudit, TxTimeout, Create,
      Close
  <2> QED
    BY <2>1
<1>5. ASSUME Crash PROVE Asked'
  BY <1>5 DEF Crash
<1>6. CASE UNCHANGED vars
  BY <1>6 DEF vars, requests
<1> QED
  BY <1>1, <1>3, <1>4, <1>5, <1>6 DEF Next, Contend, Proceed

(* Every step keeps the shape of the tables, of the transactions and of    *)
(* the requests; an audit row has one because only a delete adds it.       *)
LEMMA TypeStep ==
    ASSUME TypeOK, Asked, [Next]_vars PROVE TypeOK'
<1> USE TenantRequestsAssumption DEF TypeOK, Phases, Goto, tables
<1>1. NoTx \in Transactions
  BY DEF NoTx, Rows, Transactions, TS!NoRow
<1>2. NoReq \in Questions
  BY DEF NoReq, Kinds, Questions
<1>3. ASSUME NEW r \in Requests, NEW o \in Orgs, NEW k \in Kinds,
             NEW t \in Tasks \cup {None}, Arrive(r, o, k, t)
      PROVE  TypeOK'
  BY <1>3 DEF Arrive, Questions
<1>4. ASSUME NEW r \in Requests, NEW c \in Conns, Begin(r, c) PROVE TypeOK'
  <2>1. req[r].org \in Orgs
    BY <1>4 DEF Begin, Asked
  <2>2. tx' \in [Conns -> Transactions]
    BY <1>4, <2>1, OrgDeclared DEF Begin
  <2> QED
    BY <1>4, <2>2 DEF Begin
<1>5. ASSUME NEW r \in Requests, PoolTimeout(r) PROVE TypeOK'
  BY <1>2, <1>5 DEF PoolTimeout, Answer
<1>6. ASSUME NEW r \in Requests, List(r) PROVE TypeOK'
  BY <1>6 DEF List, Visible
<1>7. ASSUME NEW r \in Requests, NEW t \in Tasks, Create(r, t) PROVE TypeOK'
  <2>1. [org |-> req[r].org, status |-> "open"] \in Rows
    BY DEF Rows, Live, Questions
  <2>2. tx' \in [Conns -> Transactions]
    BY <1>7, <2>1, RowWritten DEF Create
  <2> QED
    BY <1>7, <2>2 DEF Create
<1>8. ASSUME NEW r \in Requests, NEW s \in Live \cup {"deleted"}, Write(r, s)
      PROVE  tx' \in [Conns -> Transactions]
  <2>1. req[r].task \in Tasks
    BY <1>8 DEF Write, Visible
  <2>2. [org |-> row[req[r].task].org, status |-> s] \in Rows
    BY <2>1 DEF Rows, Live
  <2> QED
    BY <1>8, <2>1, <2>2, RowWritten DEF Write
<1>9. ASSUME NEW r \in Requests, Update(r) PROVE TypeOK'
  BY <1>8, <1>9 DEF Update, Live
<1>10. ASSUME NEW r \in Requests, Remove(r) PROVE TypeOK'
  BY <1>8, <1>10 DEF Remove
<1>11. ASSUME NEW r \in Requests, Close(r), Answer(r), UNCHANGED <<tables, told>>
       PROVE  TypeOK'
  BY <1>1, <1>2, <1>11 DEF Close, Answer
<1>12. ASSUME NEW r \in Requests, OutOfIds(r) \/ NotFound(r) \/ Abort(r)
       PROVE  TypeOK'
  BY <1>11, <1>12 DEF OutOfIds, NotFound, Abort
<1>13. ASSUME NEW r \in Requests, WriteAudit(r) PROVE TypeOK'
  <2>1. req[r].org \in Orgs /\ req[r].task \in Tasks
    BY <1>13 DEF WriteAudit, Asked, Questions
  <2>2. tx' \in [Conns -> Transactions]
    BY <1>13, <2>1, AuditRowWritten DEF WriteAudit
  <2> QED
    BY <1>13, <2>2 DEF WriteAudit
<1>14. ASSUME NEW r \in Requests, Commit(r) PROVE TypeOK'
  <2>1. row' \in [Tasks -> Rows]
    <3>1. held[r] \in Conns
      BY <1>14 DEF Commit, Asked, Inside
    <3>2. tx[held[r]].rows \in [Tasks -> Rows]
      BY <3>1 DEF Transactions
    <3> QED
      BY <1>14, <3>2 DEF Commit, CommitRows
  <2>2. audit' \in [Orgs \X Tasks -> Nat]
    BY <1>14 DEF Commit, CommitRows
  <2>3. told' \subseteq Tasks
    BY <1>14 DEF Commit, Asked, Questions
  <2> QED
    BY <1>1, <1>2, <1>14, <2>1, <2>2, <2>3 DEF Commit, Close, Answer
<1>15. ASSUME NEW r \in Requests, TxTimeout(r) PROVE TypeOK'
  BY <1>1, <1>15 DEF TxTimeout, Close
<1>16. ASSUME NEW r \in Requests, Late(r) PROVE TypeOK'
  BY <1>2, <1>16 DEF Late, Answer
<1>17. ASSUME Crash PROVE TypeOK'
  BY <1>1, <1>2, <1>17 DEF Crash
<1>18. CASE UNCHANGED vars
  BY <1>18 DEF vars, requests
<1> QED
  BY <1>3, <1>4, <1>5, <1>6, <1>7, <1>9, <1>10, <1>12, <1>13, <1>14, <1>15,
     <1>16, <1>17, <1>18
  DEF Next, Contend, Proceed

(* Type correctness: every step keeps the shape of the tables, of the      *)
(* transactions and of the requests, which are what the guard let in.      *)
THEOREM TypeCorrect == Spec => []TypeOK
<1>1. Init => TypeOK /\ Asked
  BY TenantRequestsAssumption
  DEF Init, TypeOK, Asked, Inside, NoTx, NoReq, Rows, Kinds, Transactions, Questions,
      Phases, TS!Init, TS!NoRow
<1>2. TypeOK /\ Asked /\ [Next]_vars => TypeOK' /\ Asked'
  BY TypeStep, AskedStep
<1> QED
  BY <1>1, <1>2, PTL DEF Spec
-----------------------------------------------------------------------------
(* A transaction is one request's, runs under its organization, and leaves *)
(* nothing on its connection.                                              *)
Holding ==
    /\ \A r \in Requests :
          held[r] # None => store[r] = held[r] /\ tx[held[r]].org = req[r].org
    /\ \A r, s \in Requests : held[r] = held[s] /\ held[r] # None => r = s
    /\ \A c \in Conns : (\A r \in Requests : held[r] # c) => tx[c] = NoTx

(* The transaction of r, and the tasks it has written. *)
Work(r)    == tx[held[r]]
Written(r) == {t \in Tasks : Work(r).rows[t] # TS!NoRow}

(* A version of a task that a request of this organization writes. *)
Version(r, s) == [org |-> req[r].org, status |-> s]

(* The transaction of r holds what its phase says and no more: a new task  *)
(* that nobody has, or a new version of a live one of its organization.    *)
ContentOf(r) ==
    /\ pc[r] \in {"run", "count"} => Written(r) = {}
    /\ pc[r] \in {"audit", "commit"} =>
          \/ req[r].kind = "list" /\ Written(r) = {}
          \/ /\ req[r].kind = "create"
             /\ \E t \in Tasks : /\ Written(r) = {t}
                                 /\ Work(r).rows[t] = Version(r, "open")
                                 /\ row[t] = TS!NoRow
          \/ /\ req[r].kind \in Patches \cup {"delete"}
             /\ Written(r) = {req[r].task}
             /\ Work(r).rows[req[r].task] =
                   Version(r, IF req[r].kind = "delete" THEN "deleted" ELSE req[r].kind)
             /\ row[req[r].task].org = req[r].org
             /\ row[req[r].task].status \in Live
    /\ pc[r] \in Inside =>
          Work(r).audits = IF pc[r] = "commit" /\ req[r].kind = "delete"
                             THEN {<<req[r].org, req[r].task>>} ELSE {}

Content == \A r \in Requests : ContentOf(r)

(* A row lock: one transaction at a time has a new version of a task. *)
RowLocks ==
    \A r, s \in Requests :
        held[r] # None /\ held[s] # None /\ Written(r) \cap Written(s) # {} => r = s

(* A task that was ever committed keeps an organization, whose log counts  *)
(* its deletion once; a deletion that was answered happened.               *)
Recorded ==
    /\ \A t \in Tasks :
          row[t] # TS!NoRow => /\ row[t].org \in Orgs
                               /\ row[t].status \in Live \cup {"deleted"}
    /\ \A o \in Orgs, t \in Tasks :
          audit[<<o, t>>] = IF row[t] = [org |-> o, status |-> "deleted"] THEN 1 ELSE 0
    /\ \A t \in told : row[t].status = "deleted"

(* What a request was shown are tasks that its own organization has. *)
ShownOwn ==
    \A r \in Requests :
        /\ pc[r] \in {"idle", "queued"} => seen[r] = {}
        /\ \A t \in seen[r] : row[t] # TS!NoRow /\ row[t].org = req[r].org

RequestsInv ==
    TypeOK /\ Asked /\ Holding /\ Content /\ RowLocks /\ Recorded /\ ShownOwn

-----------------------------------------------------------------------------
(* Every step of a request, and every step gives or takes a connection     *)
(* cleanly.                                                                *)
StepOf(r) ==
    \/ \E o \in Orgs, k \in Kinds, t \in Tasks \cup {None} : Arrive(r, o, k, t)
    \/ Contend(r) \/ Proceed(r)
    \/ PoolTimeout(r) \/ Abort(r) \/ TxTimeout(r)

(* Whatever is open when a request ends its transaction: a connection is   *)
(* taken or given back clean, and the organization of a transaction stays. *)
LEMMA HoldingStep ==
    ASSUME TypeOK, Asked, Holding, [Next]_vars PROVE Holding'
<1> USE TenantRequestsAssumption DEF TypeOK, Asked, Holding, Inside, Goto
<1>1. ASSUME NEW r \in Requests, NEW c \in Conns, Begin(r, c) PROVE Holding'
  <2>1. tx'[c].org = req[r].org /\ \A d \in Conns \ {c} : tx'[d] = tx[d]
    BY <1>1 DEF Begin, Transactions
  <2>2. /\ held'[r] = c /\ store'[r] = c /\ req' = req
        /\ \A s \in Requests \ {r} : held'[s] = held[s] /\ store'[s] = store[s]
    BY <1>1 DEF Begin
  <2>3. \A s \in Requests : held[s] # c
    BY <1>1 DEF Begin
  <2>4. \A s \in Requests :
            held'[s] # None => store'[s] = held'[s] /\ tx'[held'[s]].org = req'[s].org
    BY <2>1, <2>2, <2>3
  <2>5. \A s, q \in Requests : held'[s] = held'[q] /\ held'[s] # None => s = q
    BY <2>2, <2>3
  <2>6. \A d \in Conns : (\A s \in Requests : held'[s] # d) => tx'[d] = NoTx
    <3> SUFFICES ASSUME NEW d \in Conns, \A s \in Requests : held'[s] # d
                 PROVE  tx'[d] = NoTx
      OBVIOUS
    <3>1. d # c
      BY <2>2
    <3>2. \A s \in Requests : held[s] # d
      BY <1>1, <2>2, <3>1 DEF Begin
    <3> QED
      BY <2>1, <3>1, <3>2
  <2> QED
    BY <2>4, <2>5, <2>6
<1>2. ASSUME NEW r \in Requests, held[r] # None, Close(r),
             \A s \in Requests \ {r} : store'[s] = store[s] /\ req'[s] = req[s]
      PROVE  Holding'
  <2>1. held'[r] = None /\ \A s \in Requests \ {r} : held'[s] = held[s]
    BY <1>2 DEF Close
  <2>2. held[r] \in Conns
    BY <1>2
  <2>3. tx'[held[r]] = NoTx /\ \A c \in Conns \ {held[r]} : tx'[c] = tx[c]
    BY <1>2, <2>2 DEF Close
  <2> QED
    BY <1>2, <2>1, <2>2, <2>3
<1>3. ASSUME NEW r \in Requests,
             \/ OutOfIds(r) \/ NotFound(r) \/ Commit(r) \/ Abort(r) \/ TxTimeout(r)
      PROVE  Holding'
  BY <1>2, <1>3 DEF OutOfIds, NotFound, Commit, Abort, TxTimeout, Answer
<1>4. ASSUME NEW r \in Requests, held[r] = None, UNCHANGED <<tx, held>>,
             \A s \in Requests \ {r} : store'[s] = store[s] /\ req'[s] = req[s]
      PROVE  Holding'
  BY <1>4
<1>5. ASSUME NEW r \in Requests,
             \/ PoolTimeout(r) \/ Late(r)
             \/ \E o \in Orgs, k \in Kinds, t \in Tasks \cup {None} : Arrive(r, o, k, t)
      PROVE  Holding'
  BY <1>4, <1>5 DEF PoolTimeout, Late, Arrive, Answer
<1>6. ASSUME NEW r \in Requests, held[r] # None,
             UNCHANGED <<held, store, req>>,
             \A c \in Conns : tx'[c].org = tx[c].org,
             \A c \in Conns \ {store[r]} : tx'[c] = tx[c]
      PROVE  Holding'
  BY <1>6
<1>7. ASSUME NEW r \in Requests,
             \/ \E t \in Tasks : Create(r, t)
             \/ Update(r) \/ Remove(r) \/ WriteAudit(r) \/ List(r)
      PROVE  Holding'
  <2>1. held[r] # None /\ UNCHANGED <<held, store, req>> /\ store[r] \in Conns
    BY <1>7 DEF Create, Update, Remove, WriteAudit, List
  <2>2. \A c \in Conns : tx'[c].org = tx[c].org
    <3>1. ASSUME NEW t, NEW v, tx' = [tx EXCEPT ![store[r]].rows[t] = v]
          PROVE  \A c \in Conns : tx'[c].org = tx[c].org
      BY <3>1 DEF Transactions
    <3>2. CASE WriteAudit(r)
      BY <3>2 DEF WriteAudit, Transactions
    <3>3. CASE List(r)
      BY <3>3 DEF List
    <3>4. ASSUME NEW t \in Tasks, Create(r, t)
          PROVE  \A c \in Conns : tx'[c].org = tx[c].org
      <4>1. tx' = [tx EXCEPT ![store[r]].rows[t] = [org |-> req[r].org, status |-> "open"]]
        BY <3>4 DEF Create
      <4> QED
        BY <3>1, <4>1
    <3>5. ASSUME NEW s, Write(r, s)
          PROVE  \A c \in Conns : tx'[c].org = tx[c].org
      BY <3>1, <3>5 DEF Write
    <3> QED
      BY <1>7, <3>2, <3>3, <3>4, <3>5 DEF Update, Remove
  <2>3. \A c \in Conns \ {store[r]} : tx'[c] = tx[c]
    BY <1>7, <2>1 DEF Create, Update, Remove, Write, WriteAudit, List
  <2> QED
    BY <1>6, <2>1, <2>2, <2>3
<1>8. ASSUME Crash PROVE Holding'
  BY <1>8 DEF Crash
<1>9. CASE UNCHANGED vars
  BY <1>9 DEF vars, requests
<1> QED
  BY <1>1, <1>3, <1>5, <1>7, <1>8, <1>9 DEF Next, Contend, Proceed

(* A request that a step leaves alone, with its transaction. *)
LeftAlone(s) ==
    /\ pc'[s] = pc[s] /\ req'[s] = req[s] /\ held'[s] = held[s] /\ seen'[s] = seen[s]
    /\ held[s] # None => tx'[held[s]] = tx[held[s]]

(* No request touches another or its transaction. *)
LEMMA OthersLeftAlone ==
    ASSUME TypeOK, Asked, Holding, NEW r \in Requests, StepOf(r),
           NEW s \in Requests \ {r}
    PROVE  LeftAlone(s)
<1> USE TenantRequestsAssumption DEF TypeOK, Asked, Holding, Inside, Goto
<1>1. pc'[s] = pc[s] /\ req'[s] = req[s] /\ seen'[s] = seen[s]
  BY DEF StepOf, Contend, Proceed, Arrive, Begin, PoolTimeout, List, Create, OutOfIds,
         Update, Remove, NotFound, WriteAudit, Commit, Abort, TxTimeout, Late,
         Close, Answer
<1>2. held'[s] = held[s]
  BY DEF StepOf, Contend, Proceed, Arrive, Begin, PoolTimeout, List, Create, OutOfIds,
         Update, Remove, NotFound, WriteAudit, Commit, Abort, TxTimeout, Late,
         Close, Answer
<1>3. ASSUME held[s] # None PROVE tx'[held[s]] = tx[held[s]]
  <2>1. held[s] \in Conns /\ held[s] # held[r]
    BY <1>3
  <2>2. CASE \E c \in Conns : Begin(r, c)
    BY <2>1, <2>2 DEF Begin
  <2>3. CASE tx' = tx
    BY <2>3
  <2>4. CASE Close(r)
    BY <2>1, <2>4 DEF Close
  <2>5. CASE held[r] # None /\ (\/ \E t \in Tasks : Create(r, t)
                                \/ Update(r) \/ Remove(r) \/ WriteAudit(r))
    BY <2>1, <2>5 DEF Create, Update, Remove, Write, WriteAudit
  <2> QED
    BY <2>2, <2>3, <2>4, <2>5
    DEF StepOf, Contend, Proceed, Arrive, PoolTimeout, List, Create, OutOfIds,
        Update, Remove, NotFound, WriteAudit, Commit, Abort, TxTimeout, Late
<1> QED
  BY <1>1, <1>2, <1>3 DEF LeftAlone

(* The first row a transaction writes is all that it has written. *)
LEMMA FirstRow ==
    ASSUME TypeOK, Asked, Holding, NEW r \in Requests, ContentOf(r), pc[r] = "run",
           NEW t \in Tasks, NEW s, s # "none",
           tx' = [tx EXCEPT ![store[r]].rows[t] = Version(r, s)],
           UNCHANGED <<req, held>>
    PROVE  /\ Written(r)' = {t}
           /\ Work(r)'.rows[t] = Version(r, s)
           /\ Work(r)'.audits = {}
<1>1. held[r] \in Conns /\ store[r] = held[r] /\ Written(r) = {} /\ Work(r).audits = {}
  BY DEF TypeOK, Asked, Holding, ContentOf, Inside
<1>2. Work(r) \in Transactions
  BY <1>1 DEF TypeOK, Work
<1>3. Work(r)' = [Work(r) EXCEPT !.rows = [Work(r).rows EXCEPT ![t] = Version(r, s)]]
  BY <1>1 DEF TypeOK, Work
<1>4. /\ Work(r)'.rows = [Work(r).rows EXCEPT ![t] = Version(r, s)]
      /\ Work(r)'.audits = {}
  BY <1>1, <1>2, <1>3 DEF Transactions
<1>5. /\ Work(r)'.rows[t] = Version(r, s)
      /\ \A u \in Tasks \ {t} : Work(r)'.rows[u] = TS!NoRow
  BY <1>1, <1>2, <1>4 DEF Transactions, Written
<1>6. Version(r, s) # TS!NoRow
  BY DEF Version, TS!NoRow
<1> QED
  BY <1>4, <1>5, <1>6 DEF Written

(* A request that is left alone keeps the content of its transaction, as   *)
(* long as the tasks that it has written are left alone too.               *)
LEMMA ContentKept ==
    ASSUME Asked, NEW s \in Requests, ContentOf(s), LeftAlone(s),
           held[s] # None => \A t \in Written(s) : row'[t] = row[t]
    PROVE  ContentOf(s)'
<1>1. CASE pc[s] \in Inside
  <2>1. held[s] # None
    BY <1>1 DEF Asked
  <2>2. Work(s)' = Work(s) /\ Written(s)' = Written(s)
    BY <2>1 DEF LeftAlone, Work, Written
  <2>3. pc'[s] = pc[s] /\ req'[s] = req[s]
    BY DEF LeftAlone
  <2>4. \A v : Version(s, v)' = Version(s, v)
    BY <2>3 DEF Version
  <2>5. \A t \in Written(s) : row'[t] = row[t]
    BY <2>1
  <2> QED
    BY <2>2, <2>3, <2>4, <2>5 DEF ContentOf
<1>2. CASE pc[s] \notin Inside
  BY <1>2 DEF ContentOf, LeftAlone, Inside
<1> QED
  BY <1>1, <1>2

(* What a request writes is free of any other transaction's versions. *)
LEMMA WritesFree ==
    ASSUME TypeOK, Asked, Holding, NEW r \in Requests, held[r] # None,
           NEW t \in Tasks, Unused(t) \/ ~Locked(t, store[r]),
           NEW s \in Requests \ {r}, held[s] # None
    PROVE  t \notin Written(s)
<1>1. store[r] = held[r] /\ held[s] \in Conns /\ held[s] # held[r]
  BY DEF TypeOK, Holding
<1> QED
  BY <1>1 DEF Unused, Locked, Written, Work

(* What the step of a request leaves in its own transaction. *)
LEMMA OwnContent ==
    ASSUME TypeOK, Asked, Holding, NEW r \in Requests, ContentOf(r), StepOf(r)
    PROVE  ContentOf(r)'
<1> USE TenantRequestsAssumption DEF Goto
<1>1. ASSUME pc'[r] \notin Inside PROVE ContentOf(r)'
  BY <1>1 DEF ContentOf, Inside
<1>2. ASSUME NEW c \in Conns, Begin(r, c) PROVE ContentOf(r)'
  <2>1. pc'[r] = "run" /\ held'[r] = c
    BY <1>2 DEF Begin, TypeOK
  <2>2. tx[c] = NoTx
    BY <1>2 DEF Begin, Holding
  <2>3. Work(r)'.rows = NoTx.rows /\ Work(r)'.audits = {}
    BY <1>2, <2>1, <2>2 DEF Begin, TypeOK, Work, NoTx
  <2> QED
    BY <2>1, <2>3 DEF ContentOf, Written, NoTx
<1>3. ASSUME List(r) PROVE ContentOf(r)'
  <2>1. pc'[r] = IF pc[r] = "run" THEN "count" ELSE "commit"
    BY <1>3 DEF List, TypeOK
  <2>2. Work(r)' = Work(r) /\ Written(r)' = Written(r) /\ req'[r].kind = "list"
    BY <1>3 DEF List, Work, Written
  <2>3. Written(r) = {} /\ Work(r).audits = {}
    BY <1>3 DEF List, ContentOf, Inside
  <2> QED
    BY <2>1, <2>2, <2>3 DEF ContentOf
<1>4. ASSUME NEW t \in Tasks, Create(r, t) PROVE ContentOf(r)'
  <2>1. /\ Written(r)' = {t}
        /\ Work(r)'.rows[t] = Version(r, "open")
        /\ Work(r)'.audits = {}
    BY <1>4, FirstRow DEF Create, Version
  <2>2. /\ pc'[r] = "commit" /\ req'[r] = req[r] /\ req[r].kind = "create"
        /\ row'[t] = TS!NoRow
    BY <1>4 DEF Create, TypeOK, tables, Unused
  <2> QED
    BY <2>1, <2>2 DEF ContentOf, Version
<1>5. ASSUME pc[r] = "run", NEW status \in Live \cup {"deleted"}, Write(r, status),
             UNCHANGED <<row, req, held>>
      PROVE  /\ Written(r)' = {req[r].task}
             /\ Work(r)'.rows[req[r].task] = Version(r, status)
             /\ Work(r)'.audits = {}
             /\ row'[req[r].task].org = req[r].org
             /\ row'[req[r].task].status \in Live
  <2>1. /\ req[r].task \in Tasks
        /\ row[req[r].task].org = tx[store[r]].org
        /\ row[req[r].task].status \in Live
    BY <1>5 DEF Write, Visible
  <2>2. tx[store[r]].org = req[r].org
    BY <1>5 DEF Asked, Holding, Inside
  <2>3. tx' = [tx EXCEPT ![store[r]].rows[req[r].task] = Version(r, status)]
    BY <1>5, <2>1, <2>2 DEF Write, Version
  <2>4. status # "none"
    BY DEF Live
  <2> QED
    BY <1>5, <2>1, <2>2, <2>3, <2>4, FirstRow
<1>6. ASSUME Update(r) PROVE ContentOf(r)'
  <2>1. /\ pc[r] = "run" /\ req[r].kind \in Patches /\ Write(r, req[r].kind)
        /\ UNCHANGED <<row, req, held>>
    BY <1>6 DEF Update, tables
  <2>2. pc'[r] = "commit"
    BY <1>6 DEF Update, TypeOK
  <2>3. req[r].kind \in Live /\ req[r].kind # "delete"
    BY <2>1 DEF Live
  <2> QED
    BY <1>5, <2>1, <2>2, <2>3 DEF ContentOf, Version
<1>7. ASSUME Remove(r) PROVE ContentOf(r)'
  <2>1. /\ pc[r] = "run" /\ req[r].kind = "delete" /\ Write(r, "deleted")
        /\ UNCHANGED <<row, req, held>>
    BY <1>7 DEF Remove, tables
  <2>2. pc'[r] = "audit"
    BY <1>7 DEF Remove, TypeOK
  <2> QED
    BY <1>5, <2>1, <2>2 DEF ContentOf, Version
<1>8. ASSUME WriteAudit(r) PROVE ContentOf(r)'
  <2>1. /\ pc[r] = "audit" /\ req[r].kind = "delete" /\ pc'[r] = "commit"
        /\ UNCHANGED <<row, req, held>>
    BY <1>8 DEF WriteAudit, Asked, TypeOK, tables
  <2>2. held[r] \in Conns /\ store[r] = held[r]
    BY <2>1 DEF TypeOK, Asked, Holding, Inside
  <2>3. Work(r)' = [Work(r) EXCEPT !.audits = @ \cup {<<req[r].org, req[r].task>>}]
    BY <1>8, <2>1, <2>2 DEF WriteAudit, TypeOK, Work
  <2>4. Work(r) \in Transactions /\ Work(r).audits = {}
    BY <2>1, <2>2 DEF TypeOK, Work, ContentOf, Inside
  <2>5. /\ Work(r)'.audits = {<<req[r].org, req[r].task>>}
        /\ Work(r)'.rows = Work(r).rows
    BY <2>3, <2>4 DEF Transactions
  <2>6. Written(r)' = Written(r)
    BY <2>5 DEF Written
  <2> QED
    BY <2>1, <2>5, <2>6 DEF ContentOf, Version
<1> QED
  BY <1>1, <1>2, <1>3, <1>4, <1>6, <1>7, <1>8
  DEF StepOf, Contend, Proceed, Arrive, PoolTimeout, OutOfIds, NotFound, Commit,
      Abort, TxTimeout, Late, Answer, TypeOK, Inside

-----------------------------------------------------------------------------
(* What a commit does to the tables: the one step that changes them, and   *)
(* the step of TaskStore that the request stands for.                      *)
LEMMA CommitMeans ==
    ASSUME TypeOK, Asked, Holding, Recorded, NEW r \in Requests, ContentOf(r),
           Commit(r)
    PROVE  /\ \A t \in Tasks \ Written(r) : row'[t] = row[t]
           /\ Recorded'
           /\ \A t \in Written(r) :
                 /\ row'[t] # TS!NoRow
                 /\ row[t] # TS!NoRow => row'[t].org = row[t].org
           /\ UNCHANGED tables \/ TS!Next
<1> USE TenantRequestsAssumption DEF TypeOK
<1>1. /\ pc[r] = "commit" /\ held[r] \in Conns
      /\ req[r].org \in Orgs /\ req[r].task \in Tasks \cup {None}
      /\ req[r].task = None <=> req[r].kind \in {"list", "create"}
  BY DEF Commit, Asked, Inside, Questions
<1>2. /\ row' \in [Tasks -> Rows]
      /\ \A t \in Tasks \ Written(r) : row'[t] = row[t]
      /\ \A t \in Written(r) : row'[t] = Work(r).rows[t]
  <2>1. row' = [t \in Tasks |-> IF tx[held[r]].rows[t] = TS!NoRow
                                  THEN row[t] ELSE tx[held[r]].rows[t]]
    BY DEF Commit, CommitRows
  <2>2. tx[held[r]].rows \in [Tasks -> Rows]
    BY <1>1 DEF Transactions
  <2> QED
    BY <2>1, <2>2 DEF Work, Written
<1>3. /\ audit' \in [Orgs \X Tasks -> Nat]
      /\ \A o \in Orgs, t \in Tasks :
            audit'[<<o, t>>] = IF <<o, t>> \in Work(r).audits
                                 THEN audit[<<o, t>>] + 1 ELSE audit[<<o, t>>]
  BY DEF Commit, CommitRows, Work
<1>4. told' = IF req[r].kind = "delete" THEN told \cup {req[r].task} ELSE told
  BY DEF Commit
<1>5. CASE req[r].kind = "list"
  <2>1. Written(r) = {} /\ Work(r).audits = {}
    BY <1>1, <1>5 DEF ContentOf, Inside
  <2>2. row' = row /\ audit' = audit /\ told' = told
    BY <1>2, <1>3, <1>4, <1>5, <2>1
  <2> QED
    BY <2>1, <2>2 DEF Recorded, tables
<1>6. CASE req[r].kind = "create"
  <2>1. PICK t \in Tasks : /\ Written(r) = {t}
                           /\ Work(r).rows[t] = Version(r, "open")
                           /\ row[t] = TS!NoRow
    BY <1>1, <1>6 DEF ContentOf
  <2>2. Work(r).audits = {}
    BY <1>1, <1>6 DEF ContentOf, Inside
  <2>3. row' = [row EXCEPT ![t] = [org |-> req[r].org, status |-> "open"]]
    BY <1>2, <2>1 DEF Version
  <2>4. audit' = audit /\ told' = told
    BY <1>3, <1>4, <1>6, <2>2
  <2>5. TS!Create(req[r].org, t)
    BY <2>1, <2>3, <2>4 DEF TS!Create
  <2>6. Recorded'
    BY <1>1, <2>1, <2>3, <2>4 DEF Recorded, Live, TS!NoRow
  <2> QED
    BY <1>1, <1>2, <2>1, <2>3, <2>5, <2>6 DEF TS!Next, TS!NoRow
<1>7. CASE req[r].kind \in Patches \cup {"delete"}
  <2> DEFINE t == req[r].task
             s == IF req[r].kind = "delete" THEN "deleted" ELSE req[r].kind
  <2>1. /\ Written(r) = {t} /\ Work(r).rows[t] = Version(r, s)
        /\ row[t].org = req[r].org /\ row[t].status \in Live
    BY <1>1, <1>7 DEF ContentOf
  <2>2. t \in Tasks /\ t # None
    BY <1>1, <1>7
  <2>3. row[t] \in [org : {req[r].org}, status : {"open", "done"}]
    BY <2>1, <2>2 DEF Rows, Live
  <2>4. row' = [row EXCEPT ![t].status = s]
    BY <1>2, <2>1, <2>2, <2>3 DEF Version
  <2>5. /\ row'[t] = [org |-> req[r].org, status |-> s]
        /\ \A u \in Tasks \ {t} : row'[u] = row[u]
    BY <1>2, <2>1, <2>2 DEF Version
  <2>6. CASE req[r].kind = "delete"
    <3>1. Work(r).audits = {<<req[r].org, t>>}
      BY <1>1, <2>6 DEF ContentOf, Inside
    <3>2. audit' = [audit EXCEPT ![<<req[r].org, t>>] = @ + 1]
      BY <1>1, <1>3, <2>2, <3>1
    <3>3. TS!Delete(req[r].org, t)
      BY <2>3, <2>4, <2>6, <3>2 DEF TS!Delete
    <3>4. audit[<<req[r].org, t>>] = 0
      BY <1>1, <2>2, <2>3 DEF Recorded
    <3>5. \A o \in Orgs, u \in Tasks :
             audit'[<<o, u>>] = IF row'[u] = [org |-> o, status |-> "deleted"]
                                  THEN 1 ELSE 0
      <4> TAKE o \in Orgs, u \in Tasks
      <4>1. CASE u = t /\ o = req[r].org
        BY <1>1, <1>3, <2>2, <2>5, <2>6, <3>1, <3>4, <4>1
      <4>2. CASE u = t /\ o # req[r].org
        BY <1>1, <1>3, <2>2, <2>3, <2>5, <3>1, <4>2 DEF Recorded
      <4>3. CASE u # t
        BY <1>3, <2>2, <2>5, <3>1, <4>3 DEF Recorded
      <4> QED
        BY <4>1, <4>2, <4>3
    <3>6. Recorded'
      BY <1>1, <1>4, <2>1, <2>2, <2>5, <2>6, <3>5 DEF Recorded
    <3> QED
      BY <1>1, <1>2, <2>1, <2>2, <2>3, <2>5, <3>3, <3>6 DEF TS!Next, TS!NoRow
  <2>7. CASE req[r].kind \in Patches /\ req[r].kind # "delete"
    <3>1. Work(r).audits = {}
      BY <1>1, <2>7 DEF ContentOf, Inside
    <3>2. audit' = audit /\ told' = told
      BY <1>3, <1>4, <2>7, <3>1
    <3>3. s \in {"open", "done"}
      BY <2>7
    <3>4. TS!SetDone(req[r].org, t, s)
      BY <2>3, <2>4, <3>2 DEF TS!SetDone
    <3>5. Recorded'
      BY <1>1, <2>1, <2>2, <2>3, <2>5, <3>2, <3>3 DEF Recorded, Live
    <3> QED
      BY <1>1, <1>2, <2>1, <2>2, <2>3, <2>5, <3>3, <3>4, <3>5 DEF TS!Next, TS!NoRow
  <2> QED
    BY <1>7, <2>6, <2>7
<1> QED
  BY <1>1, <1>5, <1>6, <1>7 DEF ContentOf

(* A commit changes nothing of another organization's: the transaction     *)
(* holds versions of the request's own tasks, and its own audit row.       *)
LEMMA CommitOwn ==
    ASSUME TypeOK, Asked, Holding, NEW r \in Requests, ContentOf(r), Commit(r)
    PROVE  ChangesOnly(req[r].org)
<1> USE TenantRequestsAssumption DEF TypeOK
<1>1. pc[r] = "commit" /\ held[r] \in Conns
  BY DEF Commit, Asked, Inside
<1>2. \A t \in Tasks : row'[t] = IF t \in Written(r) THEN Work(r).rows[t] ELSE row[t]
  BY DEF Commit, CommitRows, Work, Written
<1>3. \A o \in Orgs, t \in Tasks :
         audit'[<<o, t>>] # audit[<<o, t>>] => <<o, t>> \in Work(r).audits
  BY DEF Commit, CommitRows, Work
<1>4. \A t \in Written(r) :
         Work(r).rows[t].org = req[r].org /\ row[t].org \in {None, req[r].org}
  BY <1>1 DEF ContentOf, Version, TS!NoRow
<1>5. Work(r).audits \subseteq {<<req[r].org, req[r].task>>}
  BY <1>1 DEF ContentOf, Inside
<1> QED
  BY <1>2, <1>3, <1>4, <1>5 DEF ChangesOnly

(* No other step touches a table. *)
LEMMA OnlyCommits ==
    ASSUME NEW r \in Requests, StepOf(r), ~Commit(r)
    PROVE  UNCHANGED <<tables, told>>
BY DEF StepOf, Contend, Proceed, Arrive, Begin, PoolTimeout, List, Create, OutOfIds,
       Update, Remove, NotFound, WriteAudit, Abort, TxTimeout, Late

(* What r has written it has written before, or nobody else has. *)
LEMMA WritesLocked ==
    ASSUME TypeOK, Asked, Holding, Content, NEW r \in Requests, StepOf(r),
           NEW s \in Requests \ {r}, held[s] # None, held'[r] # None,
           NEW t \in Written(r)', t \in Written(s)
    PROVE  held[r] # None /\ t \in Written(r)
<1> USE TenantRequestsAssumption DEF TypeOK, Asked, Inside, Content
<1>1. ASSUME held[r] \in Conns, held' = held, NEW u \in Tasks, NEW v,
             tx' = [tx EXCEPT ![store[r]].rows[u] = v], Unused(u) \/ ~Locked(u, store[r])
      PROVE  held[r] # None /\ t \in Written(r)
  <2>1. t # u
    BY <1>1, WritesFree
  <2>2. store[r] = held[r] /\ Work(r) \in Transactions
    BY <1>1 DEF Holding, Work
  <2>3. Work(r)' = [Work(r) EXCEPT !.rows = [Work(r).rows EXCEPT ![u] = v]]
    BY <1>1, <2>2 DEF Work
  <2>4. Work(r)'.rows[t] = Work(r).rows[t]
    BY <2>1, <2>2, <2>3 DEF Transactions, Written
  <2> QED
    BY <1>1, <2>4 DEF Written
<1>2. CASE \E c \in Conns : Begin(r, c)
  <2>1. pc'[r] = "run" /\ ContentOf(r)'
    BY <1>2, OwnContent DEF Begin, Goto
  <2> QED
    BY <2>1 DEF ContentOf
<1>3. CASE List(r)
  BY <1>3 DEF List, Written, Work
<1>4. ASSUME NEW u \in Tasks, Create(r, u) PROVE held[r] # None /\ t \in Written(r)
  <2>1. tx' = [tx EXCEPT ![store[r]].rows[u] = [org |-> req[r].org, status |-> "open"]]
    BY <1>4 DEF Create
  <2> QED
    BY <1>1, <1>4, <2>1 DEF Create
<1>5. CASE Update(r) \/ Remove(r)
  <2>1. req[r].task \in Tasks /\ ~Locked(req[r].task, store[r]) /\ held' = held
    BY <1>5 DEF Update, Remove, Write, Visible
  <2>2. \E v : tx' = [tx EXCEPT ![store[r]].rows[req[r].task] = v]
    BY <1>5 DEF Update, Remove, Write
  <2>3. held[r] \in Conns
    BY <1>5 DEF Update, Remove
  <2> QED
    BY <1>1, <2>1, <2>2, <2>3
<1>6. CASE WriteAudit(r)
  <2>1. held[r] \in Conns /\ store[r] = held[r] /\ held' = held
    BY <1>6 DEF WriteAudit, Holding
  <2>2. Work(r)'.rows = Work(r).rows
    BY <1>6, <2>1 DEF WriteAudit, Work, Transactions
  <2> QED
    BY <2>1, <2>2 DEF Written
<1> QED
  BY <1>2, <1>3, <1>4, <1>5, <1>6
  DEF StepOf, Contend, Proceed, Arrive, PoolTimeout, OutOfIds, NotFound, Commit,
      Abort, TxTimeout, Late, Close

(* The organization of a task that has one does not change. *)
LEMMA OwnersStay ==
    ASSUME TypeOK, Asked, Holding, Recorded, NEW r \in Requests, ContentOf(r), StepOf(r),
           NEW t \in Tasks, row[t] # TS!NoRow
    PROVE  row'[t] # TS!NoRow /\ row'[t].org = row[t].org
<1>1. CASE Commit(r)
  BY <1>1, CommitMeans
<1>2. CASE ~Commit(r)
  BY <1>2, OnlyCommits DEF tables
<1> QED
  BY <1>1, <1>2

(* Every step of a request keeps what it was shown its own. *)
LEMMA ShownStep ==
    ASSUME RequestsInv, NEW r \in Requests, StepOf(r) PROVE ShownOwn'
<1> USE DEF RequestsInv
<1>1. ASSUME NEW s \in Requests \ {r}
      PROVE  /\ pc'[s] \in {"idle", "queued"} => seen'[s] = {}
             /\ \A t \in seen'[s] : row'[t] # TS!NoRow /\ row'[t].org = req'[s].org
  <2>1. LeftAlone(s)
    BY OthersLeftAlone
  <2>2. seen[s] \subseteq Tasks
    BY DEF TypeOK
  <2> QED
    BY <2>1, <2>2, OwnersStay DEF LeftAlone, ShownOwn, Content
<1>2. CASE List(r)
  <2>1. tx[store[r]].org = req[r].org /\ req[r].org \in Orgs
    BY <1>2 DEF List, TypeOK, Asked, Holding, Inside
  <2>2. \A t \in Visible(store[r]) : row[t] # TS!NoRow /\ row[t].org = req[r].org
    BY <2>1 DEF Visible, Live, TS!NoRow
  <2>3. /\ seen'[r] = seen[r] \cup Visible(store[r])
        /\ pc'[r] \notin {"idle", "queued"}
        /\ UNCHANGED <<row, req>>
    BY <1>2 DEF List, Goto, TypeOK, tables
  <2> QED
    BY <1>1, <2>2, <2>3 DEF ShownOwn
<1>3. CASE seen'[r] = {}
  BY <1>1, <1>3 DEF ShownOwn
<1>4. CASE /\ seen'[r] = seen[r] /\ req'[r] = req[r]
           /\ pc[r] \notin {"idle"} /\ pc'[r] \notin {"idle", "queued"}
  <2>1. seen[r] \subseteq Tasks
    BY DEF TypeOK
  <2> QED
    BY <1>1, <1>4, <2>1, OwnersStay DEF ShownOwn, Content
<1> QED
  BY <1>2, <1>3, <1>4
  DEF StepOf, Contend, Proceed, Arrive, Begin, PoolTimeout, Create, OutOfIds,
      Update, Remove, NotFound, WriteAudit, Commit, Abort, TxTimeout, Late,
      Goto, Answer, TypeOK, ShownOwn

-----------------------------------------------------------------------------
(* The step of one request keeps the invariant, and is a step of TaskStore *)
(* or none.                                                                *)
LEMMA RequestStep ==
    ASSUME RequestsInv, NEW r \in Requests, StepOf(r), TypeOK', Asked', Holding'
    PROVE  RequestsInv' /\ (UNCHANGED tables \/ TS!Next)
<1> USE DEF RequestsInv
<1>1. /\ Recorded' /\ (UNCHANGED tables \/ TS!Next)
      /\ \A t \in Tasks : (t \in Written(r) /\ Commit(r)) \/ row'[t] = row[t]
  <2>1. CASE Commit(r)
    BY <2>1, CommitMeans DEF Content
  <2>2. CASE ~Commit(r)
    BY <2>2, OnlyCommits DEF Recorded, tables
  <2> QED
    BY <2>1, <2>2
<1>2. Content'
  <2>1. ASSUME NEW s \in Requests \ {r} PROVE ContentOf(s)'
    <3>1. LeftAlone(s)
      BY OthersLeftAlone
    <3>2. Commit(r) => held[r] # None
      BY DEF Commit, Asked, Inside
    <3>3. ASSUME held[s] # None, NEW t \in Written(s) PROVE row'[t] = row[t]
      BY <1>1, <3>2, <3>3 DEF RowLocks, Written
    <3> QED
      BY <3>1, <3>3, ContentKept DEF Content
  <2>2. ContentOf(r)'
    BY OwnContent DEF Content
  <2> QED
    BY <2>1, <2>2 DEF Content
<1>3. RowLocks'
  <2>1. ASSUME NEW s \in Requests \ {r}, NEW t \in Tasks, t \in Written(r)',
               t \in Written(s)', held'[r] # None, held'[s] # None
        PROVE  FALSE
    <3>1. LeftAlone(s)
      BY OthersLeftAlone
    <3>2. held[s] # None /\ t \in Written(s)
      BY <2>1, <3>1 DEF LeftAlone, Written, Work
    <3>3. held[r] # None /\ t \in Written(r)
      BY <2>1, <3>2, WritesLocked
    <3> QED
      BY <3>2, <3>3 DEF RowLocks
  <2>2. ASSUME NEW s \in Requests \ {r}, NEW q \in Requests \ {r}, NEW t \in Tasks,
               t \in Written(q)', t \in Written(s)', held'[q] # None, held'[s] # None
        PROVE  q = s
    <3>1. LeftAlone(s) /\ LeftAlone(q)
      BY OthersLeftAlone
    <3>2. /\ held[s] # None /\ t \in Written(s)
          /\ held[q] # None /\ t \in Written(q)
      BY <2>2, <3>1 DEF LeftAlone, Written, Work
    <3> QED
      BY <3>2 DEF RowLocks
  <2>3. \A s \in Requests : Written(s)' \subseteq Tasks
    BY DEF Written
  <2> QED
    BY <2>1, <2>2, <2>3 DEF RowLocks
<1> QED
  BY <1>1, <1>2, <1>3, ShownStep

(* A crash rolls everything back. *)
LEMMA CrashStep ==
    ASSUME RequestsInv, Crash, TypeOK', Asked', Holding'
    PROVE  RequestsInv' /\ UNCHANGED tables
<1> USE DEF RequestsInv
<1>1. UNCHANGED <<tables, told>>
  BY DEF Crash
<1>2. \A r \in Requests : pc'[r] = "idle" /\ held'[r] = None /\ seen'[r] = {}
  BY DEF Crash
<1>3. Content' /\ RowLocks' /\ ShownOwn'
  BY <1>2 DEF Content, ContentOf, Inside, RowLocks, ShownOwn
<1> QED
  BY <1>1, <1>3 DEF Recorded, tables

(* Every step keeps the invariant, and is a step of TaskStore or none. *)
LEMMA RequestsStep ==
    ASSUME RequestsInv, [Next]_vars
    PROVE  RequestsInv' /\ [TS!Next]_tables
<1>1. TypeOK' /\ Asked' /\ Holding'
  BY TypeStep, AskedStep, HoldingStep DEF RequestsInv
<1>2. CASE \E r \in Requests : StepOf(r)
  BY <1>1, <1>2, RequestStep
<1>3. CASE Crash
  BY <1>1, <1>3, CrashStep
<1>4. CASE UNCHANGED vars
  <2>1. UNCHANGED tables
    BY <1>4 DEF vars
  <2>2. \A r \in Requests : LeftAlone(r)
    BY <1>4 DEF vars, requests, LeftAlone
  <2>3. Content'
    BY <2>1, <2>2, ContentKept DEF RequestsInv, Content, tables, Written
  <2>4. RowLocks'
    BY <1>4 DEF RequestsInv, vars, requests, RowLocks, Written, Work
  <2>5. ShownOwn' /\ Recorded'
    BY <1>4 DEF RequestsInv, vars, tables, requests, ShownOwn, Recorded
  <2> QED
    BY <1>1, <2>1, <2>3, <2>4, <2>5 DEF RequestsInv
<1> QED
  BY <1>2, <1>3, <1>4 DEF Next, StepOf

(* The invariant of everything below. *)
LEMMA RequestsInvariant == Spec => []RequestsInv
<1>1. Init => RequestsInv
  <2> SUFFICES ASSUME Init PROVE RequestsInv
    OBVIOUS
  <2>1. TypeOK /\ Asked /\ Holding
    BY TenantRequestsAssumption
    DEF Init, TypeOK, Asked, Holding, Inside, NoTx, NoReq, Rows, Kinds, Transactions,
        Questions, Phases, TS!Init, TS!NoRow
  <2>2. Content /\ RowLocks /\ ShownOwn
    BY DEF Init, Content, ContentOf, Inside, RowLocks, ShownOwn
  <2>3. Recorded
    BY DEF Init, Recorded, TS!Init, TS!NoRow
  <2> QED
    BY <2>1, <2>2, <2>3 DEF RequestsInv
<1>2. RequestsInv /\ [Next]_vars => RequestsInv'
  BY RequestsStep
<1> QED
  BY <1>1, <1>2, PTL DEF Spec

(* Tenant isolation: whatever runs at once, a request is shown tasks of    *)
(* its own organization only.                                              *)
THEOREM TenantsIsolated == Spec => []Isolation
<1>1. RequestsInv => Isolation
  BY DEF RequestsInv, ShownOwn, Isolation
<1> QED
  BY <1>1, RequestsInvariant, PTL

(* Tenant isolation of what is written: a step that changes a table is the *)
(* commit of a request, and changes only what its organization owns.       *)
THEOREM OnlyOwnersWrite == Spec => OwnWritesOnly
<1>1. RequestsInv /\ [Next]_vars => [OwnCommit]_tables
  <2> SUFFICES ASSUME RequestsInv, [Next]_vars, tables' # tables PROVE OwnCommit
    OBVIOUS
  <2>1. PICK r \in Requests : StepOf(r)
    BY DEF Next, StepOf, Crash, vars
  <2>2. Commit(r)
    BY <2>1, OnlyCommits DEF tables
  <2>3. pc[r] = "commit" /\ pc'[r] = "idle"
    BY <2>2 DEF Commit, Answer, Goto, RequestsInv, TypeOK
  <2>4. ChangesOnly(req[r].org)
    BY <2>2, CommitOwn DEF RequestsInv, Content
  <2> QED
    BY <2>3, <2>4 DEF OwnCommit
<1> QED
  BY <1>1, RequestsInvariant, PTL DEF Spec, OwnWritesOnly

(* The declaration of an organization ends with its transaction: on a      *)
(* connection that nobody holds there is none, and every task is hidden.   *)
THEOREM ContextEndsHolds == Spec => []ContextEnds
<1>1. RequestsInv => ContextEnds
  <2> SUFFICES ASSUME RequestsInv, NEW c \in Conns, \A r \in Requests : held[r] # c
               PROVE  tx[c] = NoTx /\ Visible(c) = {}
    BY DEF ContextEnds
  <2>1. tx[c] = NoTx
    BY DEF RequestsInv, Holding
  <2>2. tx[c].org = None
    BY <2>1 DEF NoTx
  <2>3. \A t \in Tasks : row[t].org = None => row[t].status \notin Live
    BY TenantRequestsAssumption DEF RequestsInv, Recorded, Live, TS!NoRow
  <2> QED
    BY <2>1, <2>2, <2>3 DEF Visible
<1> QED
  BY <1>1, RequestsInvariant, PTL

(* A deletion that was answered with 204 happened, and its organization's  *)
(* log says so exactly once.                                               *)
THEOREM DeletionsRecorded == Spec => []AnswersKept
<1>1. RequestsInv => AnswersKept
  <2> SUFFICES ASSUME RequestsInv, NEW t \in told
               PROVE  row[t].status = "deleted" /\ audit[<<row[t].org, t>>] = 1
    BY DEF AnswersKept
  <2>1. t \in Tasks /\ row[t].status = "deleted" /\ row[t] \in Rows
    BY DEF RequestsInv, TypeOK, Recorded
  <2>2. row[t].org \in Orgs
    BY <2>1 DEF RequestsInv, Recorded, TS!NoRow
  <2>3. row[t] = [org |-> row[t].org, status |-> "deleted"]
    BY <2>1 DEF Rows
  <2> QED
    BY <2>1, <2>2, <2>3 DEF RequestsInv, Recorded
<1> QED
  BY <1>1, RequestsInvariant, PTL

(* All requests on the tasks API together implement TaskStore: a task      *)
(* keeps its organization and is changed only while it is there, and       *)
(* deleting it and recording that are one step.                            *)
THEOREM ImplementsTaskStore == Spec => StoreSpec
<1>1. Init => TS!Init
  BY DEF Init
<1>2. RequestsInv /\ [Next]_vars => [TS!Next]_<<row, audit>>
  BY RequestsStep DEF tables
<1> QED
  BY <1>1, <1>2, RequestsInvariant, PTL DEF Spec, StoreSpec, TS!Spec
=============================================================================
