---------------------------- MODULE TenantRequests ----------------------------
(***************************************************************************)
(* Requests behind TenantGuard, on the example of the tasks API.           *)
(* TenantInterceptor runs each in one transaction on a connection of the   *)
(* pool, sets app.current_org for that transaction, and keeps its client   *)
(* in AsyncLocalStorage; TasksService never names an organization and      *)
(* leaves that to row-level security; AuditInterceptor adds its row inside *)
(* the same transaction; the answer is sent after the commit.              *)
(*                                                                         *)
(* A statement that meets a row another transaction has written waits for  *)
(* that transaction to end.  Prisma closes a transaction after five        *)
(* seconds and gives up waiting for a connection after two.                *)
(***************************************************************************)
EXTENDS Naturals

CONSTANTS
    Orgs,      \* organizations
    Tasks,     \* ids a task may get
    Requests,  \* slots for requests in flight at once
    Conns,     \* connections in Prisma's pool
    Patches,   \* what a PATCH may make of a task: "open", "done"
    None       \* no organization, no task, no connection

ASSUME TenantRequestsAssumption ==
    /\ None \notin Orgs \cup Tasks \cup Conns
    /\ Patches \subseteq {"open", "done"}

VARIABLES
    row,    \* committed tasks, as in TaskStore
    audit,  \* committed audit rows, as in TaskStore
    tx,     \* tx[c]: the transaction open on connection c
    pc,     \* pc[r]: what r does next
    req,    \* req[r]: the organization of its token, and what it asks for
    held,   \* held[r]: the connection of r's transaction
    store,  \* store[r]: the client getClient() returns to r
    seen,   \* seen[r]: tasks r was shown
    told    \* tasks whose deletion was answered with 204

tables   == <<row, audit>>
requests == <<pc, req, held, store, seen>>
vars     == <<tables, tx, requests, told>>

TS == INSTANCE TaskStore WITH row <- row, audit <- audit

Kinds == {"list", "create", "delete"} \cup Patches
Live  == {"open", "done"}
NoReq == [org |-> None, kind |-> "list", task |-> None]

(* current_setting('app.current_org'), uncommitted rows and audit rows.    *)
NoTx == [org |-> None, rows |-> [t \in Tasks |-> TS!NoRow], audits |-> {}]

Init ==
    /\ TS!Init
    /\ tx    = [c \in Conns |-> NoTx]
    /\ pc    = [r \in Requests |-> "idle"]
    /\ req   = [r \in Requests |-> NoReq]
    /\ held  = [r \in Requests |-> None]
    /\ store = [r \in Requests |-> None]
    /\ seen  = [r \in Requests |-> {}]
    /\ told  = {}

-----------------------------------------------------------------------------
(* tenant_isolation_tasks, USING: the rows a statement on c finds.         *)
Visible(c) == {t \in Tasks : row[t].org = tx[c].org /\ row[t].status \in Live}

(* Written and not committed on another connection. *)
Locked(t, c) == \E d \in Conns \ {c} : tx[d].rows[t] # TS!NoRow

(* Not committed, not rolled back and not used yet: a new uuid. *)
Unused(t) == row[t] = TS!NoRow /\ \A c \in Conns : tx[c].rows[t] = TS!NoRow

Goto(r, phase) == pc' = [pc EXCEPT ![r] = phase]

(* Faulty: set_config(..., false), for the session. *)
Close_KeepsSetting(r) ==
    /\ tx'    = [tx EXCEPT ![held[r]] = [NoTx EXCEPT !.org = tx[held[r]].org]]
    /\ held'  = [held EXCEPT ![r] = None]

(* The transaction is over and its connection back in the pool; set_config *)
(* was local to it.                                                        *)
Close(r) ==
    /\ tx'    = [tx EXCEPT ![held[r]] = NoTx]
    /\ held'  = [held EXCEPT ![r] = None]

(* The request is answered. *)
Answer(r) ==
    /\ Goto(r, "idle")
    /\ req'   = [req EXCEPT ![r] = NoReq]
    /\ store' = [store EXCEPT ![r] = None]
    /\ seen'  = [seen EXCEPT ![r] = {}]

-----------------------------------------------------------------------------
(* Faulty: a request without an organization gets past the guard. *)
Arrive_NoTenant(r, o, k, t) ==
    /\ pc[r] = "idle"
    /\ t = None <=> k \in {"list", "create"}
    /\ Goto(r, "queued")
    /\ req' = [req EXCEPT ![r] = [kind |-> k, task |-> t]]
    /\ UNCHANGED <<tables, tx, held, store, seen, told>>

(* A request with a valid token for o; for an id it was shown or made up.  *)
Arrive(r, o, k, t) ==
    /\ pc[r] = "idle"
    /\ t = None <=> k \in {"list", "create"}
    /\ Goto(r, "queued")
    /\ req' = [req EXCEPT ![r] = [org |-> o, kind |-> k, task |-> t]]
    /\ UNCHANGED <<tables, tx, held, store, seen, told>>

(* Faulty: one client for the whole service, not one per request. *)
Begin_SharedClient(r, c) ==
    /\ pc[r] = "queued"
    /\ \A s \in Requests : held[s] # c
    /\ tx'    = [tx EXCEPT ![c].org = req[r].org]
    /\ held'  = [held EXCEPT ![r] = c]
    /\ store' = [s \in Requests |-> c]
    /\ Goto(r, "run")
    /\ UNCHANGED <<tables, req, seen, told>>

(* prisma.$transaction takes a connection; set_config; runWithClient.      *)
Begin(r, c) ==
    /\ pc[r] = "queued"
    /\ \A s \in Requests : held[s] # c
    /\ tx'    = [tx EXCEPT ![c].org = req[r].org]
    /\ held'  = [held EXCEPT ![r] = c]
    /\ store' = [store EXCEPT ![r] = c]
    /\ Goto(r, "run")
    /\ UNCHANGED <<tables, req, seen, told>>

(* No connection within maxWait: 500. *)
PoolTimeout(r) ==
    /\ pc[r] = "queued"
    /\ Answer(r)
    /\ UNCHANGED <<tables, tx, held, told>>

(* TasksService.findAll: the page, then the count, each with the rows that *)
(* are visible at its own time.                                            *)
List(r) ==
    /\ pc[r] \in {"run", "count"}
    /\ req[r].kind = "list"
    /\ seen' = [seen EXCEPT ![r] = @ \cup Visible(store[r])]
    /\ Goto(r, IF pc[r] = "run" THEN "count" ELSE "commit")
    /\ UNCHANGED <<tables, tx, req, held, store, told>>

(* TasksService.create: the row names the organization of the token, and   *)
(* WITH CHECK refuses any but the transaction's.                           *)
Create(r, t) ==
    LET c == store[r]
    IN  /\ pc[r] = "run"
        /\ req[r].kind = "create"
        /\ Unused(t)
        /\ tx[c].org = req[r].org
        /\ tx' = [tx EXCEPT ![c].rows[t] = [org |-> req[r].org, status |-> "open"]]
        /\ Goto(r, "commit")
        /\ UNCHANGED <<tables, req, held, store, seen, told>>

(* The ids of the model have run out. *)
OutOfIds(r) ==
    /\ pc[r] = "run"
    /\ req[r].kind = "create"
    /\ \A t \in Tasks : ~Unused(t)
    /\ Close(r)
    /\ Answer(r)
    /\ UNCHANGED <<tables, told>>

(* Faulty: an UPDATE by id under a role that bypasses row-level security. *)
Write_AnyTenant(r, status) ==
    LET c == store[r]
        t == req[r].task
    IN  /\ row[t].status \in Live
        /\ ~Locked(t, c)
        /\ tx' = [tx EXCEPT ![c].rows[t] = [org |-> row[t].org, status |-> status]]

(* Faulty: the row was looked up before the wait. *)
Write_Unlocked(r, status) ==
    LET c == store[r]
        t == req[r].task
    IN  /\ t \in Visible(c)
        /\ tx' = [tx EXCEPT ![c].rows[t] = [org |-> row[t].org, status |-> status]]

(* TasksService.update and remove, on a row that is visible and free: the  *)
(* row keeps its organization.                                             *)
Write(r, status) ==
    LET c == store[r]
        t == req[r].task
    IN  /\ t \in Visible(c)
        /\ ~Locked(t, c)
        /\ tx' = [tx EXCEPT ![c].rows[t] = [org |-> row[t].org, status |-> status]]

Update(r) ==
    /\ pc[r] = "run"
    /\ req[r].kind \in Patches
    /\ Write(r, req[r].kind)
    /\ Goto(r, "commit")
    /\ UNCHANGED <<tables, req, held, store, seen, told>>

Remove(r) ==
    /\ pc[r] = "run"
    /\ req[r].kind = "delete"
    /\ Write(r, "deleted")
    /\ Goto(r, "audit")
    /\ UNCHANGED <<tables, req, held, store, seen, told>>

(* Faulty: the error is answered and the transaction left open. *)
NotFound_LeftOpen(r) ==
    /\ pc[r] = "run"
    /\ req[r].task # None
    /\ req[r].task \notin Visible(store[r])
    /\ Answer(r)
    /\ UNCHANGED <<tables, tx, held, told>>

(* P2025, no row matches: 404, and the transaction is rolled back.         *)
NotFound(r) ==
    /\ pc[r] = "run"
    /\ req[r].task # None
    /\ req[r].task \notin Visible(store[r])
    /\ Close(r)
    /\ Answer(r)
    /\ UNCHANGED <<tables, told>>

(* Faulty: tap, which nobody awaits, instead of concatMap. *)
WriteAudit_NotAwaited(r) ==
    /\ pc[r] = "audit"
    /\ Goto(r, "commit")
    /\ UNCHANGED <<tables, tx, req, held, store, seen, told>>

(* AuditInterceptor: audit_log has the same WITH CHECK.                    *)
WriteAudit(r) ==
    LET c == store[r]
    IN  /\ pc[r] = "audit"
        /\ tx[c].org = req[r].org
        /\ tx' = [tx EXCEPT ![c].audits = @ \cup {<<req[r].org, req[r].task>>}]
        /\ Goto(r, "commit")
        /\ UNCHANGED <<tables, req, held, store, seen, told>>

(* COMMIT of the transaction on c. *)
CommitRows(c) ==
    /\ row' = [t \in Tasks |-> IF tx[c].rows[t] = TS!NoRow THEN row[t]
                                                         ELSE tx[c].rows[t]]
    /\ audit' = [ot \in Orgs \X Tasks |->
                   IF ot \in tx[c].audits THEN audit[ot] + 1 ELSE audit[ot]]

Commit(r) ==
    /\ pc[r] = "commit"
    /\ CommitRows(held[r])
    /\ told' = IF req[r].kind = "delete" THEN told \cup {req[r].task} ELSE told
    /\ Close(r)
    /\ Answer(r)

(* A statement or the commit fails: everything is rolled back, 500.        *)
Abort(r) ==
    /\ held[r] # None
    /\ Close(r)
    /\ Answer(r)
    /\ UNCHANGED <<tables, told>>

(* The transaction times out while the handler still runs.                 *)
TxTimeout(r) ==
    /\ held[r] # None
    /\ Close(r)
    /\ Goto(r, "late")
    /\ UNCHANGED <<tables, req, store, seen, told>>

(* Whatever the handler does next finds its transaction closed: 500.       *)
Late(r) ==
    /\ pc[r] = "late"
    /\ Answer(r)
    /\ UNCHANGED <<tables, tx, held, told>>

(* The process dies: PostgreSQL rolls its transactions back.               *)
Crash ==
    /\ \E r \in Requests : pc[r] # "idle"
    /\ tx'    = [c \in Conns |-> NoTx]
    /\ pc'    = [r \in Requests |-> "idle"]
    /\ req'   = [r \in Requests |-> NoReq]
    /\ held'  = [r \in Requests |-> None]
    /\ store' = [r \in Requests |-> None]
    /\ seen'  = [r \in Requests |-> {}]
    /\ UNCHANGED <<tables, told>>

(* Taking a connection, or a lock that others want too. *)
Contend(r) ==
    \/ \E c \in Conns : Begin(r, c)
    \/ Update(r)
    \/ Remove(r)

Proceed(r) ==
    \/ List(r) \/ (\E t \in Tasks : Create(r, t)) \/ OutOfIds(r)
    \/ NotFound(r) \/ WriteAudit(r) \/ Commit(r) \/ Late(r)

Next ==
    \/ \E r \in Requests :
          \/ \E o \in Orgs, k \in Kinds, t \in Tasks \cup {None} : Arrive(r, o, k, t)
          \/ Contend(r)
          \/ Proceed(r)
          \/ PoolTimeout(r) \/ Abort(r) \/ TxTimeout(r)
    \/ Crash

Spec == Init /\ [][Next]_vars

(* Handlers run on; Prisma's pool and PostgreSQL's locks are given out in  *)
(* the order they were asked for, so that nobody is passed over for ever.  *)
(* No timeout is needed for what FairSpec promises.                        *)
FairSpec == Spec /\ \A r \in Requests : WF_vars(Proceed(r)) /\ SF_vars(Contend(r))

-----------------------------------------------------------------------------
Rows == [org : Orgs \cup {None}, status : {"none", "deleted"} \cup Live]

Transactions == [org : Orgs \cup {None}, rows : [Tasks -> Rows],
                 audits : SUBSET (Orgs \X Tasks)]

Phases    == {"idle", "queued", "run", "count", "audit", "commit", "late"}
Questions == [org : Orgs \cup {None}, kind : Kinds, task : Tasks \cup {None}]

TypeOK ==
    /\ row \in [Tasks -> Rows]
    /\ audit \in [Orgs \X Tasks -> Nat]
    /\ tx \in [Conns -> Transactions]
    /\ pc \in [Requests -> Phases]
    /\ req \in [Requests -> Questions]
    /\ held \in [Requests -> Conns \cup {None}]
    /\ store \in [Requests -> Conns \cup {None}]
    /\ seen \in [Requests -> SUBSET Tasks]
    /\ told \subseteq Tasks

(* Tenant isolation: a request is shown tasks of its own organization only, *)
(* although no query names one.                                            *)
Isolation == \A r \in Requests : \A t \in seen[r] : row[t].org = req[r].org

(* Tenant isolation of what is written: a step changes tasks, and audit    *)
(* rows, of one organization only, that of the token of a request that     *)
(* commits in this step.  UPDATE and DELETE name an id and no organization, *)
(* and rows are changed long after they were chosen.                       *)
ChangesOnly(o) ==
    /\ \A t \in Tasks : row'[t] # row[t] =>
          row'[t].org = o /\ row[t].org \in {None, o}
    /\ \A p \in Orgs, t \in Tasks : audit'[<<p, t>>] # audit[<<p, t>>] => p = o

OwnCommit ==
    \E r \in Requests : pc[r] = "commit" /\ pc'[r] = "idle" /\ ChangesOnly(req[r].org)

OwnWritesOnly == [][OwnCommit]_tables

(* "that declaration cannot outlive the transaction or leak to another     *)
(* concurrent request": a connection that nobody holds, and that a public  *)
(* route may use next, declares no organization and hides every task.      *)
ContextEnds ==
    \A c \in Conns :
        (\A r \in Requests : held[r] # c) => tx[c] = NoTx /\ Visible(c) = {}

(* What was answered is true: a task whose deletion was answered with 204  *)
(* is deleted, and its organization's log says so exactly once.            *)
AnswersKept ==
    \A t \in told : row[t].status = "deleted" /\ audit[<<row[t].org, t>>] = 1

(* Requests on the tasks API add up to TaskStore: each is one step or none, *)
(* a deleted task stays deleted, and a deletion is never without its audit *)
(* row, once, in the log of the organization that had the task.  Whose     *)
(* request a step is, OwnWritesOnly says.                                  *)
StoreSpec == TS!Spec

(* Every request is answered, however many wait for a connection or a row. *)
EveryRequestEnds == \A r \in Requests : pc[r] # "idle" ~> pc[r] = "idle"
=============================================================================
