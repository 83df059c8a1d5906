------------------------------ MODULE RoleChange ------------------------------
(***************************************************************************)
(* PATCH /memberships/:id: MembershipsService.updateRole as it runs inside *)
(* the transaction of TenantInterceptor, followed by the audit row of      *)
(* AuditInterceptor, against one organization's memberships.               *)
(*                                                                         *)
(* Postgres runs the transaction at READ COMMITTED: every statement sees   *)
(* what is committed when it starts.  SELECT ... FOR UPDATE chooses its    *)
(* rows by that snapshot and then locks them one at a time; a row somebody *)
(* else holds is waited for, and is locked in its latest version even if   *)
(* it has stopped matching role = 'admin' in the meantime.  A row that     *)
(* starts to match after the snapshot is not locked at all.                *)
(***************************************************************************)

CONSTANTS
    Members,      \* users that are, or may come to be, in the organization
    Requests,     \* slots for role-change requests in flight at once
    WantedRoles,  \* the roles the requests ask for
    JoinRoles,    \* the roles the invitations being accepted carry
    None          \* no request, no member

Roles == {"admin", "member"}

ASSUME RoleChangeAssumption ==
    /\ WantedRoles \subseteq Roles
    /\ JoinRoles \subseteq Roles
    /\ None \notin Members
    /\ None \notin Requests

VARIABLES
    role,    \* role[m]: the committed role of m, "none" without a membership
    trail,   \* trail[m]: the role in m's last committed audit row, or "none"
    lock,    \* lock[m]: the request whose transaction holds m's row, or None
    pc,      \* pc[r]: the statement r's transaction runs next
    target,  \* target[r]: the :id of the request
    want,    \* want[r]: the role in its body, "none" when r is idle
    todo,    \* todo[r]: rows the FOR UPDATE has found and not locked yet
    seen,    \* seen[r]: the other admins r's count found
    overtaken \* history: has a waiting FOR UPDATE missed a new admin yet?

vars == <<role, trail, lock, pc, target, want, todo, seen, overtaken>>

(* Past the FOR UPDATE: what r reads next is meant to stay true. *)
Decided == {"count", "update", "audit", "commit"}
Phases  == {"idle", "lock"} \cup Decided

Admins == {m \in Members : role[m] = "admin"}
Held(r) == {m \in Members : lock[m] = r}

Init ==
    /\ role \in [Members -> Roles \cup {"none"}]
    /\ Admins # {}
    /\ trail  = [m \in Members |-> "none"]
    /\ lock   = [m \in Members |-> None]
    /\ pc     = [r \in Requests |-> "idle"]
    /\ target = [r \in Requests |-> None]
    /\ want   = [r \in Requests |-> "none"]
    /\ todo   = [r \in Requests |-> {}]
    /\ seen   = [r \in Requests |-> {}]
    /\ overtaken = FALSE

(* Faulty variant: the connection goes back to the pool mid-transaction. *)
Finish_KeepsRows(r) ==
    /\ pc'     = [pc EXCEPT ![r] = "idle"]
    /\ target' = [target EXCEPT ![r] = None]
    /\ want'   = [want EXCEPT ![r] = "none"]
    /\ todo'   = [todo EXCEPT ![r] = {}]
    /\ seen'   = [seen EXCEPT ![r] = {}]
    /\ UNCHANGED lock

-----------------------------------------------------------------------------
(* The end of r's transaction, committed or rolled back, frees its rows. *)
Finish(r) ==
    /\ lock'   = [m \in Members |-> IF lock[m] = r THEN None ELSE lock[m]]
    /\ pc'     = [pc EXCEPT ![r] = "idle"]
    /\ target' = [target EXCEPT ![r] = None]
    /\ want'   = [want EXCEPT ![r] = "none"]
    /\ todo'   = [todo EXCEPT ![r] = {}]
    /\ seen'   = [seen EXCEPT ![r] = {}]

Rollback(r) == Finish(r) /\ UNCHANGED <<role, trail, overtaken>>

(* A row r may take: nobody else's transaction holds it. *)
Free(m, r) == lock[m] \in {None, r}

(* Faulty variants: a SELECT without FOR UPDATE; a route without its :id. *)
LockAdmins_NoLock(r, m, w) ==
    /\ pc[r] = "idle"
    /\ pc'     = [pc EXCEPT ![r] = "lock"]
    /\ target' = [target EXCEPT ![r] = m]
    /\ want'   = [want EXCEPT ![r] = w]
    /\ UNCHANGED <<role, trail, lock, todo, seen, overtaken>>

LockAdmins_NoId(r, m, w) ==
    /\ pc[r] = "idle"
    /\ pc'     = [pc EXCEPT ![r] = "lock"]
    /\ want'   = [want EXCEPT ![r] = w]
    /\ todo'   = [todo EXCEPT ![r] = Admins]
    /\ UNCHANGED <<role, trail, lock, target, seen, overtaken>>

(* The transaction opens and the FOR UPDATE takes its snapshot. *)
LockAdmins(r, m, w) ==
    /\ pc[r] = "idle"
    /\ pc'     = [pc EXCEPT ![r] = "lock"]
    /\ target' = [target EXCEPT ![r] = m]
    /\ want'   = [want EXCEPT ![r] = w]
    /\ todo'   = [todo EXCEPT ![r] = Admins]
    /\ UNCHANGED <<role, trail, lock, seen, overtaken>>

(* The FOR UPDATE locks one more of the rows it found, in any order. *)
LockRow(r) ==
    /\ pc[r] = "lock"
    /\ \E m \in todo[r] :
          /\ Free(m, r)
          /\ lock' = [lock EXCEPT ![m] = r]
          /\ todo' = [todo EXCEPT ![r] = @ \ {m}]
    /\ UNCHANGED <<role, trail, pc, target, want, seen, overtaken>>

(* Faulty variant: the FOR UPDATE is not awaited. *)
ReadTarget_NotAwaited(r) ==
    /\ pc[r] = "lock"
    /\ role[target[r]] # "none"
    /\ pc' = [pc EXCEPT ![r] =
                 IF role[target[r]] = "admin" /\ want[r] = "member"
                 THEN "count" ELSE "update"]
    /\ UNCHANGED <<role, trail, lock, target, want, todo, seen, overtaken>>

(* findUnique finds the membership: only a demotion has to count. *)
ReadTarget(r) ==
    /\ pc[r] = "lock"
    /\ todo[r] = {}
    /\ role[target[r]] # "none"
    /\ pc' = [pc EXCEPT ![r] =
                 IF role[target[r]] = "admin" /\ want[r] = "member"
                 THEN "count" ELSE "update"]
    /\ UNCHANGED <<role, trail, lock, target, want, todo, seen, overtaken>>

(* findUnique finds nothing: 404. *)
NotFound(r) ==
    /\ pc[r] = "lock"
    /\ todo[r] = {}
    /\ role[target[r]] = "none"
    /\ Rollback(r)

(* Faulty variant: the count includes the target itself. *)
CountAdmins_WithTarget(r) ==
    /\ pc[r] = "count"
    /\ Admins # {}
    /\ seen' = [seen EXCEPT ![r] = Admins]
    /\ pc'   = [pc EXCEPT ![r] = "update"]
    /\ UNCHANGED <<role, trail, lock, target, want, todo, overtaken>>

(* The count finds another admin. *)
CountAdmins(r) ==
    /\ pc[r] = "count"
    /\ Admins \ {target[r]} # {}
    /\ seen' = [seen EXCEPT ![r] = Admins \ {target[r]}]
    /\ pc'   = [pc EXCEPT ![r] = "update"]
    /\ UNCHANGED <<role, trail, lock, target, want, todo, overtaken>>

(* The count finds none: 409, "Cannot remove the last admin". *)
LastAdmin(r) ==
    /\ pc[r] = "count"
    /\ Admins \ {target[r]} = {}
    /\ Rollback(r)

(* Faulty variant: the row is written whoever holds it. *)
UpdateRow_NoWait(r) ==
    /\ pc[r] = "update"
    /\ pc'   = [pc EXCEPT ![r] = "audit"]
    /\ UNCHANGED <<role, trail, lock, target, want, todo, seen, overtaken>>

(* UPDATE waits for the row and writes it; nobody else sees that yet. *)
UpdateRow(r) ==
    /\ pc[r] = "update"
    /\ Free(target[r], r)
    /\ lock' = [lock EXCEPT ![target[r]] = r]
    /\ pc'   = [pc EXCEPT ![r] = "audit"]
    /\ UNCHANGED <<role, trail, target, want, todo, seen, overtaken>>

(* Faulty variant: the audit row is written outside the transaction. *)
WriteAudit_Outside(r) ==
    /\ pc[r] = "audit"
    /\ pc'    = [pc EXCEPT ![r] = "commit"]
    /\ trail' = [trail EXCEPT ![target[r]] = want[r]]
    /\ UNCHANGED <<role, lock, target, want, todo, seen, overtaken>>

(* AuditInterceptor inserts its row through the same transaction. *)
WriteAudit(r) ==
    /\ pc[r] = "audit"
    /\ pc' = [pc EXCEPT ![r] = "commit"]
    /\ UNCHANGED <<role, trail, lock, target, want, todo, seen, overtaken>>

(* m becomes an admin while FOR UPDATEs wait that have not found m. *)
Promoted(m, w) ==
    overtaken' = \/ overtaken
                 \/ /\ w = "admin" /\ role[m] # "admin"
                    /\ \E q \in Requests : pc[q] = "lock"

(* COMMIT makes the new role and the audit row visible together. *)
Commit(r) ==
    /\ pc[r] = "commit"
    /\ role'  = [role EXCEPT ![target[r]] = want[r]]
    /\ trail' = [trail EXCEPT ![target[r]] = want[r]]
    /\ Promoted(target[r], want[r])
    /\ Finish(r)

(* Prisma's transaction timeout, a lost connection, a failed statement:   *)
(* the transaction may be rolled back anywhere before its commit.         *)
Abort(r) == pc[r] # "idle" /\ Rollback(r)

(* The rows r could go on with, and whether somebody else has all of them. *)
NeededRows(r) == IF pc[r] = "lock" THEN todo[r]
                 ELSE IF pc[r] = "update" THEN {target[r]} ELSE {}

Blocked(r) == /\ NeededRows(r) # {}
              /\ \A m \in NeededRows(r) : ~Free(m, r)

(* Requests that wait for rows of one another and for nobody else. *)
Deadlocked(r) ==
    \E D \in SUBSET Requests :
        /\ r \in D
        /\ \A q \in D : Blocked(q) /\ \A m \in NeededRows(q) : lock[m] \in D

(* Postgres' deadlock detector aborts one transaction of the cycle. *)
DeadlockVictim(r) == Deadlocked(r) /\ Rollback(r)

(* auth_accept_invitation inserts the membership of an invited user. *)
Join(m) ==
    /\ role[m] = "none"
    /\ \E w \in JoinRoles : /\ role' = [role EXCEPT ![m] = w]
                            /\ Promoted(m, w)
    /\ UNCHANGED <<trail, lock, pc, target, want, todo, seen>>

-----------------------------------------------------------------------------
(* What a request does once it is in flight, whatever the others do. *)
Proceed(r) ==
    \/ LockRow(r)   \/ ReadTarget(r) \/ NotFound(r)   \/ CountAdmins(r)
    \/ LastAdmin(r) \/ UpdateRow(r)  \/ WriteAudit(r) \/ Commit(r)

Next ==
    \/ \E r \in Requests :
          \/ \E m \in Members, w \in WantedRoles : LockAdmins(r, m, w)
          \/ Proceed(r)
          \/ Abort(r)
          \/ DeadlockVictim(r)
    \/ \E m \in Members : Join(m)

Spec == Init /\ [][Next]_vars

(* The event loop runs the request's next statement, Postgres hands a row  *)
(* that keeps being freed to each of its waiters in turn, and its deadlock *)
(* detector runs.  Nothing is assumed of Abort, LockAdmins and Join.       *)
Fairness ==
    \A r \in Requests : SF_vars(Proceed(r)) /\ WF_vars(DeadlockVictim(r))

FairSpec == Spec /\ Fairness

-----------------------------------------------------------------------------
TypeOK ==
    /\ role \in [Members -> Roles \cup {"none"}]
    /\ trail \in [Members -> Roles \cup {"none"}]
    /\ lock \in [Members -> Requests \cup {None}]
    /\ pc \in [Requests -> Phases]
    /\ target \in [Requests -> Members \cup {None}]
    /\ want \in [Requests -> Roles \cup {"none"}]
    /\ todo \in [Requests -> SUBSET Members]
    /\ seen \in [Requests -> SUBSET Members]
    /\ overtaken \in BOOLEAN
    /\ \A r \in Requests : pc[r] # "idle" => /\ target[r] \in Members
                                             /\ want[r] \in WantedRoles

(* The organization is never left without an admin. *)
HasAdmin == Admins # {}

(* ... which is so for as long as nobody becomes an admin while a role     *)
(* change waits in its FOR UPDATE, whatever else overlaps.                 *)
AdminKept == ~overtaken => HasAdmin

(* Under the same condition the role changes of one organization are       *)
(* serialized: no two requests are past their FOR UPDATE at once.          *)
Serialized ==
    ~overtaken => \A r, s \in Requests :
                      pc[r] \in Decided /\ pc[s] \in Decided => r = s

(* An admin that a request counted, and whose row it holds, is still an    *)
(* admin for as long as the request goes on: the count cannot go stale.    *)
CountedStay ==
    \A r \in Requests : seen[r] \cap Held(r) \subseteq Admins

(* The audit log agrees with the memberships: the last committed           *)
(* membership.role_changed row of a member names the role the member has.  *)
AuditAgrees ==
    \A m \in Members : trail[m] # "none" => trail[m] = role[m]

(* Every request is answered, deadlocks included. *)
EveryRequestEnds == \A r \in Requests : pc[r] # "idle" ~> pc[r] = "idle"

(* Readers of the memberships see whole role changes only, each decided on *)
(* the roles of the moment it becomes visible, until a FOR UPDATE has been *)
(* overtaken.                                                              *)
Roster == INSTANCE AdminRoster WITH role <- role
RosterSpec == Roster!Init /\ [][overtaken \/ Roster!Next]_role
=============================================================================
