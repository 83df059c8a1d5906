--------------------------- MODULE RoleChangeProofs ---------------------------
(***************************************************************************)
(* What RoleChange promises for any number of members and of requests in   *)
(* flight.  The rows a request has counted and holds stay admins; and for  *)
(* as long as nobody becomes an admin while a FOR UPDATE waits, role       *)
(* changes are serialized, the organization keeps an admin, and RoleChange *)
(* implements AdminRoster.                                                 *)
(***************************************************************************)
EXTENDS RoleChange, TLAPS

(* Type correctness: every step of updateRole keeps the shape of the state. *)
THEOREM TypeCorrect == Spec => []TypeOK
<1>1. Init => TypeOK
  BY RoleChangeAssumption DEF Init, TypeOK, Phases
<1>2. TypeOK /\ [Next]_vars => TypeOK'
  <2> SUFFICES ASSUME TypeOK, [Next]_vars PROVE TypeOK'
    OBVIOUS
  <2> USE RoleChangeAssumption DEF TypeOK, Phases, Decided, Roles
  <2>1. ASSUME NEW r \in Requests, NEW m \in Members, NEW w \in WantedRoles,
               LockAdmins(r, m, w)
        PROVE  TypeOK'
    BY <2>1 DEF LockAdmins, Admins
  <2>2. ASSUME NEW r \in Requests, LockRow(r) PROVE TypeOK'
    BY <2>2 DEF LockRow
  <2>3. ASSUME NEW r \in Requests, ReadTarget(r) PROVE TypeOK'
    BY <2>3 DEF ReadTarget
  <2>4. ASSUME NEW r \in Requests, Rollback(r) PROVE TypeOK'
    BY <2>4 DEF Rollback, Finish
  <2>5. ASSUME NEW r \in Requests, CountAdmins(r) PROVE TypeOK'
    BY <2>5 DEF CountAdmins, Admins
  <2>6. ASSUME NEW r \in Requests, UpdateRow(r) PROVE TypeOK'
    BY <2>6 DEF UpdateRow
  <2>7. ASSUME NEW r \in Requests, WriteAudit(r) PROVE TypeOK'
    BY <2>7 DEF WriteAudit
  <2>8. ASSUME NEW r \in Requests, Commit(r) PROVE TypeOK'
    BY <2>8 DEF Commit, Finish, Promoted
  <2>9. ASSUME NEW m \in Members, Join(m) PROVE TypeOK'
    BY <2>9 DEF Join, Promoted
  <2>10. CASE UNCHANGED vars
    BY <2>10 DEF vars
  <2> QED
    BY <2>1, <2>2, <2>3, <2>4, <2>5, <2>6, <2>7, <2>8, <2>9, <2>10
    DEF Next, Proceed, NotFound, LastAdmin, Abort, DeadlockVictim
<1> QED
  BY <1>1, <1>2, PTL DEF Spec
-----------------------------------------------------------------------------
(* A request has counted only once it is about to update, never counts its *)
(* own target, and holds its target's row from the update on.              *)
Bookkeeping ==
    \A r \in Requests :
        /\ pc[r] \notin {"update", "audit", "commit"} => seen[r] = {}
        /\ pc[r] # "idle" => target[r] \notin seen[r]
        /\ pc[r] \in {"audit", "commit"} => lock[target[r]] = r

(* Every step keeps Bookkeeping. *)
LEMMA BookkeepingStep ==
    ASSUME TypeOK, Bookkeeping, [Next]_vars
    PROVE  Bookkeeping'
<1> USE RoleChangeAssumption DEF TypeOK, Bookkeeping, Phases, Decided
<1>1. ASSUME NEW r \in Requests, NEW m \in Members, NEW w \in WantedRoles,
             LockAdmins(r, m, w)
      PROVE  Bookkeeping'
  BY <1>1 DEF LockAdmins
<1>2. ASSUME NEW r \in Requests, LockRow(r) PROVE Bookkeeping'
  BY <1>2 DEF LockRow, Free
<1>3. ASSUME NEW r \in Requests, ReadTarget(r) PROVE Bookkeeping'
  BY <1>3 DEF ReadTarget
<1>4. ASSUME NEW r \in Requests, Rollback(r) PROVE Bookkeeping'
  BY <1>4 DEF Rollback, Finish
<1>5. ASSUME NEW r \in Requests, CountAdmins(r) PROVE Bookkeeping'
  BY <1>5 DEF CountAdmins
<1>6. ASSUME NEW r \in Requests, UpdateRow(r) PROVE Bookkeeping'
  BY <1>6 DEF UpdateRow, Free
<1>7. ASSUME NEW r \in Requests, WriteAudit(r) PROVE Bookkeeping'
  BY <1>7 DEF WriteAudit
<1>8. ASSUME NEW r \in Requests, Commit(r) PROVE Bookkeeping'
  BY <1>8 DEF Commit, Finish
<1>9. ASSUME NEW m \in Members, Join(m) PROVE Bookkeeping'
  BY <1>9 DEF Join
<1>10. CASE UNCHANGED vars
  BY <1>10 DEF vars
<1> QED
  BY <1>1, <1>2, <1>3, <1>4, <1>5, <1>6, <1>7, <1>8, <1>9, <1>10
  DEF Next, Proceed, NotFound, LastAdmin, Abort, DeadlockVictim

(* While a row is held, its holder alone can change the role in it; this  *)
(* is what keeps a count made under locks true until the commit.          *)
LEMMA CountedStayStep ==
    ASSUME TypeOK, Bookkeeping, CountedStay, [Next]_vars
    PROVE  CountedStay'
<1> USE RoleChangeAssumption
    DEF TypeOK, Bookkeeping, CountedStay, Held, Admins, Phases, Decided
<1>1. ASSUME NEW r \in Requests, NEW m \in Members, NEW w \in WantedRoles,
             LockAdmins(r, m, w)
      PROVE  CountedStay'
  BY <1>1 DEF LockAdmins
<1>2. ASSUME NEW r \in Requests, LockRow(r) PROVE CountedStay'
  BY <1>2 DEF LockRow, Free
<1>3. ASSUME NEW r \in Requests, ReadTarget(r) PROVE CountedStay'
  BY <1>3 DEF ReadTarget
<1>4. ASSUME NEW r \in Requests, Rollback(r) PROVE CountedStay'
  BY <1>4 DEF Rollback, Finish
<1>5. ASSUME NEW r \in Requests, CountAdmins(r) PROVE CountedStay'
  BY <1>5 DEF CountAdmins
<1>6. ASSUME NEW r \in Requests, UpdateRow(r) PROVE CountedStay'
  BY <1>6 DEF UpdateRow, Free
<1>7. ASSUME NEW r \in Requests, WriteAudit(r) PROVE CountedStay'
  BY <1>7 DEF WriteAudit
<1>8. ASSUME NEW r \in Requests, Commit(r) PROVE CountedStay'
  <2>1. lock[target[r]] = r /\ target[r] \in Members
    BY <1>8 DEF Commit
  <2> SUFFICES ASSUME NEW s \in Requests, NEW m \in seen'[s], lock'[m] = s,
                      m \in Members
               PROVE  role'[m] = "admin"
    OBVIOUS
  <2>2. s # r
    BY <1>8 DEF Commit, Finish
  <2>3. m \in seen[s] /\ lock[m] = s
    BY <1>8, <2>2 DEF Commit, Finish
  <2>4. m # target[r]
    BY <2>1, <2>2, <2>3
  <2> QED
    BY <1>8, <2>3, <2>4 DEF Commit
<1>9. ASSUME NEW m \in Members, Join(m) PROVE CountedStay'
  BY <1>9 DEF Join
<1>10. CASE UNCHANGED vars
  BY <1>10 DEF vars
<1> QED
  BY <1>1, <1>2, <1>3, <1>4, <1>5, <1>6, <1>7, <1>8, <1>9, <1>10
  DEF Next, Proceed, NotFound, LastAdmin, Abort, DeadlockVictim

(* Any mix of requests: what updateRole counted under its locks is still   *)
(* so when it commits.                                                     *)
THEOREM CountsStayTrue == Spec => []CountedStay
<1>1. Init => Bookkeeping /\ CountedStay
  BY DEF Init, Bookkeeping, CountedStay
<1>2. TypeOK /\ Bookkeeping /\ CountedStay /\ [Next]_vars
        => Bookkeeping' /\ CountedStay'
  BY BookkeepingStep, CountedStayStep
<1> QED
  BY <1>1, <1>2, TypeCorrect, PTL DEF Spec
-----------------------------------------------------------------------------
(* A FOR UPDATE that waits has found every admin and has locked or will    *)
(* lock each of them.                                                      *)
AllAdminsFound ==
    \A r \in Requests : pc[r] = "lock" =>
        \A m \in Admins : lock[m] = r \/ m \in todo[r]

(* Past its FOR UPDATE a request holds an admin, until it commits. *)
HoldsAdmin ==
    \A r \in Requests : pc[r] \in Decided =>
        \E m \in Members : lock[m] = r /\ role[m] = "admin"

(* A request about to update found its membership; if it demotes an admin, *)
(* it has counted another one, who still is one.                           *)
Justified ==
    \A r \in Requests : pc[r] \in Decided =>
        /\ role[target[r]] # "none"
        /\ \A m \in seen[r] : role[m] = "admin"
        /\ pc[r] # "count" /\ role[target[r]] = "admin" /\ want[r] = "member"
              => seen[r] # {}

(* What holds until a waiting FOR UPDATE has been overtaken. *)
Calm == /\ HasAdmin
        /\ Serialized
        /\ AllAdminsFound
        /\ HoldsAdmin
        /\ Justified

CalmInv == ~overtaken => Calm

(* While a role change is past its FOR UPDATE, no other one can be: every  *)
(* admin found by the other is to be locked, and the first holds one.      *)
LEMMA OneDecides ==
    ASSUME TypeOK, Calm, ~overtaken, NEW r \in Requests, ReadTarget(r),
           NEW s \in Requests, pc[s] \in Decided
    PROVE  FALSE
<1>1. PICK m \in Members : lock[m] = s /\ role[m] = "admin"
  BY DEF Calm, HoldsAdmin
<1>2. lock[m] = r
  BY <1>1 DEF Calm, AllAdminsFound, ReadTarget, Admins
<1> QED
  BY <1>1, <1>2 DEF ReadTarget, Decided

(* A committed demotion leaves an admin: the one that was counted. *)
LEMMA CommitLeavesAdmin ==
    ASSUME TypeOK, Bookkeeping, Calm, ~overtaken,
           NEW r \in Requests, Commit(r)
    PROVE  HasAdmin'
<1> USE DEF TypeOK, Calm, Phases, Decided
<1>1. target[r] \in Members /\ want[r] \in Roles
  BY RoleChangeAssumption DEF Commit
<1>2. CASE want[r] = "admin"
  <2>1. role'[target[r]] = "admin"
    BY <1>1, <1>2 DEF Commit
  <2> QED
    BY <1>1, <2>1 DEF HasAdmin, Admins
<1>3. CASE want[r] = "member" /\ role[target[r]] = "admin"
  <2>1. PICK m \in seen[r] : role[m] = "admin"
    BY <1>3 DEF Commit, Justified
  <2>2. m \in Members /\ m # target[r]
    BY <2>1 DEF Bookkeeping, Commit
  <2>3. role'[m] = "admin"
    BY <2>1, <2>2 DEF Commit
  <2> QED
    BY <2>2, <2>3 DEF HasAdmin, Admins
<1>4. CASE role[target[r]] # "admin"
  <2>1. PICK m \in Members : role[m] = "admin"
    BY DEF HasAdmin, Admins
  <2>2. role'[m] = "admin"
    BY <1>1, <1>4, <2>1 DEF Commit
  <2> QED
    BY <2>1, <2>2 DEF HasAdmin, Admins
<1> QED
  BY <1>1, <1>2, <1>3, <1>4 DEF Roles

(* Every step keeps what holds until a FOR UPDATE is overtaken. *)
LEMMA CalmStep ==
    ASSUME TypeOK, Bookkeeping, CalmInv, [Next]_vars, TypeOK', Bookkeeping'
    PROVE  CalmInv'
<1> SUFFICES ASSUME ~overtaken' PROVE Calm'
  BY DEF CalmInv
<1>0. ~overtaken
  BY DEF vars, Next, Proceed, NotFound, LastAdmin, Abort, DeadlockVictim,
         Rollback, LockAdmins, LockRow, ReadTarget, CountAdmins, UpdateRow,
         WriteAudit, Commit, Join, Promoted
<1>a. Calm
  BY <1>0 DEF CalmInv
<1> USE RoleChangeAssumption, <1>0, <1>a
    DEF Calm, TypeOK, Bookkeeping, AllAdminsFound, HoldsAdmin, Justified,
        Serialized, HasAdmin, Admins, Phases, Decided
<1>1. ASSUME NEW r \in Requests, NEW m \in Members, NEW w \in WantedRoles,
             LockAdmins(r, m, w)
      PROVE  Calm'
  BY <1>1 DEF LockAdmins
<1>2. ASSUME NEW r \in Requests, LockRow(r) PROVE Calm'
  BY <1>2 DEF LockRow, Free
<1>3. ASSUME NEW r \in Requests, ReadTarget(r) PROVE Calm'
  <2>1. ASSUME NEW s \in Requests, pc[s] \in Decided PROVE FALSE
    BY <1>3, <2>1, OneDecides
  <2>2. \A s \in Requests : pc'[s] \in Decided => s = r
    BY <1>3, <2>1 DEF ReadTarget
  <2>3. \E m \in Members : lock[m] = r /\ role[m] = "admin"
    BY <1>3 DEF ReadTarget
  <2> QED
    BY <1>3, <2>2, <2>3 DEF ReadTarget
<1>4. ASSUME NEW r \in Requests, Rollback(r) PROVE Calm'
  BY <1>4 DEF Rollback, Finish
<1>5. ASSUME NEW r \in Requests, CountAdmins(r) PROVE Calm'
  BY <1>5 DEF CountAdmins
<1>6. ASSUME NEW r \in Requests, UpdateRow(r) PROVE Calm'
  BY <1>6 DEF UpdateRow, Free
<1>7. ASSUME NEW r \in Requests, WriteAudit(r) PROVE Calm'
  BY <1>7 DEF WriteAudit
<1>8. ASSUME NEW r \in Requests, Commit(r) PROVE Calm'
  <2>1. HasAdmin'
    BY <1>8, CommitLeavesAdmin
  <2>2. \A s \in Requests : pc'[s] \notin Decided
    BY <1>8 DEF Commit, Finish
  <2>3. target[r] \in Members
    BY <1>8 DEF Commit
  <2>4. AllAdminsFound'
    <3> SUFFICES ASSUME NEW s \in Requests, pc'[s] = "lock",
                        NEW m \in Members, role'[m] = "admin"
                 PROVE  lock'[m] = s \/ m \in todo'[s]
      OBVIOUS
    <3>1. s # r /\ pc[s] = "lock"
      BY <1>8 DEF Commit, Finish
    <3>2. role[m] = "admin"
      BY <1>8, <2>3, <3>1 DEF Commit, Promoted
    <3> QED
      BY <1>8, <3>1, <3>2 DEF Commit, Finish
  <2> QED
    BY <2>1, <2>2, <2>4
<1>9. ASSUME NEW m \in Members, Join(m) PROVE Calm'
  BY <1>9 DEF Join, Promoted
<1>10. CASE UNCHANGED vars
  BY <1>10 DEF vars
<1> QED
  BY <1>1, <1>2, <1>3, <1>4, <1>5, <1>6, <1>7, <1>8, <1>9, <1>10
  DEF Next, Proceed, NotFound, LastAdmin, Abort, DeadlockVictim

(* ... and so it holds of every reachable state. *)
LEMMA CalmInvariant == Spec => [](TypeOK /\ Bookkeeping /\ CalmInv)
<1>1. Init => Bookkeeping /\ CalmInv
  BY RoleChangeAssumption
  DEF Init, Bookkeeping, CalmInv, Calm, AllAdminsFound, HoldsAdmin, Justified,
      Serialized, HasAdmin, Phases, Decided
<1>2. TypeOK /\ Bookkeeping /\ CalmInv /\ [Next]_vars /\ TypeOK'
        => Bookkeeping' /\ CalmInv'
  BY BookkeepingStep, CalmStep
<1> QED
  BY <1>1, <1>2, TypeCorrect, PTL DEF Spec

(* Any number of role changes and acceptances at once: the organization    *)
(* keeps an admin until somebody becomes one while a FOR UPDATE waits.     *)
THEOREM AdminRemains == Spec => []AdminKept
<1>1. CalmInv => AdminKept
  BY DEF CalmInv, Calm, AdminKept
<1> QED
  BY <1>1, CalmInvariant, PTL

(* ... and until then at most one of them is past its FOR UPDATE. *)
THEOREM ChangesSerialized == Spec => []Serialized
<1>1. CalmInv => Serialized
  BY DEF CalmInv, Calm, Serialized
<1> QED
  BY <1>1, CalmInvariant, PTL

(* ... and until then RoleChange implements AdminRoster, a commit being    *)
(* the one step that readers see.                                          *)
THEOREM RosterImplemented == Spec => RosterSpec
<1>1. Init => Roster!Init
  BY DEF Init, Roster!Init, Roster!Admins, Admins, Roles
<1>2. TypeOK /\ Bookkeeping /\ CalmInv /\ [Next]_vars
        => [overtaken \/ Roster!Next]_role
  <2> SUFFICES ASSUME TypeOK, Bookkeeping, CalmInv, ~overtaken, [Next]_vars
               PROVE  [Roster!Next]_role
    OBVIOUS
  <2>0. Calm
    BY DEF CalmInv
  <2>1. ASSUME NEW r \in Requests, Commit(r) PROVE [Roster!Next]_role
    <3>1. /\ target[r] \in Members
          /\ want[r] \in {"admin", "member"}
          /\ role[target[r]] # "none"
          /\ role' = [role EXCEPT ![target[r]] = want[r]]
      BY <2>0, <2>1, RoleChangeAssumption
      DEF Commit, Calm, TypeOK, Justified, Decided, Roles
    <3>2. want[r] = "member" => Admins \ {target[r]} # {}
      <4>1. CASE role[target[r]] = "admin" /\ want[r] = "member"
        <5>1. PICK m \in seen[r] : role[m] = "admin"
          BY <2>0, <2>1, <4>1 DEF Commit, Calm, Justified, Decided
        <5> QED
          BY <2>1, <5>1 DEF Commit, TypeOK, Bookkeeping, Admins
      <4>2. CASE role[target[r]] # "admin"
        BY <2>0, <4>2 DEF Calm, HasAdmin, Admins
      <4> QED
        BY <4>1, <4>2
    <3>3. Roster!Change(target[r], want[r])
      BY <3>1, <3>2 DEF Roster!Change, Roster!Admins, Admins
    <3> QED
      BY <3>1, <3>3 DEF Roster!Next
  <2>2. ASSUME NEW m \in Members, Join(m) PROVE [Roster!Next]_role
    BY <2>2 DEF Join, Roster!Next, Roster!Join
  <2>3. ASSUME UNCHANGED role PROVE [Roster!Next]_role
    BY <2>3
  <2> QED
    BY <2>1, <2>2, <2>3
    DEF Next, Proceed, NotFound, LastAdmin, Abort, DeadlockVictim, Rollback,
        LockAdmins, LockRow, ReadTarget, CountAdmins, UpdateRow, WriteAudit, vars
<1> QED
  BY <1>1, <1>2, CalmInvariant, PTL DEF Spec, RosterSpec

(* The audit log agrees with the memberships: a role and the row that      *)
(* records it are committed together, and who joins has no row yet.        *)
THEOREM TrailAgrees == Spec => []AuditAgrees
<1>1. Init => AuditAgrees
  BY DEF Init, AuditAgrees
<1>2. TypeOK /\ AuditAgrees /\ [Next]_vars => AuditAgrees'
  <2> SUFFICES ASSUME TypeOK, AuditAgrees, [Next]_vars PROVE AuditAgrees'
    OBVIOUS
  <2> USE DEF TypeOK, AuditAgrees, Phases, Decided
  <2>1. ASSUME UNCHANGED <<role, trail>> PROVE AuditAgrees'
    BY <2>1
  <2>2. ASSUME NEW r \in Requests, Commit(r) PROVE AuditAgrees'
    BY <2>2 DEF Commit
  <2>3. ASSUME NEW m \in Members, Join(m) PROVE AuditAgrees'
    <3>1. trail[m] = "none" /\ trail' = trail
      BY <2>3 DEF Join
    <3>2. \A n \in Members \ {m} : role'[n] = role[n]
      BY <2>3 DEF Join
    <3> QED
      BY <3>1, <3>2
  <2> QED
    BY <2>1, <2>2, <2>3
    DEF Next, Proceed, LockAdmins, LockRow, ReadTarget, NotFound, CountAdmins, LastAdmin,
        UpdateRow, WriteAudit, Abort, DeadlockVictim, Rollback, vars
<1> QED
  BY <1>1, <1>2, TypeCorrect, PTL DEF Spec
=============================================================================
