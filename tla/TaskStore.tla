------------------------------- MODULE TaskStore -------------------------------
(* What the tasks API promises of its tables, whatever runs at once: a task *)
(* belongs to one organization for good, is changed only while it is there, *)
(* and deleting it and recording that in the log of its organization are    *)
(* one step.                                                                *)
EXTENDS Naturals

CONSTANTS Orgs, Tasks, None

VARIABLES
    row,    \* row[t]: the organization of task t and its status
    audit   \* audit[o, t]: how often o's log says that t was deleted

NoRow == [org |-> None, status |-> "none"]

Init ==
    /\ row   = [t \in Tasks |-> NoRow]
    /\ audit = [ot \in Orgs \X Tasks |-> 0]

Create(o, t) ==
    /\ row[t] = NoRow
    /\ row' = [row EXCEPT ![t] = [org |-> o, status |-> "open"]]
    /\ UNCHANGED audit

SetDone(o, t, status) ==
    /\ row[t] \in [org : {o}, status : {"open", "done"}]
    /\ row' = [row EXCEPT ![t].status = status]
    /\ UNCHANGED audit

Delete(o, t) ==
    /\ row[t] \in [org : {o}, status : {"open", "done"}]
    /\ row' = [row EXCEPT ![t].status = "deleted"]
    /\ audit' = [audit EXCEPT ![<<o, t>>] = @ + 1]

Next ==
    \E o \in Orgs, t \in Tasks :
        \/ Create(o, t)
        \/ \E status \in {"open", "done"} : SetDone(o, t, status)
        \/ Delete(o, t)

Spec == Init /\ [][Next]_<<row, audit>>
=============================================================================
