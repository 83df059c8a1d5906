\* Two emails, two requests in flight, two changes of the organization.
\* The user and the other admins may stop at any time: no deadlock check.
SPECIFICATION FairSpec
CONSTANTS
    Emails = 2
    Calls = {c1, c2}
    MaxChanges = 2
    MaxUses = 5
    None = None
CHECK_DEADLOCK FALSE
INVARIANTS
    TypeOK
    GuardHolds
    ShowsWhatIsAsked
PROPERTY BusyEnds
