\* Two tabs, two requests, any user and network; no symmetry, for liveness.
SPECIFICATION FairSpec
CONSTANTS
    Tabs = {b1, b2}
    Calls = {c1, c2}
    MaxPairs = 2
INVARIANTS
    TypeOK
    NoStaleRefresh
    StaysLoggedOut
    LogoutLeavesNothing
PROPERTIES
    GivesUpDeadOnly
    EveryCallEnds
