\* Promotions, demotions and invitations of either role; no symmetry, for
\* liveness.
SPECIFICATION FairSpec
CONSTANTS
    Members = {a, b, c}
    Requests = {r1, r2}
    WantedRoles = {"admin", "member"}
    JoinRoles = {"admin", "member"}
    None = None
INVARIANTS
    TypeOK
    AdminKept
    Serialized
    CountedStay
    AuditAgrees
PROPERTIES
    EveryRequestEnds
    RosterSpec
