\* Promotions make the locks of a slow demotion stale.
SPECIFICATION Spec
CONSTANTS
    Members = {a, b, c}
    Requests = {r1, r2}
    WantedRoles = {"admin", "member"}
    JoinRoles = {"member"}
    None = None
SYMMETRY Symmetry
INVARIANT HasAdmin
