\* Two organizations, two requests on two connections; no symmetry, for
\* liveness.
SPECIFICATION FairSpec
CONSTANTS
    Orgs = {o, p}
    Tasks = {t1, t2}
    Requests = {r1, r2}
    Conns = {c1, c2}
    Patches = {"done"}
    None = None
INVARIANTS
    TypeOK
    Isolation
    ContextEnds
    AnswersKept
PROPERTIES
    OwnWritesOnly
    StoreSpec
    EveryRequestEnds
