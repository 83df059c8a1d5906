\* Racing and well-behaved clients together.
SPECIFICATION Spec
CONSTANTS
    Users = {u}
    Tokens = {t1, t2, t3, t4, t5}
    Requests = {r1, r2}
    MaxLogins = 2
    None = None
SYMMETRY Symmetry
INVARIANTS
    TypeOK
    UnracedExchangedOnce
    LogoutEnds
    LoginsAudited
PROPERTY ChainSpec
