\* Two refreshes race with one token.
SPECIFICATION Spec
CONSTANTS
    Users = {u}
    Tokens = {t1, t2, t3}
    Requests = {r1, r2}
    MaxLogins = 1
    None = None
SYMMETRY Symmetry
INVARIANT ExchangedOnce
