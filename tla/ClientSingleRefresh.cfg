\* Two requests fail with 401 at once.
SPECIFICATION Spec
CONSTANTS
    Tabs = {b1}
    Calls = {c1, c2}
    MaxPairs = 3
SYMMETRY Symmetry
INVARIANT SingleRefresh
