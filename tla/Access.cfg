\* Tokens that live two ticks, a tick to sign and a tick to answer; a downgrade,
\* a demotion and a leftover invitation all fit into three copies.
SPECIFICATION Spec
CONSTANTS
    Users = {u1, u2}
    Ttl = 2
    SignDelay = 1
    RequestDelay = 1
    InviteRoles = {"admin"}
    MaxCopies = 3
SYMMETRY Symmetry
INVARIANTS
    TypeOK
    AdminWindow
    ProWindow
