\* A leftover invitation keeps a demoted admin an admin.
SPECIFICATION Spec
CONSTANTS
    Users = {u1, u2}
    Ttl = 2
    SignDelay = 1
    RequestDelay = 1
    InviteRoles = {"admin"}
    MaxCopies = 3
SYMMETRY Symmetry
INVARIANT DemotedWithinWindow
