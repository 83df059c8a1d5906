\* Any number of requests per invitation, two organizations.
SPECIFICATION Spec
CONSTANTS
    Orgs = {o, p}
    Emails = {a, b}
    Invites = {i1, i2}
    Requests = {r1, r2}
    InviteRoles = {"admin", "member"}
    WantedRoles = {"member"}
    None = None
SYMMETRY Symmetry
INVARIANTS
    TypeOK
    MembersEntitled
    SessionsOfMembers
