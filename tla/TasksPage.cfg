\* Two tasks on pages of one, two requests of the page in flight.
\* The user and the other members may stop at any time: no deadlock check.
SPECIFICATION FairSpec
CONSTANTS
    MaxTasks = 2
    MaxUses = 5
    PageSize = 1
    Titles = {"a", "b"}
    Filters = {"all", "open"}
    Calls = {c1, c2}
    None = None
CHECK_DEADLOCK FALSE
INVARIANTS
    TypeOK
    PagesCover
    LatestShown
PROPERTIES
    EditsKeepApart
    LoadingEnds
