SPECIFICATION Spec
CONSTANTS
    Tag <- MCTag
    Void = {"img"}
    ClosedByStart <- MCClosedByStart
    EndedBy <- MCEndedBy
    Optional = {"p"}
    Allowed = {"div", "span", "p", "img"}
    CleanContent = {"template"}
    Offered <- MCOffered
    Commits = 3
    MaxDeploys = 4
    MaxRollbacks = 1
    KEEP = 2
    Calm = FALSE
CHECK_DEADLOCK FALSE
INVARIANT ReleaseIsItsCommit
