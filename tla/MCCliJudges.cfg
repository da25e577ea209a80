SPECIFICATION JSpec
CONSTANTS
    x = x
    y = y
    z = z
    c1 = c1
    c2 = c2
    c3 = c3
    c4 = c4
    Family = {x, y, z}
    Candidate = {c1, c2, c3, c4}
    NoBuilder = NoBuilder
    Roster <- MCRoster
    Transport <- MCTransport
    BuilderOf <- MCBuilderOf
    Pairs <- MCPairs
    PanelSize = 3
    MaxRounds = 2
    Invalid = {"broken", "named"}
    Telltale <- MCTelltale
CHECK_DEADLOCK FALSE
INVARIANTS
    VoteIsLastWord
    TimeoutIsFinal
    WinnerIsMajority
    NoSelfPreference
    FreshEyes
