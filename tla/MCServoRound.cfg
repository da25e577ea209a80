SPECIFICATION Spec
CONSTANTS
    v1 = v1
    v2 = v2
    v3 = v3
    v4 = v4
    p = p
    q = q
    r = r
    s = s
    NoStyle = NoStyle
    Variant = {v1, v2, v3, v4}
    Directories <- MCDirectories
    FileOrder <- MCFileOrder
    Id <- MCId
    BuilderOf <- MCBuilderOf
    Bland <- MCBland
    AxesOf <- MCAxesOf
    StyleOf <- MCStyleOf
    Distance <- MCDistance
    JudgeFamily = {p, q, s}
    MaxField = 3
    Unit = 4
    Weight = 3
    MaxRounds = 2
    MaxPicks = 1
    NameOf <- MCNameOf
    Asked = {1, 2, 3, 4, 5, 6, 7, 8}
    Resolution = 2
CHECK_DEADLOCK FALSE
INVARIANTS
    FieldIsEarned
    StandingsFollowPanel
    RankNotOverturned
    BriefsSpread
    PickIsOutdoneOnly
