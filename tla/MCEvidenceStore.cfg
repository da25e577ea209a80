SPECIFICATION Spec
CONSTANTS
    p1 = p1
    p2 = p2
    t1 = t1
    t2 = t2
    Proc = {p1, p2}
    Turn = {t1, t2}
    Inputs <- MCInputs
    Queries <- MCQueries
    MaxCalls = 2
    Fsync = TRUE
    NoRec = NoRec
    NoCounter = NoCounter
SYMMETRY ProcSymmetry
INVARIANTS
    UniqueSeq
    Readable
    OutcomeTruthful
PROPERTIES
    AppendOnly
    FragmentKept
    ImplementsLog
