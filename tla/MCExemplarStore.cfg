SPECIFICATION Spec
CONSTANTS
    s = s
    r = r
    f1 = f1
    f2 = f2
    Saver = {s}
    Reader = {r}
    File = {f1, f2}
    Meta = Meta
    MaxSaves = 3
SYMMETRY FileSymmetry
INVARIANTS
    Whole
    PickKept
PROPERTIES
    SweepRestores
    ReadsAdvance
    ImplementsSlot
