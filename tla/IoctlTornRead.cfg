\* One process writes dev->name while another reads it.
CONSTANTS
    p1 = p1
    p2 = p2
    Procs <- TwoProcs
    NameSize = 4
    Chars <- SmallChars
    Counts <- SmallCounts
    Speeds = {0}
    Modes = {0}
    Values = {0}
SPECIFICATION Spec
INVARIANT ReadSeesStoredName
