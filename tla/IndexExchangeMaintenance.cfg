SPECIFICATION Spec
CONSTANTS
    Names = {f1, f2}
    Peers = {b}
    Operations = {"prune", "rebuild", "release", "putfail", "forget", "reload"}
    ChunkSize = 1
    MaxWrites = 2
    MaxGen = 2
    MaxSess = 2
    MaxDrops = 1
    MaxInFlight = 1
    MaxBurnt = 1
SYMMETRY Symmetry
PROPERTY MarkerAdvances
CHECK_DEADLOCK FALSE
