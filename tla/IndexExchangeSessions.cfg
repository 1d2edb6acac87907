SPECIFICATION FairSpec
CONSTANTS
    Names = {f1, f2}
    Peers = {b}
    Operations = {"reopen", "rebuild"}
    ChunkSize = 1
    MaxWrites = 3
    MaxGen = 2
    MaxSess = 2
    MaxDrops = 1
    MaxInFlight = 1
    MaxBurnt = 0
INVARIANTS TypeOK DeltaBasisSound TruncatedViewFlagged
PROPERTY EventuallyCurrent
CHECK_DEADLOCK FALSE
