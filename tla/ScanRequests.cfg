SPECIFICATION FairSpec
CONSTANTS
    Paths = {1}
    Cap = 1
    Resumers = {"resume1"}
    Lookers = {"look1"}
    MaxEdits = 1
    MaxPauses = 1
    MaxAsks = 1
INVARIANTS RequestsKept PathsKept
PROPERTIES RequestsRun ChangesScanned
CHECK_DEADLOCK FALSE
