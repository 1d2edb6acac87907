SPECIFICATION FairSpec
CONSTANTS
    Names = {1}
    Passes = {1, 2}
    Operations = {"copy", "error", "update"}
    MaxEdits = 1
    MaxDeletes = 2
    MaxFaults = 1
    MaxWeeks = 1
    MaxOrders = 2
INVARIANT ManifestCurrent
PROPERTIES RecordedCopiesKept HoldDrains IndexDescribesTree
CHECK_DEADLOCK FALSE
