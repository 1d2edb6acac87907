SPECIFICATION Spec
CONSTANTS
    Names = {1, 2, 3}
    Outside = {3}
    Large = {2}
    Scopes = {{1}, {2}}
    SettleScans = 2
    SettleSeconds = 1
    DeletionScans = 2
    MaxEdits = 2
    MaxFaults = 1
INVARIANTS NoPartialIndexed HeldFilesProtected
PROPERTIES MoveHalvesTogether OneFaultNeverDeletes
CHECK_DEADLOCK FALSE
