SPECIFICATION FairSpec
CONSTANTS
    Devices = {1, 2, 3}
    Self = 1
    Gated = {3}
    Operations = {"fallback", "recreate", "frames", "early", "unsaved"}
    MaxRestarts = 2
    MaxRemovals = 1
INVARIANT RenameNotUndone
PROPERTIES OwnersGiveUpFirst ReleaseEnds
CHECK_DEADLOCK FALSE
