SPECIFICATION Spec
CONSTANTS
    Devices = {1, 2}
    Names = {1, 2}
    Times = {1, 2}
    Preserve <- CopyAndArchive
    Operations = {"touch", "verify", "unscanned", "prune", "restart", "rebuild", "pause", "archivefail", "rename"}
    MaxEdits = 2
    MaxDrops = 1
INVARIANTS TypeOK MarkersMatchViews
CHECK_DEADLOCK FALSE
