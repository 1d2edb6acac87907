SPECIFICATION FairSpec
CONSTANTS
    Devices = {1, 2}
    Names = {1, 2}
    Times = {1}
    Preserve <- CopyAndArchive
    Operations = {"seed", "rename"}
    MaxEdits = 3
    MaxDrops = 0
INVARIANTS VersionIdentifiesContent UploadsArePulled
PROPERTY Converges
CHECK_DEADLOCK FALSE
