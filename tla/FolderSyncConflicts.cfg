SPECIFICATION FairSpec
CONSTANTS
    Devices = {1, 2}
    Names = {1}
    Times = {1, 2}
    Preserve <- CopyAndArchive
    Operations = {"restart"}
    MaxEdits = 3
    MaxDrops = 1
INVARIANTS NoLostUpdate WinnersAgree
PROPERTIES VersionNeverRegresses Converges
CHECK_DEADLOCK FALSE
