SPECIFICATION FairSpec
CONSTANTS
    Threads <- MCThreads
    MaxBackoff = 1
    MaxChanges <- MCMaxChanges
    MaxFaults = 1
INVARIANTS OneRoundPerPair NoLostKick
PROPERTIES SlotsFreed ChangesSync
