SPECIFICATION FairBatchSpec
CONSTANTS
    FileCount = 2
    BlockCount = 4
    Concurrency = 2
    Window = 2
    MaxRun = 2
    Budget = 4
    Workers = 2
    Operations = {"fail", "pause", "silent"}
INVARIANTS CountedMeansWritten WireDrained AccountCoversOwed
PROPERTIES HeldBackByOthers BatchEnds
CHECK_DEADLOCK FALSE
