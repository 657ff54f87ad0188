SPECIFICATION Spec
CONSTANTS
    Accounts = {"default"}
    Default = "default"
    OwnSlates = {s1, s2}
    ForeignSlates = {}
    CoinCount = 2
    ChangeCounts <- SomeChange
    ZeroConf = FALSE
    MaxEntries = 3
    MaxKeys = 4
SYMMETRY Symmetry
INVARIANTS PendingHasOpenEntry ConfirmedIsMined FinalizedIsKept MinedIsTracked SpentIsMined
PROPERTY EntryLifecycle
CHECK_DEADLOCK FALSE
