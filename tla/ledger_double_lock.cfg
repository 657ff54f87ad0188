SPECIFICATION Spec
CONSTANTS
    Accounts = {"default"}
    Default = "default"
    OwnSlates = {s1, s2}
    ForeignSlates = {}
    CoinCount = 1
    ChangeCounts <- OneChange
    ZeroConf = FALSE
    MaxEntries = 3
    MaxKeys = 4
INVARIANT ExclusiveInputs
CHECK_DEADLOCK FALSE
