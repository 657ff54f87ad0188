SPECIFICATION Spec
CONSTANTS
    Accounts = {"default", "savings"}
    Default = "default"
    OwnSlates = {s1}
    ForeignSlates = {f1}
    CoinCount = 1
    ChangeCounts <- OneChange
    ZeroConf = FALSE
    MaxEntries = 2
    MaxKeys = 3
INVARIANTS TypeOK NoKeyReuse ConfirmedIsMined MinedIsTracked
CHECK_DEADLOCK FALSE
