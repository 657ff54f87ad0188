SPECIFICATION Spec
CONSTANTS
    Values <- MCValues
    MaxCoins = 4
    Amounts <- MCAmounts
    SoftLimits <- MCSoftLimits
    ChangeCounts <- MCChangeCounts
INVARIANTS NeverUnderpays BuiltBalances FeePassesCheck RefusalIsJust
PROPERTY Terminates
CHECK_DEADLOCK FALSE
