SPECIFICATION Spec
CONSTANTS
    a1 = a1
    a2 = a2
    NoKey = NoKey
    Accounts <- MCAccounts
    Maturity = 1
    Stale = 1
    MaxReorg = 1
    MaxHeight = 3
    MaxLosses = 1
    MaxKeys = 1
    MaxEntries = 1
    MaxSends = 1
INVARIANTS OldChainIsRefused
SYMMETRY MCSymmetry
