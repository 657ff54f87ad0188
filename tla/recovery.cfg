SPECIFICATION Spec
CONSTANTS
    s1 = s1
    s2 = s2
    p1 = p1
    p2 = p2
    NoSeed = NoSeed
    NoPassword = NoPassword
    Seeds <- MCSeeds
    Passwords <- MCPasswords
    UserLabels <- MCUserLabels
    Histories <- MCHistories
    MaxSeedFiles = 2
    MaxJobs = 2
    MaxPath = 2
    MaxKeys = 2
    MaxUses = 2
    MaxMade = 2
    MaxEntries = 2
INVARIANTS TypeOK SessionCanOpen DbIsOfSeed EntriesResolve RestoreIsComplete CheckIsComplete
SYMMETRY MCSymmetry
