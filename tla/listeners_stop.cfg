SPECIFICATION FairSpec
CONSTANTS
    Threads = {t1}
    GrinboxSlates = {g1}
    KeybaseSlates <- NoSlates
    Junk <- NoSlates
    NoInputs <- NoSlates
PROPERTY StopReturns
CHECK_DEADLOCK FALSE
