SPECIFICATION FairSpec
CONSTANTS
    Threads = {t1, t2}
    GrinboxSlates = {g1, g2}
    KeybaseSlates = {k1, k2}
    Junk = {k2}
    NoInputs = {g2}
INVARIANTS TypeOK StoppedIsQuiet OneCallAtATime RecordedIsAnswered GrinboxSurvives
PROPERTIES LockServed StopReturnsUnlessStuck
CHECK_DEADLOCK FALSE
