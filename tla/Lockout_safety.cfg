SPECIFICATION FairSpec
CONSTANTS
    Request = {r1, r2, r3}
    Threshold = 2
    Duration = 2
    MaxLost = 2
INVARIANTS
    TypeOK
    NoFreshAttemptPassesLock
    GuessesBounded
    GuessesAccounted
PROPERTIES
    OnlyStaleEndsLock
    LockRunsOut
