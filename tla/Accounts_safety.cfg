SPECIFICATION FairSpec
CONSTANTS
    Family = {f1, f2}
    Request = {r1, r2}
    TTL = 2
INVARIANTS
    TypeOK
    GoneMeansGone
    OldSessionsCovered
    DeletionEventHonest
PROPERTIES
    DeletedUserLosesAccess
