SPECIFICATION Spec
CONSTANTS
    SessionID = {s1, s2, s3, s4}
    Request = {r1, r2, r3}
    NoSession = NoSession
INVARIANTS
    TypeOK
    DeletedUserHasNoSession
PROPERTIES
    SequentialImplements
    ReopenedOnlyByRace
SYMMETRY Symmetry
