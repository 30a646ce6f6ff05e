SPECIFICATION FixedIdsSpec
CONSTANTS
    User = {alice}
    SessionID = {s1, s2, s3}
    Request = {r1, r2}
    NoSession = NoSession
    NoUser = NoUser
INVARIANTS
    TypeOK
    AtMostOneLive
    RevocationEffective
    ReuseNeverDeadlocks
    IndInv
PROPERTIES
    DeadFamilyStaysDead
    ImplementsSessionFamilies
    EveryCallReturns
