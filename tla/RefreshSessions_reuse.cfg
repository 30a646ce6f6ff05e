SPECIFICATION Spec
CONSTANTS
    User = {alice}
    SessionID = {s1, s2, s3, s4}
    Request = {r1, r2}
    NoSession = NoSession
    NoUser = NoUser
SYMMETRY Symmetry
INVARIANTS
    ReuseKillsFamily
