SPECIFICATION Spec
CONSTANTS
    Key = {k1, k2}
    Limits <- MCLimits
    Window = 2
INVARIANTS
    TypeOK
    BurstBounded
    RefusalJustified
PROPERTIES
    RefusedKeyRecovers
