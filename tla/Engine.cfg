SPECIFICATION Spec
CONSTANTS
    Second = 3
    k1 = k1
    k2 = k2
    Secret = {k1, k2}
    NoSecret = NoSecret
    Configs <- MCConfigs
    Horizon = 9
    NoEngine = NoEngine
    NoToken = NoToken
INVARIANTS
    TypeOK
    EngineWellFormed
    NilSafe
    NeverOutlivesTTL
    LivesAlmostTTL
