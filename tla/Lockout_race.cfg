SPECIFICATION Spec
CONSTANTS
    Request = {r1, r2}
    Threshold = 2
    Duration = 2
    MaxLost = 1
PROPERTIES
    LockHoldsForDuration
