SPECIFICATION Spec
CONSTANTS
    Family = {f1}
    Request = {r1, r2}
    TTL = 1
INVARIANT
    DeletionAttributable
