SPECIFICATION Spec
CONSTANTS
    User = {u1}
    Email = {e1, e2}
    Token = {t1}
    Request = {r1, r2}
    Nobody = Nobody
    NoEmail = NoEmail
    NoToken = NoToken
SYMMETRY Symmetry
INVARIANTS
    TokenSingleUse
