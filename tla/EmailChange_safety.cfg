SPECIFICATION Spec
CONSTANTS
    User = {u1, u2}
    Email = {e1, e2, e3}
    Token = {t1, t2}
    Request = {r1, r2}
    Nobody = Nobody
    NoEmail = NoEmail
    NoToken = NoToken
SYMMETRY Symmetry
INVARIANTS
    TypeOK
    EmailsUnique
    AddressProved
PROPERTIES
    SpentTokenInert
    ImplementsAddressBook
