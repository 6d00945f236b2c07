CONSTANTS
    Requests = {r1, r2}
    Accounts = {a1, a2}
    Browsers = {b1, b2}
    NoUser = NoUser
    NoRequest = NoRequest
SPECIFICATION GateSpec
SYMMETRY Alike
INVARIANTS
    GateMeansAdmin
    RedirectsBounded
CHECK_DEADLOCK FALSE
