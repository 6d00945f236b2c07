CONSTANTS
    Requests = {r1, r2}
    Accounts = {a1}
SPECIFICATION Spec
PROPERTY RefusalMeansComplete
CHECK_DEADLOCK FALSE
