CONSTANTS
    Requests = {r1, r2, r3}
    Accounts = {a1, a2}
SPECIFICATION FairSpec
INVARIANTS
    OneHolder
    CompleteHasAdmin
    SuccessIsFinal
    OneSuccess
    LeakNeedsLoss
PROPERTIES
    ImplementsOnce
    LockIsReleased
CHECK_DEADLOCK FALSE
