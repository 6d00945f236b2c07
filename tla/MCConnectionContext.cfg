CONSTANTS
    Roles = {editor}
    Tables = {t1}
    Writers = {w1}
    Readers = {d1}
    Keep = Keep
SPECIFICATION ContextSpec
SYMMETRY Alike
PROPERTIES
    QuietReadIsExact
    GrantsHaveCause
    RefusalsHaveCause
CHECK_DEADLOCK FALSE
