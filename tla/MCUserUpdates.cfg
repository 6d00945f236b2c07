CONSTANTS
    Roles = {editor}
    Tables = {t1}
    Writers = {w1, w2}
    Keep = Keep
SPECIFICATION UpdateSpec
SYMMETRY Alike
PROPERTY LoneCallIsExact
CHECK_DEADLOCK FALSE
