CONSTANTS
    Tables = {t1, t2}
    Actions = {can_read, can_update}
    Roles = {viewer, editor}
SPECIFICATION MCSpec
SYMMETRY Alike
INVARIANTS
    ResolvesAsPermitted
    NamesTheTables
CHECK_DEADLOCK FALSE
