CONSTANTS
    Tables = {t1}
    Actions = {can_read, can_update}
    Roles = {viewer, editor}
SPECIFICATION MCSpec
INVARIANT OverridesNarrow
CHECK_DEADLOCK FALSE
