\* One table, one right, one role; one request is enough.
SPECIFICATION RlsSpec
CONSTANTS
    Tables = {t1}
    Roles = {r1}
    Actions = {"can_read"}
    Requests = {q1, q2}
INVARIANT AllowlistAdmitsSync
\* Requests are sent once.
CHECK_DEADLOCK FALSE
