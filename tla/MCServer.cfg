\* Three calls create two users.
SPECIFICATION ServerSpec
CONSTANTS
    x1 = x1
    x2 = x2
    y1 = y1
    y2 = y2
    z1 = z1
    z2 = z2
    Calls = {x1, x2, z1}
    Emails = {"a", "b"}
    Names = {"x", "y"}
    MaxRetries = 2
    Requests = {x1, x2}
    BootTables = {z1}
    RlsTables = {z1}
    Actions = {"can_read"}
    RlsRoles = {y1, y2}
\* Three visible tables: two schemas can overlap without one holding the other.
    Ids = {"id"}
    SchemaTables = {y1, y2, z1, z2}
    HiddenTables = {z2}
    MetaTables = {"posts", "users", "hidden"}
    HiddenMeta = {"hidden"}
    Schemas <- MCSchemas
    Secrets = {y1, y2, z1, z2}
\* Two browsers of an administrator and a member who may use one account.
    Admins = {"adm"}
    Members = {"mem"}
    Targets = {z1}
    TargetTables = {z2}
    TargetEmails = {"e1"}
    Browsers = {x1, x2}
    Provisions = {"p1"}
    Keys = {"key"}
    KeyOf <- MCKeyOf
    MaxChanges = 1
\* One user, who may change what others would; one call in a window.
    Askers = {"user"}
    SurfaceLimit = 1
\* Three calls where two are allowed, a window of two seconds of three ticks.
    Limited = {x1, x2, z1}
    Limit = 2
    Second = 3
    Window = 2
    MaxTime = 9
\* Two contexts with two jobs each, which wait for the connection of their pool.
    Contexts = {x1, x2}
    Jobs = {y1, y2}
    Actors = {"ann"}
    PoolMax = 1
    Connections = {z1, z2}
SYMMETRY Alike
INVARIANTS
    CreatedAsAsked
    ReadyAnswerMeansGranted
    PoliciesFollowSaves
    CachedSchemaIsSound
    MetaIsReal
    SecretsAreRetired
    ClaimsAreGranted
    AccountsArePersonal
    AnswersAreTrue
    LimitIsKept
    ClaimsAreLocal
PROPERTY ImplementsReadiness
\* Calls are made once, and the limiter's clock stops at its bound.
CHECK_DEADLOCK FALSE
