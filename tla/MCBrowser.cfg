SPECIFICATION Spec
CONSTANTS
\* Two connections, two requests at a time.
    Connections = {"c1", "c2"}
    MaxPending = 2
\* Three rows on pages of two.
    TableRows = {1, 2, 3}
    TableMatching = {1}
    TablePageSize = 2
    Orders = {"asc", "desc"}
    Filters = {TRUE, FALSE}
    TableLoads = 1
    MaxStatements = 1
    TableChanges = 1
\* Two rows on pages of one.
    FieldRows = {1, 2}
    Referenced <- MCReferenced
    FieldMatching = {1}
    FieldPageSize = 1
    FieldFetches = 3
    FieldLoads = 2
    FieldChanges = 1
\* Three values in one cell, two queries under way besides the last.
    CellValues = {"v1", "v2", "v3"}
    PreviewFetches = 3
    Pages <- MCPages
    DataType <- MCDataType
    Nullable = {"data", "note", "span"}
    Default <- MCDefault
\* Two roles on one connection, three requests under way.
    Roles = {"r1", "r2"}
    RoleConnections = {"c1"}
    RoleFetches = 3
    MatrixTables = {"t1"}
    TablesOf <- MCTablesOf
    OverrideFetches = 2
\* Two users, two grants.
    People = {"u1", "u2"}
    Grants = {"g1", "g2"}
    MaxGets = 1
    MaxSaves = 1
\* Two tables, one of which has the name of a page.
    ShellTables = {"t1", "setup"}
    Rights <- MCRights
\* Any two changes or failing reads.
    PageChanges = 2
CONSTRAINTS Patient OneSetUp
INVARIANTS
    DialogsKeepApart
    PatientSeesTheTable
    FieldShowsItsValue
    PreviewIsOfCell
    RoleMatrixIsStored
    PatientSeesUsers
    OverridesAreOfUser
    MenuIsTrue
    RedirectsLeadRight
PROPERTY FormsWriteWhatTheyShow
\* Without a role or a user in its list a page leaves nothing to do.
CHECK_DEADLOCK FALSE
