------------------------------ MODULE RoleEditor ------------------------------
(***************************************************************************)
(* The page on which an administrator creates roles and sets, for a role    *)
(* and a connection he selects, the permissions on its tables.  Requests    *)
(* are answered in any order; a matrix takes two, the second sent when the  *)
(* first is answered.  Of the four columns one is followed.                 *)
(***************************************************************************)
EXTENDS Naturals, FiniteSets

CONSTANTS Roles, Connections, Tables,
          TablesOf,    \* the cached tables of each connection
          None,        \* nothing selected
          MaxFetches   \* bound: requests for matrices under way

VARIABLES stored,      \* role_permissions: the tables granted, per role and connection
          created,     \* the roles that there are
          roles,       \* the roles that the page lists
          list,        \* roles.list under way: what it read, one or none
          selected,    \* selectedRole and selectedConnection
          tables,      \* the rows of the matrix
          permissions, \* its cells; some may have no row
          fetches,     \* requests for a matrix, with the effect's cancelled
          saves,       \* updatePermissions under way
          formOf,      \* the selection that the cells were read for (history)
          failed,      \* the last answer for a matrix was an error (history)
          dirty,       \* cells changed since they were read or saved (history)
          overlapped   \* something was begun while something was under way (history)

listVars == <<created, roles, list>>
history == <<formOf, failed, dirty, overlapped>>
vars == <<stored, listVars, selected, tables, permissions, fetches, saves, history>>

Selections == [role : Roles \union {None}, connection : Connections \union {None}]
NoMatrix == [t \in {} |-> FALSE]
Fetches == [of : Selections, step : {"tables", "permissions"}, cancelled : BOOLEAN]

Nothing == [role |-> None, connection |-> None]
Active == {f \in fetches : ~f.cancelled}
Quiet == Active = {} /\ saves = {}
Cells(matrix) == {t \in DOMAIN matrix : matrix[t]}

\* The page has mounted, and its effect asks for the roles.
Init == /\ stored \in [Roles -> [Connections -> SUBSET Tables]]
        /\ \A r \in Roles, c \in Connections : stored[r][c] \subseteq TablesOf[c]
        /\ created \in SUBSET Roles
        /\ \A r \in Roles \ created, c \in Connections : stored[r][c] = {}
        /\ roles = {}
        /\ list = {created}
        /\ selected = Nothing
        /\ tables = {}
        /\ permissions = NoMatrix
        /\ fetches = {} /\ saves = {}
        /\ formOf = Nothing /\ failed = FALSE /\ dirty = FALSE /\ overlapped = FALSE

-----------------------------------------------------------------------------
(* Roles.                                                                   *)

\* The list replaces what the page has, roles that it created meanwhile too.
Listed ==
    /\ \E read \in list : roles' = read
    /\ list' = {}
    /\ UNCHANGED <<stored, created, selected, tables, permissions, fetches, saves, history>>

\* A name that is taken, or the empty one, is refused, with an error.
CreateRole ==
    /\ \E r \in Roles \ created : created' = created \union {r} /\ roles' = roles \union {r}
    /\ UNCHANGED <<stored, list, selected, tables, permissions, fetches, saves, history>>

-----------------------------------------------------------------------------
(* The effect on the selection, and the requests it sends.                  *)

\* The matrix of the last selection stays until the answers come.
Select(s) ==
    /\ s # selected
    /\ selected' = s
    /\ fetches' = {[f EXCEPT !.cancelled = TRUE] : f \in fetches}
                  \union {[of |-> s, step |-> "tables", cancelled |-> FALSE]}
    /\ Cardinality(fetches') <= MaxFetches
    /\ overlapped' = (overlapped \/ ~Quiet)
    /\ UNCHANGED <<stored, listVars, tables, permissions, saves, formOf, failed, dirty>>

SelectRole == \E r \in roles : Select([selected EXCEPT !.role = r])
SelectConnection == \E c \in Connections : Select([selected EXCEPT !.connection = c])

\* Without a connection there is nothing to ask for.
SelectFirstRole ==
    /\ selected.connection = None
    /\ \E r \in roles \ {selected.role} : selected' = [selected EXCEPT !.role = r]
    /\ UNCHANGED <<stored, listVars, tables, permissions, fetches, saves, history>>

NoPermissions(ts) == [t \in ts |-> FALSE]

Shown(f, matrix) ==
    /\ permissions' = matrix
    /\ formOf' = f.of /\ failed' = FALSE /\ dirty' = FALSE

\* connections.get: its tables are shown at once; with a role, its permissions
\* are asked for next.
TablesAnswer(f) ==
    /\ f \in fetches /\ f.step = "tables"
    /\ IF f.cancelled
       THEN fetches' = fetches \ {f} /\ UNCHANGED <<tables, permissions, formOf, failed, dirty>>
       ELSE /\ tables' = TablesOf[f.of.connection]
            /\ IF f.of.role = None
               THEN /\ fetches' = fetches \ {f}
                    /\ Shown(f, NoPermissions(TablesOf[f.of.connection]))
               ELSE /\ fetches' = (fetches \ {f}) \union {[f EXCEPT !.step = "permissions"]}
                    /\ UNCHANGED <<permissions, formOf, failed, dirty>>
    /\ UNCHANGED <<stored, listVars, selected, saves, overlapped>>

\* roles.getPermissions: rows of tables that are no longer cached are kept too.
PermissionsAnswer(f) ==
    /\ f \in fetches /\ f.step = "permissions"
    /\ fetches' = fetches \ {f}
    /\ IF f.cancelled THEN UNCHANGED <<permissions, formOf, failed, dirty>>
       ELSE LET granted == stored[f.of.role][f.of.connection]
            IN  Shown(f, [t \in TablesOf[f.of.connection] \union granted |-> t \in granted])
    /\ UNCHANGED <<stored, listVars, selected, tables, saves, overlapped>>

\* An error is shown, and the matrix stays as it is.
FetchFails(f) ==
    /\ f \in fetches
    /\ fetches' = fetches \ {f}
    /\ failed' = (failed \/ ~f.cancelled)
    /\ UNCHANGED <<stored, listVars, selected, tables, permissions, saves, formOf, dirty, overlapped>>

-----------------------------------------------------------------------------
(* The matrix.                                                              *)

MatrixShown == selected.role # None /\ selected.connection # None /\ tables # {}

TogglePerm ==
    /\ MatrixShown
    /\ \E t \in tables :
         permissions' = [u \in DOMAIN permissions \union {t} |->
                           IF u = t THEN t \notin Cells(permissions) ELSE permissions[u]]
    /\ dirty' = TRUE
    /\ overlapped' = (overlapped \/ ~Quiet)
    /\ UNCHANGED <<stored, listVars, selected, tables, fetches, saves, formOf, failed>>

\* savePermissions: the cells that are there, for the selection.
SavePermissions ==
    /\ MatrixShown
    /\ saves = {}
    /\ saves' = {[of |-> selected, permissions |-> permissions]}
    /\ overlapped' = (overlapped \/ ~Quiet)
    /\ UNCHANGED <<stored, listVars, selected, tables, permissions, fetches, formOf, failed, dirty>>

\* Mutant: the rows of before are not deleted.
SavedOnTop(s) ==
    /\ s \in saves
    /\ saves' = {}
    /\ stored' = [stored EXCEPT ![s.of.role][s.of.connection] = @ \union Cells(s.permissions)]
    /\ dirty' = (dirty /\ s.permissions # permissions)
    /\ UNCHANGED <<listVars, selected, tables, permissions, fetches, formOf, failed, overlapped>>

\* updatePermissions replaces the rows of the role on the connection; what
\* becomes of them on the Target is another matter.
Saved(s) ==
    /\ s \in saves
    /\ saves' = {}
    /\ stored' = [stored EXCEPT ![s.of.role][s.of.connection] = Cells(s.permissions)]
    /\ dirty' = (dirty /\ s.permissions # permissions)
    /\ UNCHANGED <<listVars, selected, tables, permissions, fetches, formOf, failed, overlapped>>

SaveFails ==
    /\ saves # {}
    /\ saves' = {}
    /\ UNCHANGED <<stored, listVars, selected, tables, permissions, fetches, history>>

FetchAnswer == \E f \in fetches : TablesAnswer(f) \/ PermissionsAnswer(f) \/ FetchFails(f)
SaveAnswer == SaveFails \/ \E s \in saves : Saved(s)

Next == \/ Listed \/ CreateRole
        \/ SelectConnection \/ (selected.connection # None /\ SelectRole) \/ SelectFirstRole
        \/ TogglePerm \/ SavePermissions \/ FetchAnswer \/ SaveAnswer

Spec == Init /\ [][Next]_vars

\* The server answers each request.
FairSpec == /\ Spec
            /\ WF_vars(SaveAnswer)
            /\ \A f \in Fetches : WF_vars(TablesAnswer(f) \/ PermissionsAnswer(f) \/ FetchFails(f))

-----------------------------------------------------------------------------

\* Once the selection's requests are answered, the matrix is the selection's:
\* late answers for one selected before change nothing.
MatrixIsOfSelection ==
    Active = {} /\ ~failed /\ selected.connection # None => formOf = selected

\* An administrator who waits for each answer sees the permissions that are
\* stored when he has changed nothing, or has saved: saves write what is shown.
PatientSeesWhatIsStored ==
    ~overlapped /\ Quiet /\ ~failed /\ ~dirty /\ MatrixShown =>
      Cells(permissions) = stored[selected.role][selected.connection]

TypeOK ==
    /\ stored \in [Roles -> [Connections -> SUBSET Tables]]
    /\ created \subseteq Roles /\ roles \subseteq Roles /\ list \subseteq SUBSET Roles
    /\ selected \in Selections /\ tables \subseteq Tables
    /\ permissions \in UNION {[ts -> BOOLEAN] : ts \in SUBSET Tables}
    /\ fetches \subseteq Fetches
    /\ dirty \in BOOLEAN /\ failed \in BOOLEAN /\ overlapped \in BOOLEAN
    /\ \A s \in saves : Cells(s.permissions) \subseteq Tables

\* What every step keeps: the one request that is not cancelled is for the
\* selection, and so is the only save of an administrator who waits.
IInv ==
    /\ TypeOK
    /\ \A f \in Active : /\ f.of = selected /\ f.of.connection # None
                         /\ f.step = "permissions" => f.of.role # None
    /\ \A f, g \in Active : f = g
    /\ selected.connection = None => saves = {}
    /\ MatrixIsOfSelection
    /\ ~overlapped => /\ Active = {} \/ saves = {}
                      /\ saves \subseteq {[of |-> selected, permissions |-> permissions]}
    /\ ~overlapped /\ Active = {} /\ ~failed /\ ~dirty =>
         (selected.role # None /\ selected.connection # None =>
            Cells(permissions) = stored[selected.role][selected.connection])
=============================================================================
