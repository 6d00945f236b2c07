---------------------------- MODULE OverrideEditor ----------------------------
(***************************************************************************)
(* The overrides in the dialog of a user: for a connection that is selected *)
(* the cells of its tables, read with what the user's roles give him, each  *)
(* cycled by clicks through inherit, allow and deny, and saved together.    *)
(* Of the four columns one is followed.                                     *)
(***************************************************************************)
EXTENDS Naturals, FiniteSets

CONSTANTS Users,       \* all members
          Connections, Tables,
          TablesOf,    \* the cached tables of each connection
          MaxFetches   \* bound: requests for matrices under way

VARIABLES stored,      \* user_permission_overrides, per user and connection
          editUser,    \* the user of the dialog: one, or none
          connection,  \* overrideConnectionId: one, or none
          tables,      \* overrideTables
          overrides,   \* the cells
          fetches,     \* requests for a matrix, with the effect's cancelled
          saves,       \* updateUserOverrides under way
          matrixOf,    \* the user and connection that the cells were read for (history)
          failed,      \* the last answer for a matrix was an error (history)
          dirty,       \* cells changed since they were read or saved (history)
          overlapped   \* something was begun while something was under way, or
                       \* saved after an error (history)

history == <<matrixOf, failed, dirty, overlapped>>
vars == <<stored, editUser, connection, tables, overrides, fetches, saves, history>>

NoMatrix == [t \in {} |-> "inherit"]
Rows(matrix) == {<<t, matrix[t]>> : t \in {u \in DOMAIN matrix : matrix[u] # "inherit"}}

Active == {f \in fetches : ~f.cancelled}
Quiet == Active = {} /\ saves = {}
Selection == [user : editUser, connection : connection]

Init == /\ \E ts \in [Connections -> SUBSET Tables] :
             /\ \A c \in Connections : ts[c] \subseteq TablesOf[c]
             /\ stored = [u \in Users |-> [c \in Connections |-> ts[c] \X {"deny"}]]
        /\ editUser = {} /\ connection = {}
        /\ tables = {} /\ overrides = NoMatrix
        /\ fetches = {} /\ saves = {}
        /\ matrixOf = {} /\ failed = FALSE /\ dirty = FALSE /\ overlapped = FALSE

-----------------------------------------------------------------------------

\* The cleanup of the effect.
Cancelled == {[f EXCEPT !.cancelled = TRUE] : f \in fetches}

\* The effect on editUser and overrideConnectionId: without both there is no
\* matrix; otherwise that of the last connection stays until the answer comes.
Effect(user, conn) ==
    /\ editUser' = user /\ connection' = conn
    /\ IF user = {} \/ conn = {}
       THEN /\ tables' = {} /\ overrides' = NoMatrix
            /\ fetches' = Cancelled
            /\ matrixOf' = {} /\ failed' = FALSE /\ dirty' = FALSE
       ELSE /\ fetches' = Cancelled \union
                            [of : [user : user, connection : conn], cancelled : {FALSE}]
            /\ Cardinality(fetches') <= MaxFetches
            /\ UNCHANGED <<tables, overrides, matrixOf, failed, dirty>>
    /\ overlapped' = (overlapped \/ ~Quiet)
    /\ UNCHANGED <<stored, saves>>

OpenEdit == editUser = {} /\ \E u \in Users : Effect({u}, {})

\* The dialog keeps its connection, which the next one drops.
Close == editUser # {} /\ Effect({}, connection)

\* A connection of the user, as the dialog has them.
SelectConnection ==
    /\ editUser # {}
    /\ \E c \in Connections : {c} # connection /\ Effect(editUser, {c})

CellsOf(pair) ==
    [t \in TablesOf[pair.connection] |->
       IF <<t, "allow">> \in stored[pair.user][pair.connection] THEN "allow"
       ELSE IF <<t, "deny">> \in stored[pair.user][pair.connection] THEN "deny"
       ELSE "inherit"]

\* Mutant: an answer is taken for whatever there is.
AnsweredAnyway(f) ==
    /\ f \in fetches
    /\ fetches' = fetches \ {f}
    /\ tables' = TablesOf[f.of.connection]
    /\ overrides' = CellsOf(f.of)
    /\ matrixOf' = {f.of} /\ failed' = FALSE /\ dirty' = FALSE
    /\ UNCHANGED <<stored, editUser, connection, saves, overlapped>>

\* connections.get and getUserOverrides: rows of tables that are no longer
\* cached are dropped.
Answered(f) ==
    /\ f \in fetches
    /\ fetches' = fetches \ {f}
    /\ IF f.cancelled THEN UNCHANGED <<tables, overrides, matrixOf, failed, dirty>>
       ELSE /\ tables' = TablesOf[f.of.connection]
            /\ overrides' = CellsOf(f.of)
            /\ matrixOf' = {f.of} /\ failed' = FALSE /\ dirty' = FALSE
    /\ UNCHANGED <<stored, editUser, connection, saves, overlapped>>

FetchFails(f) ==
    /\ f \in fetches
    /\ fetches' = fetches \ {f}
    /\ failed' = (failed \/ ~f.cancelled)
    /\ UNCHANGED <<stored, editUser, connection, tables, overrides, saves, matrixOf, dirty, overlapped>>

-----------------------------------------------------------------------------

MatrixShown == editUser # {} /\ connection # {} /\ tables # {}

cycleOverrideValue == [inherit |-> "allow", allow |-> "deny", deny |-> "inherit"]

ToggleOverride ==
    /\ MatrixShown
    /\ \E t \in tables :
         overrides' = [u \in DOMAIN overrides \union {t} |->
                         IF u # t THEN overrides[u]
                         ELSE cycleOverrideValue[IF t \in DOMAIN overrides THEN overrides[t]
                                                 ELSE "inherit"]]
    /\ dirty' = TRUE
    /\ overlapped' = (overlapped \/ ~Quiet)
    /\ UNCHANGED <<stored, editUser, connection, tables, fetches, saves, matrixOf, failed>>

\* saveOverrides: the cells that do not inherit, for the selection.
SaveOverrides ==
    /\ MatrixShown
    /\ saves = {}
    /\ saves' = [of : Selection, overrides : {overrides}]
    /\ overlapped' = (overlapped \/ failed \/ ~Quiet)
    /\ UNCHANGED <<stored, editUser, connection, tables, overrides, fetches, matrixOf, failed, dirty>>

\* updateUserOverrides, in one step, of a member.
Saved(s) ==
    /\ s \in saves
    /\ saves' = {}
    /\ stored' = [stored EXCEPT ![s.of.user][s.of.connection] = Rows(s.overrides)]
    /\ dirty' = (dirty /\ s.overrides # overrides)
    /\ UNCHANGED <<editUser, connection, tables, overrides, fetches, matrixOf, failed, overlapped>>

SaveFails ==
    /\ saves # {}
    /\ saves' = {}
    /\ UNCHANGED <<stored, editUser, connection, tables, overrides, fetches, history>>

FetchAnswer == \E f \in fetches : Answered(f) \/ FetchFails(f)
SaveAnswer == SaveFails \/ \E s \in saves : Saved(s)

Next == \/ OpenEdit \/ Close \/ SelectConnection \/ ToggleOverride \/ SaveOverrides
        \/ FetchAnswer \/ SaveAnswer

Spec == Init /\ [][Next]_vars

-----------------------------------------------------------------------------

\* Once the request for a user and a connection is answered the cells are of
\* both: no cell of one user is ever left in the dialog of another.
MatrixIsOfSelection ==
    Active = {} /\ ~failed => matrixOf = Selection

\* The cells on show were read for the user of the dialog, also while a request
\* is under way and after one that failed.
MatrixIsOfUser == \A of \in matrixOf : editUser = {of.user}

\* An administrator who waits for each answer, and saves nothing over an error,
\* sees what is stored when he has changed nothing, or has saved: no table has
\* both an allow and a deny.
PatientSeesWhatIsStored ==
    ~overlapped /\ Quiet /\ ~failed /\ ~dirty =>
      \A u \in editUser, c \in connection : Rows(overrides) = stored[u][c]

Effects == {"inherit", "allow", "deny"}

\* The rows of a connection: a table that is cached, with an allow or a deny.
WellFormed(rows, c) ==
    /\ rows \subseteq TablesOf[c] \X {"allow", "deny"}
    /\ \A t \in TablesOf[c] : ~({<<t, "allow">>, <<t, "deny">>} \subseteq rows)

\* What every step keeps: a request that is not cancelled is for the selection,
\* and whoever waits saves the cells of it, so that rows stay well formed.
IInv ==
    /\ editUser \in {{}} \union {{u} : u \in Users}
    /\ connection \in {{}} \union {{c} : c \in Connections}
    /\ fetches \subseteq [of : [user : Users, connection : Connections], cancelled : BOOLEAN]
    /\ \A s \in saves : s.of \in [user : Users, connection : Connections]
    /\ DOMAIN stored = Users /\ \A u \in Users : DOMAIN stored[u] = Connections
    /\ \A f \in Active : f.of \in Selection
    /\ MatrixIsOfUser /\ MatrixIsOfSelection
    /\ matrixOf = {} => tables = {} /\ overrides = NoMatrix
    /\ \A of \in matrixOf : /\ of \in [user : Users, connection : Connections]
                            /\ tables = TablesOf[of.connection]
                            /\ overrides \in [tables -> Effects]
    /\ ~overlapped =>
         /\ \A u \in Users, c \in Connections : WellFormed(stored[u][c], c)
         /\ saves # {} => Active = {} /\ ~failed
         /\ \A s \in saves : s.of \in Selection /\ s.overrides = overrides
    /\ ~overlapped /\ Active = {} /\ ~failed /\ ~dirty =>
         \A u \in editUser, c \in connection : Rows(overrides) = stored[u][c]
=============================================================================
