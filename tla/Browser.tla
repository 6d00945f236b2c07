-------------------------------- MODULE Browser --------------------------------
(***************************************************************************)
(* The pages and dialogs of the browser side by side.  Each behaviour is    *)
(* one part's: "part" says whose, and each part keeps its variables in the  *)
(* first of s1 to s15, the others being 0.                                  *)
(***************************************************************************)
EXTENDS Naturals

CONSTANTS
    Connections, MaxPending,                                 \* ConnectionList
    TableRows, TableMatching, TablePageSize, Orders, Filters,
    TableLoads, MaxStatements, TableChanges,                 \* TableBrowser
    FieldRows, Referenced, FieldMatching, FieldPageSize,
    FieldFetches, FieldLoads, FieldChanges,                  \* ForeignKeyField
    CellValues, PreviewFetches,                                  \* ForeignKeyPreview
    Pages, DataType, Nullable, Default,                      \* RowForm
    Roles, RoleConnections, RoleFetches,                     \* RoleEditor
    MatrixTables, TablesOf, OverrideFetches,                 \* and OverrideEditor
    People, Grants, MaxGets, MaxSaves,                        \* UserEditor
    ShellTables, Rights,                                     \* DashboardShell
    PageChanges                                              \* ConnectionPages

\* What the forms hold is of a type that they know; a sentinel is none of the ids.
ASSUME ListAssumption == "none" \notin Connections
ASSUME TableAssumption == Filters \subseteq BOOLEAN /\ Orders \subseteq {"asc", "desc"}
ASSUME FormAssumption ==
    \A p \in Pages : \A c \in p.columns :
      DataType[c] \in {"text", "numeric", "interval", "boolean", "json"}
ASSUME RolesAssumption ==
    /\ "none" \notin Roles \union RoleConnections
    /\ \A c \in RoleConnections : TablesOf[c] \subseteq MatrixTables
\* No table is taken for the page that lists them.
ASSUME ShellAssumption == "tables" \notin ShellTables

VARIABLES part, s1, s2, s3, s4, s5, s6, s7, s8, s9, s10, s11, s12, s13, s14, s15

state == <<s1, s2, s3, s4, s5, s6, s7, s8, s9, s10, s11, s12, s13, s14, s15>>

from14 == <<s14, s15>>
from13 == <<s13, from14>>
from12 == <<s12, from13>>
from10 == <<s10, s11, from12>>
from9 == <<s9, from10>>
from5 == <<s5, s6, s7, s8, from9>>

From14 == s14 = 0 /\ s15 = 0
From13 == s13 = 0 /\ From14
From12 == s12 = 0 /\ From13
From10 == s10 = 0 /\ s11 = 0 /\ From12
From9 == s9 = 0 /\ From10
From5 == s5 = 0 /\ s6 = 0 /\ s7 = 0 /\ s8 = 0 /\ From9

L == INSTANCE ConnectionList WITH
       registered <- s1, cache <- s2, mounted <- s3, active <- s4, rls <- s5,
       setup <- s6, secret <- s7, pending <- s8, overlapped <- s9

T == INSTANCE TableBrowser WITH Rows <- TableRows, Matching <- TableMatching,
       PageSize <- TablePageSize, MaxLoads <- TableLoads, MaxChanges <- TableChanges,
       table <- s1, mounted <- s2, view <- s3, shown <- s4, loading <- s5, loads <- s6,
       form <- s7, confirm <- s8, statements <- s9, overlapped <- s10, changes <- s11

K == INSTANCE ForeignKeyField WITH Rows <- FieldRows, Matching <- FieldMatching,
       PageSize <- FieldPageSize, MaxFetches <- FieldFetches, MaxLoads <- FieldLoads,
       MaxChanges <- FieldChanges,
       table <- s1, access <- s2, value <- s3, selectedRow <- s4, fetches <- s5,
       open <- s6, view <- s7, shown <- s8, loading <- s9, loads <- s10,
       overlapped <- s11, changes <- s12

P == INSTANCE ForeignKeyPreview WITH Values <- CellValues, MaxFetches <- PreviewFetches,
       found <- s1, mounted <- s2, value <- s3, open <- s4, row <- s5, error <- s6,
       loading <- s7, fetches <- s8

F == INSTANCE RowForm WITH page <- s1, row <- s2, others <- s3, forms <- s4

R == INSTANCE RoleEditor WITH Connections <- RoleConnections, Tables <- MatrixTables,
       None <- "none", MaxFetches <- RoleFetches,
       stored <- s1, created <- s2, roles <- s3, list <- s4, selected <- s5, tables <- s6,
       permissions <- s7, fetches <- s8, saves <- s9, formOf <- s10, failed <- s11,
       dirty <- s12, overlapped <- s13

U == INSTANCE UserEditor WITH Users <- People,
       registered <- s1, granted <- s2, accounts <- s3, users <- s4, lists <- s5,
       editUser <- s6, edit <- s7, password <- s8, gets <- s9, saves <- s10,
       provisions <- s11, editOf <- s12, dirty <- s13, failed <- s14, overlapped <- s15

O == INSTANCE OverrideEditor WITH Users <- People, Tables <- MatrixTables, MaxFetches <- OverrideFetches,
       stored <- s1, editUser <- s2, connection <- s3, tables <- s4, overrides <- s5,
       fetches <- s6, saves <- s7, matrixOf <- s8, failed <- s9, dirty <- s10,
       overlapped <- s11

D == INSTANCE DashboardShell WITH Tables <- ShellTables, NoConnection <- "none",
       admin <- s1, member <- s2, rights <- s3, setup <- s4, locale <- s5, path <- s6,
       going <- s7, refreshing <- s8, layout <- s9, narrow <- s10, isMobile <- s11,
       open <- s12, openMobile <- s13, linked <- s14, stayed <- s15

C == INSTANCE ConnectionPages WITH MaxChanges <- PageChanges,
       done <- s1, exists <- s2, role <- s3, target <- s4, page <- s5, render <- s6,
       panel <- s7, request <- s8, late <- s9, changes <- s10, noise <- s11,
       redirects <- s12

Init == \/ part = "list" /\ L!Init /\ From10
        \/ part = "table" /\ T!Init /\ From12
        \/ part = "field" /\ K!Init /\ From13
        \/ part = "preview" /\ P!Init /\ From9
        \/ part = "form" /\ F!Init /\ From5
        \/ part = "roles" /\ R!Init /\ From14
        \/ part = "users" /\ U!Init
        \/ part = "overrides" /\ O!Init /\ From12
        \/ part = "shell" /\ D!Init
        \/ part = "pages" /\ C!Init /\ From13

Next == /\ UNCHANGED part
        /\ \/ part = "list" /\ L!Next /\ UNCHANGED from10
           \/ part = "table" /\ T!Next /\ UNCHANGED from12
           \/ part = "field" /\ K!Next /\ UNCHANGED from13
           \/ part = "preview" /\ P!Next /\ UNCHANGED from9
           \/ part = "form" /\ F!Next /\ UNCHANGED from5
           \/ part = "roles" /\ R!Next /\ UNCHANGED from14
           \/ part = "users" /\ U!Next
           \/ part = "overrides" /\ O!Next /\ UNCHANGED from12
           \/ part = "shell" /\ D!Next
           \/ part = "pages" /\ C!Next /\ UNCHANGED from13

Spec == Init /\ [][Next]_<<part, state>>

-----------------------------------------------------------------------------
\* The dialogs of the list of connections are of one connection and one request:
\* whoever waits applies the SQL he sees, a secret goes with its dialog, and the
\* setup dialog waits for what it says it does.
DialogsKeepApart ==
    part = "list" => L!PatientAppliesShown /\ L!SecretGoesWithDialog /\ L!LoadingIsOneRequest

\* Whoever waits for each answer of a table's page sees the rows of the page,
\* search and order that the controls show, and all of them exist.
PatientSeesTheTable == part = "table" => T!PatientSeesHisPage /\ T!PatientSeesRowsThatExist

\* The label of a foreign key's field is of its value, however late answers come,
\* and the dialog shows whoever waits the rows of its page and search.
FieldShowsItsValue ==
    part = "field" => K!LabelIsOfValue /\ K!AsksForValue /\ K!PatientSeesHisRows

\* A preview shows what its cell has, turns its spinner only for that, and leaves
\* nothing behind when it closes or the cell is given another value.
PreviewIsOfCell ==
    part = "preview" => P!PreviewIsOfCell /\ P!SpinnerIsPending /\ P!ClosedIsEmpty

\* The matrix of a role is the selection's once its requests are answered, and
\* whoever waits sees what is stored, also after he saved it.
RoleMatrixIsStored == part = "roles" => R!MatrixIsOfSelection /\ R!PatientSeesWhatIsStored

\* An administrator who waits sees all users and, in the dialog of one, the roles
\* and connections which that one has.
PatientSeesUsers == part = "users" => U!PatientSeesWhatIsGranted /\ U!PatientSeesEveryUser

\* The override cells are of the dialog's user, of the connection selected once
\* the request for both is answered, and what is stored for whoever waits.
OverridesAreOfUser ==
    part = "overrides" =>
      O!MatrixIsOfUser /\ O!MatrixIsOfSelection /\ O!PatientSeesWhatIsStored

\* While nobody changes what a user may see the entries of his menu lead to their
\* pages, but for tables of another connection in a menu that was kept, tables
\* that are gone and tables with the name of a page; and in a menu that was
\* rendered for the address all are of its connection.
MenuIsTrue == part = "shell" => D!MenuLeadsSomewhere /\ D!FrameIsOfItsRequest

\* If nothing changed and nothing failed the page that the browser ends at is the
\* one for the connection as it is, and only changes and failures cost redirects.
RedirectsLeadRight == part = "pages" => C!QuietPageIsRight /\ C!RedirectsBounded

\* Columns that were not changed in a form come back from a save as they were
\* loaded, and fields emptied again are as fields never filled in.
FormsWriteWhatTheyShow ==
    [][part = "form" => \A u \in F!Users : F!UntouchedIsWritten(u) /\ F!EmptyIsNull(u)]_state
================================================================================
