----------------------------- MODULE TableBrowser -----------------------------
(***************************************************************************)
(* The table of a Target in the browser: search, filter, sorting and pages, *)
(* the dialogs that edit and delete a row, and the queries they send        *)
(* straight to the Target.  Queries and statements are answered in any      *)
(* order; an answer sets the rows whatever the page shows by then.          *)
(***************************************************************************)
EXTENDS Naturals, FiniteSets

CONSTANTS Rows,        \* ids, numbers
          Matching,    \* the rows that a search finds; and so for the filter
          PageSize,
          Orders,      \* of "asc" and "desc"
          Filters,     \* whether links come with a filter
          MaxLoads,    \* bound: different queries under way
          MaxStatements, \* bound: statements under way
          MaxChanges   \* bound: changes of the table by others

VARIABLES table,       \* rows that the Target has
          mounted,
          view,        \* page, search, filter and sorting, as the controls show
          shown,       \* rows and total in the page, and the query they are of
          loading,
          loads,       \* queries under way
          form,        \* the dialog for a row, or a new one
          confirm,     \* deleteRow: one, or none
          statements,  \* INSERT, UPDATE and DELETE under way
          overlapped,  \* something was begun while something was under way (history)
          changes

controls == <<view, form, confirm>>
vars == <<table, mounted, controls, shown, loading, loads, statements, overlapped, changes>>

New == 0  \* in place of the id of a row

FirstQuery == [page |-> 0, search |-> FALSE, filter |-> FALSE, order |-> "asc"]
NoForm == [open |-> FALSE, row |-> New]
Quiet == loads = {} /\ statements = {}

\* The rows of a query, and those of its page: how many rows come before them
\* says which.  Without an order they come in the ascending one here.
Found(q) == IF q.search \/ q.filter THEN table \intersect Matching ELSE table
Before(q, r) == {o \in Found(q) : IF q.order = "desc" THEN o > r ELSE o < r}
Offset(q) == q.page * PageSize
Page(q) == {r \in Found(q) : Cardinality(Before(q, r)) \in Offset(q) .. Offset(q) + PageSize - 1}

TotalPages == (shown.total + PageSize - 1) \div PageSize

Mounted == [rows |-> {}, total |-> 0, query |-> FirstQuery, failed |-> FALSE]

Init == /\ table \in SUBSET Rows
        /\ mounted = FALSE
        /\ view = FirstQuery
        /\ shown = Mounted
        /\ loading = FALSE
        /\ loads = {}
        /\ form = NoForm
        /\ confirm = {}
        /\ statements = {}
        /\ overlapped = FALSE
        /\ changes = 0

-----------------------------------------------------------------------------

\* loadData: with the state of the render it was called from, where nothing
\* else was passed.
Load(q) ==
    /\ Cardinality(loads \union {q}) <= MaxLoads
    /\ loads' = loads \union {q}
    /\ loading' = TRUE

\* TablePage has checked that the table may be read, and the page mounts; its
\* effect loads the first page.  A link to a row comes with a filter.
Mount ==
    /\ ~mounted
    /\ mounted' = TRUE
    /\ \E filter \in Filters :
         /\ view' = [FirstQuery EXCEPT !.filter = filter]
         /\ Load(view')
    /\ UNCHANGED <<table, shown, form, confirm, statements, overlapped, changes>>

\* Another table, or another page.
Unmount ==
    /\ mounted
    /\ mounted' = FALSE
    /\ view' = FirstQuery
    /\ shown' = Mounted
    /\ loading' = FALSE
    /\ loads' = {}
    /\ form' = NoForm
    /\ confirm' = {}
    /\ statements' = {}
    /\ overlapped' = FALSE
    /\ UNCHANGED <<table, changes>>

Modal == form.open \/ confirm # {}

\* A link within the same table (a reference to itself, or the breadcrumb):
\* the page keeps its component, whose effect does not run again.
ChangeFilter ==
    /\ mounted /\ ~Modal
    /\ \E filter \in Filters \ {view.filter} : view' = [view EXCEPT !.filter = filter]
    /\ UNCHANGED <<table, mounted, shown, loading, loads, form, confirm, statements,
                   overlapped, changes>>

Others ==
    /\ changes < MaxChanges
    /\ changes' = changes + 1
    /\ \E r \in Rows : table' = IF r \in table THEN table \ {r} ELSE table \union {r}
    /\ UNCHANGED <<mounted, controls, shown, loading, loads, statements, overlapped>>

-----------------------------------------------------------------------------
(* The controls above, in and below the table.                              *)

Show(query) ==
    /\ mounted /\ ~Modal
    /\ view' = query
    /\ Load(query)
    /\ overlapped' = (overlapped \/ ~Quiet)
    /\ UNCHANGED <<table, mounted, shown, form, confirm, statements, changes>>

\* Mutant: the page stays while the search changes.
SearchOnPage == /\ mounted /\ ~Modal
                /\ view' = [view EXCEPT !.search = ~@]
                /\ Load([view' EXCEPT !.page = 0])
                /\ overlapped' = (overlapped \/ ~Quiet)
                /\ UNCHANGED <<table, mounted, shown, form, confirm, statements, changes>>

\* Every key pressed in the search field: to some text, or none.
Search == Show([view EXCEPT !.search = ~@, !.page = 0])

Footer == shown.rows # {} \/ view.search \/ view.filter

\* A column's header: the same one again turns the order, another starts with
\* the ascending one.  There are no headers over "No data" and the skeleton.
ToggleSort ==
    /\ loading => shown.rows # {}
    /\ Footer
    /\ \E order \in (IF view.order = "asc" THEN Orders ELSE {"asc"}) :
         Show([view EXCEPT !.order = order, !.page = 0])

PreviousPage == Footer /\ view.page # 0 /\ Show([view EXCEPT !.page = @ - 1])

NextPage == Footer /\ view.page + 1 < TotalPages /\ Show([view EXCEPT !.page = @ + 1])

\* The rows are hidden while the table is loading, and so are their buttons.
RowShown(r) == mounted /\ ~Modal /\ ~loading /\ r \in shown.rows

OpenForm ==
    /\ \/ mounted /\ ~Modal /\ form' = [open |-> TRUE, row |-> New]
       \/ \E r \in Rows : RowShown(r) /\ form' = [open |-> TRUE, row |-> r]
    /\ UNCHANGED <<table, mounted, view, shown, loading, loads, confirm, statements,
                   overlapped, changes>>

CloseForm ==
    /\ form.open
    /\ form' = [form EXCEPT !.open = FALSE]
    /\ UNCHANGED <<table, mounted, view, shown, loading, loads, confirm, statements,
                   overlapped, changes>>

OpenConfirm ==
    /\ \E r \in Rows : RowShown(r) /\ confirm' = {r}
    /\ UNCHANGED <<table, mounted, view, shown, loading, loads, form, statements,
                   overlapped, changes>>

CloseConfirm ==
    /\ confirm # {}
    /\ confirm' = {}
    /\ UNCHANGED <<table, mounted, view, shown, loading, loads, form, statements,
                   overlapped, changes>>

-----------------------------------------------------------------------------

Begin(kind, row) ==
    /\ Cardinality(statements) < MaxStatements
    /\ statements' = statements \union {[kind |-> kind, row |-> row, query |-> view]}
    /\ overlapped' = (overlapped \/ ~Quiet)
    /\ UNCHANGED <<table, mounted, controls, shown, loading, loads, changes>>

\* handleSave and handleDelete go by the row of the dialog, and load again in
\* the end with the page and search they were called at.
Save == form.open /\ Begin(IF form.row = New THEN "insert" ELSE "update", form.row)
Delete == \E r \in confirm : Begin("delete", r)

\* The Target has done it, and the answer arrives: the dialog is closed,
\* whichever row it is for by then.  A row that is gone is no error.
StatementDone(s) ==
    /\ s \in statements
    /\ statements' = statements \ {s}
    /\ \/ s.kind = "insert" /\ \E r \in Rows \ table : table' = table \union {r}
       \/ s.kind = "update" /\ UNCHANGED table
       \/ s.kind = "delete" /\ table' = table \ {s.row}
    /\ IF s.kind = "delete" THEN confirm' = {} /\ UNCHANGED form
       ELSE form' = NoForm /\ UNCHANGED confirm
    /\ Load(s.query)
    /\ UNCHANGED <<mounted, view, shown, overlapped, changes>>

\* An error is shown; the dialog stays.
StatementFails(s) ==
    /\ s \in statements
    /\ statements' = statements \ {s}
    /\ UNCHANGED <<table, mounted, controls, shown, loading, loads, overlapped, changes>>

\* Mutant: an answer for the first rows only when there are some.
LoadedIfAny(q) ==
    /\ q \in loads
    /\ Offset(q) <= Cardinality(Found(q))
    /\ loads' = loads \ {q}
    /\ loading' = (Found(q) = {})
    /\ shown' = [rows |-> Page(q), total |-> Cardinality(Found(q)), query |-> q, failed |-> FALSE]
    /\ UNCHANGED <<table, mounted, controls, statements, overlapped, changes>>

\* PostgREST refuses an offset beyond the count.
Loaded(q) ==
    /\ q \in loads
    /\ Offset(q) <= Cardinality(Found(q))
    /\ loads' = loads \ {q}
    /\ loading' = FALSE
    /\ shown' = [rows |-> Page(q), total |-> Cardinality(Found(q)), query |-> q, failed |-> FALSE]
    /\ UNCHANGED <<table, mounted, controls, statements, overlapped, changes>>

LoadFails(q) ==
    /\ q \in loads
    /\ loads' = loads \ {q}
    /\ loading' = FALSE
    /\ shown' = [shown EXCEPT !.failed = TRUE]
    /\ UNCHANGED <<table, mounted, controls, statements, overlapped, changes>>

LoadAnswer == \E q \in loads : Loaded(q) \/ LoadFails(q)
StatementAnswer == \E s \in statements : StatementDone(s) \/ StatementFails(s)

Next == \/ Mount \/ Unmount \/ ChangeFilter \/ Others
        \/ Search \/ ToggleSort \/ PreviousPage \/ NextPage
        \/ OpenForm \/ CloseForm \/ OpenConfirm \/ CloseConfirm
        \/ Save \/ Delete \/ LoadAnswer \/ StatementAnswer

Spec == Init /\ [][Next]_vars

\* The Target, or the network, answers.
FairSpec == Spec /\ WF_vars(LoadAnswer) /\ WF_vars(StatementAnswer)

-----------------------------------------------------------------------------

\* Whoever waits for each answer before the next click sees the rows of the
\* page, search and order that the controls show.
PatientSeesHisPage ==
    ~overlapped /\ mounted /\ Quiet /\ ~shown.failed =>
      shown.query = [view EXCEPT !.filter = shown.query.filter]

\* Somebody who waits never has rows taken from the page that he did not
\* delete, and nobody else did: every row shown to him is in the table.
PatientSeesRowsThatExist ==
    ~overlapped /\ mounted /\ Quiet /\ ~shown.failed /\ changes = 0 =>
      shown.rows \subseteq table

Queries == [page : Nat, search : BOOLEAN, filter : BOOLEAN, order : {"asc", "desc"}]

\* Links within a table change the filter and load nothing.
Same(q, r) == q = [r EXCEPT !.filter = q.filter]

\* What every step keeps of somebody who waits: what is under way is for what the
\* controls show, and when nothing is, so are the rows.
IInv ==
    /\ view \in Queries /\ loads \subseteq Queries
    /\ DOMAIN shown = DOMAIN Mounted /\ shown.query \in Queries
    /\ changes \in Nat
    /\ \A s \in statements : s.query \in Queries
    /\ ~mounted => ~Modal /\ Quiet /\ ~overlapped
    /\ ~overlapped =>
         /\ \A q \in loads : Same(q, view)
         /\ \A s \in statements : Same(s.query, view)
         /\ mounted /\ loads = {} /\ ~shown.failed =>
              /\ Same(shown.query, view)
              /\ changes = 0 => shown.rows \subseteq table
=============================================================================
