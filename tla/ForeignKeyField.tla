---------------------------- MODULE ForeignKeyField ----------------------------
(***************************************************************************)
(* The field of a foreign key in the form for a row: the value, the query   *)
(* for the label of the row it refers to, and the dialog in which another   *)
(* row is selected, with a search, pages and queries of its own.            *)
(***************************************************************************)
EXTENDS Naturals, FiniteSets

CONSTANTS Rows,        \* of the referenced table: their primary keys, numbers
          Referenced,  \* the value that the referenced column has in each row
          Matching,    \* the rows that a search finds
          PageSize,
          MaxFetches,  \* bound: queries for labels under way
          MaxLoads,    \* bound: different queries for pages under way
          MaxChanges   \* bound: changes of the table by others

VARIABLES table,       \* the rows that are there
          access,      \* canSelect, and is_nullable
          value,       \* of the field: "" is Empty
          selectedRow, \* the row the label is of: one, or none
          fetches,     \* queries for it, with the effect's cancelled
          open,        \* selectorOpen
          view,        \* page and search of the dialog
          shown,       \* rows and total in the dialog, and the query they are of
          loading,
          loads,       \* queries for pages under way
          overlapped,  \* one was sent while one was under way (history)
          changes

dialog == <<view, shown, loading, loads, overlapped>>
vars == <<table, access, value, selectedRow, fetches, open, dialog, changes>>

Empty == 0
Values == {Referenced[r] : r \in Rows} \union Rows \union {Empty}

Active == {f \in fetches : ~f.cancelled}

\* The effect on the value: what is under way is cancelled, and a query is sent
\* when there is something to ask for.
Asked(v) == IF v = Empty \/ ~access.canSelect THEN {}
            ELSE {[of |-> v, cancelled |-> FALSE]}

FirstQuery == [page |-> 0, search |-> FALSE]
Nothing == [rows |-> {}, total |-> 0, query |-> FirstQuery, failed |-> FALSE]

\* The form of a row has just been opened.
Init == /\ table \in SUBSET Rows
        /\ access \in [canSelect : BOOLEAN, nullable : BOOLEAN]
        /\ value \in Values
        /\ selectedRow = {}
        /\ fetches = Asked(value)
        /\ open = FALSE
        /\ view = FirstQuery
        /\ shown = Nothing
        /\ loading = FALSE
        /\ loads = {}
        /\ overlapped = FALSE
        /\ changes = 0

-----------------------------------------------------------------------------
(* The value and its label.                                                 *)

\* The label of the value before stays until an answer comes.
Change(v) ==
    /\ value' = v
    /\ IF v = value THEN UNCHANGED <<fetches, selectedRow>>
       ELSE /\ fetches' = [of : {f.of : f \in fetches}, cancelled : {TRUE}] \union Asked(v)
            /\ Cardinality(fetches') <= MaxFetches
            /\ selectedRow' = IF Asked(v) = {} THEN {} ELSE selectedRow

\* Without access to the referenced table the field is an ordinary input.
Type ==
    /\ ~access.canSelect
    /\ \E v \in Values : Change(v)
    /\ UNCHANGED <<table, access, open, dialog, changes>>

Clear ==
    /\ access.canSelect /\ access.nullable /\ value # Empty /\ ~open
    /\ Change(Empty)
    /\ UNCHANGED <<table, access, open, dialog, changes>>

\* Mutant: an answer is taken for whatever value there is.
FetchedAnyway(f) ==
    /\ f \in fetches
    /\ fetches' = fetches \ {f}
    /\ selectedRow' = {r \in table : Referenced[r] = f.of}
    /\ UNCHANGED <<table, access, value, open, dialog, changes>>

\* maybeSingle: the row, or null, for a value that no row has and for an error.
Fetched(f) ==
    /\ f \in fetches
    /\ fetches' = fetches \ {f}
    /\ \/ selectedRow' = IF f.cancelled THEN selectedRow
                         ELSE {r \in table : Referenced[r] = f.of}
       \/ ~f.cancelled /\ selectedRow' = {}
    /\ UNCHANGED <<table, access, value, open, dialog, changes>>

Others ==
    /\ changes < MaxChanges
    /\ changes' = changes + 1
    /\ \E r \in Rows : table' = IF r \in table THEN table \ {r} ELSE table \union {r}
    /\ UNCHANGED <<access, value, selectedRow, fetches, open, dialog>>

-----------------------------------------------------------------------------
(* The dialog.                                                              *)

Found(q) == IF q.search THEN table \intersect Matching ELSE table
Offset(q) == q.page * PageSize
Page(q) == {r \in Found(q) :
              Cardinality({o \in Found(q) : o < r}) \in Offset(q) .. Offset(q) + PageSize - 1}
TotalPages == IF shown.total = 0 THEN 1 ELSE (shown.total + PageSize - 1) \div PageSize

Send(q) ==
    /\ Cardinality(loads \union {q}) <= MaxLoads
    /\ loads' = loads \union {q}
    /\ loading' = TRUE
    /\ overlapped' = (overlapped \/ loads # {})
    /\ UNCHANGED <<table, access, value, selectedRow, fetches, shown, changes>>

Load(q) == Send(q) /\ view' = q

\* Its effect starts over; the rows of the last time are hidden by the spinner.
OpenSelector == /\ access.canSelect /\ ~open
                /\ open' = TRUE
                /\ Load(FirstQuery)

CloseSelector ==
    /\ open
    /\ open' = FALSE
    /\ UNCHANGED <<table, access, value, selectedRow, fetches, dialog, changes>>

Search == open /\ Load([page |-> 0, search |-> ~view.search]) /\ UNCHANGED open

PreviousPage == /\ open /\ view.page # 0 /\ ~loading
                /\ Load([view EXCEPT !.page = @ - 1])
                /\ UNCHANGED open

NextPage == /\ open /\ view.page + 1 < TotalPages /\ ~loading
            /\ Load([view EXCEPT !.page = @ + 1])
            /\ UNCHANGED open

\* handleSelect: the primary key of the row, whichever column is referenced.
Select(r) ==
    /\ open /\ ~loading /\ r \in shown.rows
    /\ Change(r)
    /\ open' = FALSE
    /\ UNCHANGED <<table, access, dialog, changes>>

Loaded(q) ==
    /\ q \in loads
    /\ Offset(q) <= Cardinality(Found(q))
    /\ loads' = loads \ {q}
    /\ loading' = FALSE
    /\ shown' = [rows |-> Page(q), total |-> Cardinality(Found(q)), query |-> q, failed |-> FALSE]
    /\ UNCHANGED <<table, access, value, selectedRow, fetches, open, view, overlapped, changes>>

\* An error is no more than no rows; PostgREST refuses an offset beyond the count.
LoadFails(q) ==
    /\ q \in loads
    /\ loads' = loads \ {q}
    /\ loading' = FALSE
    /\ shown' = [Nothing EXCEPT !.query = q, !.failed = TRUE]
    /\ UNCHANGED <<table, access, value, selectedRow, fetches, open, view, overlapped, changes>>

FetchAnswer == \E f \in fetches : Fetched(f)
LoadAnswer == \E q \in loads : Loaded(q) \/ LoadFails(q)
SelectSome == \E r \in Rows : Select(r)

Next == \/ Type \/ Clear \/ Others
        \/ OpenSelector \/ CloseSelector \/ Search \/ PreviousPage \/ NextPage
        \/ SelectSome \/ FetchAnswer \/ LoadAnswer

Spec == Init /\ [][Next]_vars

-----------------------------------------------------------------------------

\* Once the query for a value is answered the label is of the row that has it:
\* answers for values chosen before change nothing, however late they come.
LabelIsOfValue ==
    Active = {} => \A r \in selectedRow : Referenced[r] = value

\* The query under way is for the value that the field has.
AsksForValue == \A f \in Active : f.of = value

\* A user who waits for each answer sees the rows of the page and the search that
\* the dialog shows, also when it was closed and opened in between.
PatientSeesHisRows ==
    ~overlapped /\ open /\ loads = {} => shown.query = view

\* What every step keeps: the only query that is not cancelled is for the value,
\* and the only one for a page, of whoever waits, is for that which he sees.
IInv ==
    /\ fetches \subseteq [of : Values, cancelled : BOOLEAN]
    /\ value \in Values
    /\ AsksForValue /\ LabelIsOfValue
    /\ shown.rows \subseteq Rows /\ table \subseteq Rows
    /\ ~overlapped => /\ loads \subseteq {view}
                      /\ loads = {} => shown.query = view
=============================================================================
