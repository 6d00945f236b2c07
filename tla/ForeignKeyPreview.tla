--------------------------- MODULE ForeignKeyPreview ---------------------------
(***************************************************************************)
(* A cell of a foreign key in the table, and its preview of the row that is *)
(* referenced.  Cells are kept by their place in the table: other rows give *)
(* the cell another value while the preview is open.                        *)
(***************************************************************************)
EXTENDS Naturals, FiniteSets

CONSTANTS Values,      \* that the cell may have
          MaxFetches   \* bound: queries under way

VARIABLES found,       \* the values that some row has
          mounted,     \* the row is shown, not "Loading"
          value,       \* of the cell: one, or none
          open,        \* previewOpen
          row,         \* the row in the preview, by its value
          error,       \* the value that an error is shown for
          loading,
          fetches      \* queries under way, with the effect's cancelled

vars == <<found, mounted, value, open, row, error, loading, fetches>>

Active == {f \in fetches : ~f.cancelled}
Cancelled == [of : {f.of : f \in fetches}, cancelled : {TRUE}]
Cells == {{}} \union {{v} : v \in Values}

Init == /\ found \in SUBSET Values
        /\ mounted = TRUE
        /\ value \in Cells
        /\ open = FALSE
        /\ row = {} /\ error = {}
        /\ loading = FALSE
        /\ fetches = {}

\* The clean-up and the effect for an opening, a closing or another value.  The
\* spinner of a preview that is closed stays for the next opening.
Effect(isOpen, v) ==
    IF ~isOpen \/ v = {} THEN row' = {} /\ error' = {} /\ fetches' = Cancelled /\ UNCHANGED loading
    ELSE /\ fetches' = Cancelled \union [of : v, cancelled : {FALSE}]
         /\ Cardinality(fetches') <= MaxFetches
         /\ loading' = TRUE
         /\ error' = {}
         /\ UNCHANGED row

Open ==
    /\ mounted /\ value # {} /\ ~open
    /\ open' = TRUE
    /\ Effect(TRUE, value)
    /\ UNCHANGED <<found, mounted, value>>

Close ==
    /\ open /\ value # {} /\ mounted
    /\ open' = FALSE
    /\ Effect(FALSE, value)
    /\ UNCHANGED <<found, mounted, value>>

\* Rows that arrive while rows are shown.  Without a value the dialog is not
\* rendered; the cell keeps previewOpen, and a later value opens a new one.
ChangeCell ==
    /\ mounted
    /\ \E v \in Cells \ {value} :
         /\ value' = v
         /\ IF v = {} \/ (value = {} /\ ~open)
            THEN row' = {} /\ error' = {} /\ loading' = FALSE /\ fetches' = Cancelled
            ELSE IF open THEN Effect(open, v) ELSE UNCHANGED <<row, error, loading, fetches>>
    /\ UNCHANGED <<found, mounted, open>>

\* "Loading" takes the place of the rows; with new rows come new cells.
Hide ==
    /\ mounted
    /\ mounted' = FALSE
    /\ value' = {} /\ open' = FALSE
    /\ row' = {} /\ error' = {} /\ loading' = FALSE
    /\ fetches' = Cancelled
    /\ UNCHANGED found

ShowRows ==
    /\ ~mounted
    /\ mounted' = TRUE
    /\ value' \in Cells
    /\ UNCHANGED <<found, open, row, error, loading, fetches>>

\* Mutant: what comes back is shown.
AnsweredAnyway(f) ==
    /\ f \in fetches
    /\ fetches' = fetches \ {f}
    /\ loading' = FALSE
    /\ row' = {f.of} \intersect found
    /\ UNCHANGED <<found, mounted, value, open, error>>

\* The row, or none; or an error.
Answered(f) ==
    /\ f \in fetches
    /\ fetches' = fetches \ {f}
    /\ IF f.cancelled THEN UNCHANGED <<row, error, loading>>
       ELSE /\ loading' = FALSE
            /\ \/ row' = {f.of} \intersect found /\ UNCHANGED error
               \/ row' = {} /\ error' = {f.of}
    /\ UNCHANGED <<found, mounted, value, open>>

Others ==
    /\ \E v \in Values : found' = IF v \in found THEN found \ {v} ELSE found \union {v}
    /\ UNCHANGED <<mounted, value, open, row, error, loading, fetches>>

Answer == \E f \in fetches : Answered(f)

Next == Open \/ Close \/ ChangeCell \/ Hide \/ ShowRows \/ Answer \/ Others

Spec == Init /\ [][Next]_vars

\* The Target, or the network, answers each query.
FairSpec == Spec /\ \A v \in Values, c \in BOOLEAN :
                      WF_vars(Answered([of |-> v, cancelled |-> c]))

-----------------------------------------------------------------------------

Visible == mounted /\ open /\ value # {}

\* What the preview shows, a row or an error, is of the value in its cell, also
\* when the cell changed, and whatever was asked for before.
PreviewIsOfCell == Visible /\ ~loading => row \subseteq value /\ error \subseteq value

\* The spinner turns only while the query for the value in the cell is under way.
SpinnerIsPending == Visible /\ loading => Active = [of : value, cancelled : {FALSE}]

\* The queries of a preview that was closed, or of a cell that is gone, are all
\* that outlives it.
ClosedIsEmpty == ~Visible => row = {} /\ error = {} /\ Active = {}

\* What every step keeps: one query for the cell while its spinner turns, and
\* nothing under way or shown that is of another.
IInv ==
    /\ value \in Cells /\ fetches \subseteq [of : Values, cancelled : BOOLEAN]
    /\ mounted \in BOOLEAN /\ open \in BOOLEAN /\ loading \in BOOLEAN
    /\ ~mounted => value = {} /\ ~open
    /\ Visible /\ loading => error = {}
    /\ Visible /\ ~loading => Active = {}
    /\ SpinnerIsPending /\ PreviewIsOfCell /\ ClosedIsEmpty
=============================================================================
