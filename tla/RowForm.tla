------------------------------- MODULE RowForm -------------------------------
(***************************************************************************)
(* The form for a row: what it shows of a row that was loaded, what its     *)
(* fields make of what is typed, and what a submission writes.  Several     *)
(* users have the form of one row open, each with the row as he loaded it.  *)
(***************************************************************************)
EXTENDS Naturals, FiniteSets

CONSTANTS Pages,       \* the tables that have a form: columns, and users who open it
          DataType,    \* of each column
          Nullable,    \* the columns with is_nullable
          Default      \* what the Target puts in a column that is left out

Types == {"text", "numeric", "interval", "boolean", "json"}

\* Values in the browser.  "" is the empty string, null the NULL of the Target;
\* "digits" and "broken" are strings that are JSON, and that are not.
Stored == [text    |-> {"", "digits", "broken", "null"},
           numeric |-> {"number", "null"},
           interval |-> {"span", "null"},
           boolean |-> {"true", "false", "null"},
           json    |-> {"object", "number", "digits", "broken", "null"}]
Typed == [text    |-> {"", "digits", "broken"},
          numeric |-> {"", "digits"},
          interval |-> {"", "digits"},
          boolean |-> {"true", "false"},
          json    |-> {"", "digits", "broken", "objectText"}]
Strings == {"digits", "broken", "objectText"}

VARIABLES page,      \* the table, which does not change
          row,       \* as the Target has it
          others,    \* rows that were created
          forms      \* each user's form: none, or one

vars == <<page, row, others, forms>>

Users == page.users
Columns == page.columns
Rows == {r \in [Columns -> UNION {Stored[type] : type \in Types}] :
           \A c \in Columns : /\ r[c] \in Stored[DataType[c]]
                              /\ r[c] = "null" => c \in Nullable}

New == [c \in Columns |-> "none"]  \* no initialValues

\* useState: what the row has, and "" for null.
InitialValues(initial) == [c \in Columns |-> IF initial[c] \in {"null", "none"} THEN "" ELSE initial[c]]

Opened(initial) == {[initial |-> initial, values |-> InitialValues(initial), touched |-> {}]}

Init == /\ page \in Pages
        /\ row \in Rows
        /\ others = {}
        /\ forms = [u \in Users |-> {}]

\* The row as it is loaded may be old; here it is what the row is, and grows old.
OpenEdit(u) ==
    /\ forms[u] = {}
    /\ forms' = [forms EXCEPT ![u] = Opened(row)]
    /\ UNCHANGED <<row, others>>

OpenCreate(u) ==
    /\ forms[u] = {}
    /\ forms' = [forms EXCEPT ![u] = Opened(New)]
    /\ UNCHANGED <<row, others>>

Cancel(u) ==
    /\ forms[u] # {}
    /\ forms' = [forms EXCEPT ![u] = {}]
    /\ UNCHANGED <<row, others>>

SetValue(u) ==
    /\ \E form \in forms[u], c \in Columns : \E v \in Typed[DataType[c]] :
         forms' = [forms EXCEPT ![u] = {[form EXCEPT !.values[c] = v,
                                                     !.touched = @ \union {c}]}]
    /\ UNCHANGED <<row, others>>

-----------------------------------------------------------------------------

\* JSON.parse, and Number, of a string; NaN travels as null.
FromJson(v) == CASE v = "digits" -> "number" [] v = "objectText" -> "object" [] OTHER -> "throws"
ToNumber(v) == CASE v = "digits" -> "number" [] v = "span" -> "null" [] OTHER -> v

\* By a part of the type's name: "int" is in "interval" too.
isNumericColumn(type) == type \in {"numeric", "interval"}

Parse(type, v) ==
    CASE isNumericColumn(type) -> ToNumber(v)
      [] type = "json" /\ v \in Strings -> FromJson(v)
      [] OTHER -> v

\* Mutant: a field left empty is left out of updates too.
PayloadOfFilled(form) ==
    [c \in {d \in Columns : form.values[d] # "" \/ (d \in Nullable /\ form.initial = New)} |->
       IF form.values[c] = "" THEN "null" ELSE Parse(DataType[c], form.values[c])]

\* A field left empty is NULL; for a new row, it is left out where NULL may not be.
LeftOut(form, c) == form.values[c] = "" /\ c \notin Nullable /\ form.initial = New

Payload(form) ==
    [c \in {d \in Columns : ~LeftOut(form, d)} |->
       IF form.values[c] = "" THEN "null" ELSE Parse(DataType[c], form.values[c])]

Throws(payload) == \E c \in DOMAIN payload : payload[c] = "throws"
\* What a column makes of a value: a number is so many seconds.
Kept(type, v) == IF type = "interval" /\ v = "number" THEN "span" ELSE v
Refused(payload) == \E c \in DOMAIN payload \ Nullable : payload[c] = "null"

\* An exception leaves the form as it is, and so does the Target's refusal, of a
\* NULL or for another reason.
Save(u) ==
    \E form \in forms[u] :
      LET payload == Payload(form)
      IN  /\ form.initial # New /\ ~Throws(payload) /\ ~Refused(payload)
          /\ row' = [c \in Columns |-> IF c \in DOMAIN payload THEN Kept(DataType[c], payload[c])
                                                            ELSE row[c]]
          /\ forms' = [forms EXCEPT ![u] = {}]
          /\ UNCHANGED others

Create(u) ==
    \E form \in forms[u] :
      LET payload == Payload(form)
      IN  /\ form.initial = New /\ ~Throws(payload) /\ ~Refused(payload)
          /\ others' = {[c \in Columns |-> IF c \in DOMAIN payload THEN Kept(DataType[c], payload[c])
                                                               ELSE Default[c]]}
          /\ forms' = [forms EXCEPT ![u] = {}]
          /\ UNCHANGED row

Next == /\ UNCHANGED page
        /\ \E u \in Users : \/ OpenEdit(u) \/ OpenCreate(u) \/ Cancel(u)
                            \/ SetValue(u) \/ Save(u) \/ Create(u)

Spec == Init /\ [][Next]_vars

-----------------------------------------------------------------------------

\* What the form cannot give back: empty text, JSON that is a string, and
\* intervals, which every save that the Target accepts makes NULL.
GivenBack(c, v) == v \notin {"", "span"} /\ (DataType[c] = "json" => v \notin Strings)

\* A save writes every column: those that were not changed in the form come back
\* as they were loaded, NULL as NULL, over what others saved in between.
UntouchedIsWritten(u) ==
    \A form \in forms[u] :
      Save(u) => \A c \in Columns \ form.touched :
                   GivenBack(c, form.initial[c]) => row'[c] = form.initial[c]

\* A field that was filled in and emptied again is as one never filled in: a
\* new row has NULL there, or the default where NULL may not be.
EmptyIsNull(u) ==
    \A form \in forms[u], c \in Columns :
      Create(u) /\ form.values[c] = "" =>
        \A r \in others' : r[c] = IF c \in Nullable THEN "null" ELSE Default[c]

\* What every step keeps: values are of their columns' types, one form at most is
\* open for each user, and what he did not touch in it is what was loaded.
FormOK(form) ==
    /\ form.initial \in Rows \union {New}
    /\ form.values = [c \in Columns |-> form.values[c]]
    /\ form.touched \subseteq Columns
    /\ \A c \in Columns \ form.touched : form.values[c] = InitialValues(form.initial)[c]
    /\ \A c \in form.touched : form.values[c] \in Typed[DataType[c]]

IInv ==
    /\ page \in Pages
    /\ row \in Rows
    /\ DOMAIN forms = Users
    /\ \A u \in Users : \A form \in forms[u] : forms[u] = {form} /\ FormOK(form)
=============================================================================
