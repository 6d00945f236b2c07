------------------------------ MODULE MCBrowser ------------------------------
(***************************************************************************)
(* Browser on small instances.                                              *)
(***************************************************************************)
EXTENDS Browser, TLC

\* Rows that are referenced by their keys.
MCReferenced == [r \in FieldRows |-> r]

\* Two users with the form of a row, of a column that has to have a value and
\* one that may be NULL; and one user with columns of all other types.
MCPages == {[columns |-> {"count", "data"}, users |-> {"u1", "u2"}],
            [columns |-> {"note", "count", "flag", "span"}, users |-> {"u1"}]}
MCDataType == [count |-> "numeric", data |-> "json", note |-> "text", flag |-> "boolean",
               span |-> "interval"]
MCDefault == [count |-> "number", data |-> "object", note |-> "digits", flag |-> "true",
              span |-> "null"]

MCTablesOf == [c \in Connections \union RoleConnections |-> MatrixTables]

\* In one connection the schema loses one of two tables and gets the other, and
\* both may be read; in the other there is a table that may not be read.
MCRights ==
    {[c1 |-> [cached |-> {t}, granted |-> {"t1", "setup"}],
      c2 |-> [cached |-> {"t1"}, granted |-> {}]] : t \in {"t1", "setup"}}

\* Beyond it the properties about somebody patient say nothing: s10 and s15 are
\* "overlapped", s14 is "failed".
Patient == /\ part = "table" => ~s10
           /\ part = "users" => ~s14 /\ ~s15

\* One of two connections is set up: s4 is "setup".
OneSetUp == part = "shell" => s4["c2"] = "complete"
==============================================================================
