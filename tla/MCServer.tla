------------------------------- MODULE MCServer -------------------------------
(***************************************************************************)
(* Server on small instances: two requests that are alike for each part    *)
(* that has requests, and of the rest what its properties need to go wrong.*)
(***************************************************************************)
EXTENDS Server, TLC

\* Two pairs of model values that are alike, and others.
CONSTANTS x1, x2, y1, y2, z1, z2

\* One table may reference another one, under two names of the column, with a
\* comment that says so, or something else; and there is a hidden one.
Id == [name |-> "id", data_type |-> "uuid", fk |-> "none", comment |-> "none"]
Title == [name |-> "title", data_type |-> "text", fk |-> "none", comment |-> "none"]
Ref(name, fk, comment) == [name |-> name, data_type |-> "uuid", fk |-> fk, comment |-> comment]
MCSchemas ==
    {[posts |-> {Id, Ref(name, fk, comment)}, users |-> {Id, Title}, hidden |-> {Id}]
       : name \in {"ref_id", "owner"}, fk \in {"none", "users"}, comment \in {"none", "posts"}}
    \union {[posts |-> {Id, Title}, users |-> {Id}, hidden |-> {Id}]}

\* The first characters of a URL, which the keys are made of, may be alike.
MCKeyOf == [c \in Targets |-> "key"]

Alike == Permutations({x1, x2}) \union Permutations({y1, y2})
=============================================================================
