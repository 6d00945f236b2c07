---------------------------- MODULE ForeignKeyMeta ----------------------------
(***************************************************************************)
(* How the browser comes to know the columns of a Target's tables, and the *)
(* foreign keys among them: read from the Target's OpenAPI description by a *)
(* schema sync, kept in connection_tables, given out by                     *)
(* connections.getAccessible through its contract, and used by the page of  *)
(* a table.  How a sync replaces the rows is ConnectionSchema's.            *)
(***************************************************************************)
EXTENDS FiniteSets

CONSTANTS Tables,
          Hidden,    \* those whose names start with an underscore
          Schemas,   \* what the Target's schema may be (instance)
          NoTable

VARIABLES target,    \* the Target's schema now
          cache,     \* connection_tables: per table its columns
          readable,  \* the tables the user may read
          page,      \* the page of a table: at most one
          inSync,    \* the Target is as it was when it was read (history)
          fresh      \* so is the cache since the page was loaded (history)

vars == <<target, cache, readable, page, inSync, fresh>>

NoTables == [t \in {} |-> {}]

-----------------------------------------------------------------------------

\* Mutant: what a column's comment says comes before the tag.
parseTextFirst(col) == IF col.comment # NoTable THEN {col.comment}
                       ELSE {col.fk} \ {NoTable}

\* parseForeignKeyFromOpenApiDescription: PostgREST describes a column by its
\* comment, and then a tag if it has a key; the tag is looked for first.
parseForeignKey(col) == IF col.fk # NoTable THEN {col.fk}
                        ELSE {col.comment} \ {NoTable}

\* What is cached of a column: only "id" is taken for a primary key.
Cached(col) == [name |-> col.name, data_type |-> col.data_type,
                is_primary_key |-> col.name = "id", foreign_key |-> parseForeignKey(col)]

\* fetchSchemaViaRest.
fetchSchemaViaRest ==
    [t \in Tables \ Hidden |-> {Cached(col) : col \in target[t]}]

\* The output of getAccessible is validated by its contract, whose columns
\* have no foreign_key: what a contract does not name is dropped.
columnMeta(col) == [name |-> col.name, data_type |-> col.data_type,
                    is_primary_key |-> col.is_primary_key, foreign_key |-> {}]
getAccessible == [t \in DOMAIN cache |-> {columnMeta(col) : col \in cache[t]}]

Init == /\ target \in Schemas /\ cache = NoTables
        /\ readable \in SUBSET Tables /\ page = {}
        /\ inSync = FALSE /\ fresh = FALSE

Migrate == /\ target' \in Schemas \ {target}
           /\ inSync' = FALSE
           /\ UNCHANGED <<cache, readable, page, fresh>>

\* An administrator's sync, or that of a CI job.
Sync == /\ fetchSchemaViaRest # NoTables
        /\ cache' = fetchSchemaViaRest
        /\ inSync' = TRUE
        /\ fresh' = (fresh /\ cache' = cache)
        /\ UNCHANGED <<target, readable, page>>

PermissionsChange == /\ readable' \in SUBSET Tables
                     /\ UNCHANGED <<target, cache, page, inSync, fresh>>

-----------------------------------------------------------------------------

\* The page of a table that may be read and is cached.
OpenTable(t) ==
    /\ t \in readable \intersect DOMAIN cache
    /\ page' = {[table |-> t, tables |-> getAccessible, readable |-> readable]}
    /\ fresh' = TRUE
    /\ UNCHANGED <<target, cache, readable, inSync>>

Leave == /\ page # {} /\ page' = {} /\ fresh' = FALSE
         /\ UNCHANGED <<target, cache, readable, inSync>>

\* needsForeignKeyResync: a uuid whose name ends in "_id", without a key.
needsForeignKeyResync(p) ==
    \E t \in DOMAIN p.tables : \E col \in p.tables[t] :
       col.data_type = "uuid" /\ col.name = "ref_id" /\ col.foreign_key = {}

\* The banner and its link lead to the page of the connection.
FollowBanner == (\E p \in page : needsForeignKeyResync(p)) /\ Leave

Next == \/ Migrate \/ Sync \/ PermissionsChange
        \/ \E t \in Tables : OpenTable(t)
        \/ Leave \/ FollowBanner

Spec == Init /\ [][Next]_vars

-----------------------------------------------------------------------------

\* While the Target is as it was read, each of its keys is cached for what it
\* references, whatever the comments of its columns say.
CachedKeysAreReal ==
    inSync => \A t \in DOMAIN cache : \A col \in target[t] :
                 col.fk # NoTable => Cached(col).foreign_key = {col.fk} /\ Cached(col) \in cache[t]

\* A page loaded since the last sync has the Target's columns, by name and type.
PageHasTheColumns ==
    inSync /\ fresh =>
      \A p \in page : \A t \in Tables \ Hidden :
         {<<col.name, col.data_type>> : col \in p.tables[t]}
           = {<<col.name, col.data_type>> : col \in target[t]}

-----------------------------------------------------------------------------
(* The inductive invariant behind these properties.                         *)

IInv == /\ inSync => cache = fetchSchemaViaRest
        /\ fresh => \A p \in page : p.tables = getAccessible
=============================================================================
