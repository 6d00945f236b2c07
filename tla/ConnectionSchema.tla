--------------------------- MODULE ConnectionSchema ---------------------------
(***************************************************************************)
(* Connections and the cache of their Target's schema: connections.create, *)
(* schemaSync (asked for by an administrator or by a webhook) and delete.  *)
(*                                                                         *)
(* A request fetches the Target's tables over REST and then replaces the   *)
(* rows of connection_tables, a DELETE and an INSERT that are transactions *)
(* of their own; other requests run between any two of its statements, and *)
(* each may fail, take effect without an answer, or be killed.             *)
(***************************************************************************)
CONSTANTS Ids,      \* ids of connections
          Tables,   \* names in the API description of the Target
          Hidden,   \* those that begin with an underscore
          Calls     \* requests under way at the same time

VARIABLES connections,  \* ids with a row in connections
          rows,         \* connection_tables: the table names of each id
          stamped,      \* ids whose schema_cached_at is set
          ready,        \* ids whose bootstrap_status is ready
          call,         \* the requests
          used,         \* ids handed out so far
          fetched,      \* for each id, the schemas fetched and not yet discarded (history)
          torn          \* ids whose last replacement ended halfway (history)

metaVars == <<connections, rows, stamped, ready>>
historyVars == <<used, fetched, torn>>
vars == <<metaVars, call, historyVars>>

Awaits == {"find", "fetch", "create", "clear", "insert", "stamp", "bootstrap", "delete"}

\* id is nobody as long as a creation has no row.
Nobody == "nobody"

Running(c) == call[c].at \in Awaits

Init == /\ connections = {}
        /\ rows = [i \in Ids |-> {}]
        /\ stamped = {}
        /\ ready = {}
        /\ call = [c \in Calls |-> [kind |-> "delete", at |-> "error", id |-> Nobody,
                                    tables |-> {}, quiet |-> FALSE]]
        /\ used = {}
        /\ fetched = [i \in Ids |-> {}]
        /\ torn = {}

-----------------------------------------------------------------------------

\* quiet: no other request was under way while this one was.
Start(c, kind, id) ==
    /\ ~Running(c)
    /\ call' = [d \in Calls |->
                  IF d = c
                  THEN [kind |-> kind, id |-> id, tables |-> {},
                        at |-> CASE kind = "create" -> "fetch"
                                 [] kind = "sync" -> "find"
                                 [] kind = "delete" -> "delete",
                        quiet |-> \A e \in Calls \ {c} : ~Running(e)]
                  ELSE [call[d] EXCEPT !.quiet = FALSE]]
    /\ UNCHANGED <<metaVars, historyVars>>

\* connections.create, once validateTargetUrl let the URL through.
CreateConnection(c) == Start(c, "create", Nobody)

\* syncConnectionSchemaWorkflow, from connections.schemaSync or the webhook,
\* for a connection that may be gone by now.
SyncConnectionSchema(c) == \E i \in used : Start(c, "sync", i)

\* connections.delete.
DeleteConnection(c) == \E i \in used : Start(c, "delete", i)

Goes(c, at) == call' = [call EXCEPT ![c].at = at]

\* A request that ends in an error forgets the tables it fetched.
GiveUp(c) ==
    call' = [call EXCEPT ![c].at = "error", ![c].tables = {}, ![c].quiet = FALSE]

\* findById; a connection that is gone is answered with notFound.
Find(c) ==
    /\ call[c].at = "find"
    /\ Goes(c, IF call[c].id \in connections THEN "fetch" ELSE "error")
    /\ UNCHANGED <<metaVars, historyVars>>

\* What is left of an API description, and whether that counts as an answer:
\* names with an underscore are skipped, and no table at all is an error.
PublicTables(definitions) == definitions \ Hidden

Fetched(c, at, tables) == call' = [call EXCEPT ![c].at = at, ![c].tables = tables]

\* fetchSchemaViaRest: the Target's owner may have changed its schema since the
\* last time, so any description can come back.
FetchSchemaViaRest(c) ==
    /\ call[c].at = "fetch"
    /\ \E definitions \in SUBSET Tables :
         LET tables == PublicTables(definitions)
         IN  IF tables = {}
             THEN /\ GiveUp(c)
                  /\ UNCHANGED fetched
             ELSE /\ Fetched(c, IF call[c].kind = "create" THEN "create" ELSE "clear", tables)
                  /\ fetched' = IF call[c].kind = "create" THEN fetched
                                ELSE [fetched EXCEPT ![call[c].id] = @ \union {tables}]
    /\ UNCHANGED <<metaVars, used, torn>>

\* INSERT INTO connections: always a new id, whatever the name and the URL.
InsertConnection(c) ==
    /\ call[c].at = "create"
    /\ \E i \in Ids \ used :
         /\ connections' = connections \union {i}
         /\ used' = used \union {i}
         /\ fetched' = [fetched EXCEPT ![i] = {call[c].tables}]
         /\ \/ call' = [call EXCEPT ![c].at = "clear", ![c].id = i]
            \/ call' = [call EXCEPT ![c].at = "error", ![c].id = i, ![c].tables = {},
                                    ![c].quiet = FALSE]
    /\ UNCHANGED <<rows, stamped, ready, torn>>

-----------------------------------------------------------------------------

\* Schemas some request holds for a connection.
Held(i) == {call[d].tables : d \in {d \in Calls : /\ call[d].id = i
                                                /\ call[d].at \in {"clear", "insert"}}}

\* replaceTables, first half; the answer to the DELETE may be lost.
ClearTables(c) ==
    /\ call[c].at = "clear"
    /\ rows' = [rows EXCEPT ![call[c].id] = {}]
    /\ fetched' = [fetched EXCEPT ![call[c].id] = Held(call[c].id)]
    /\ \/ Goes(c, "insert") /\ UNCHANGED torn
       \/ GiveUp(c) /\ torn' = torn \union {call[c].id}
    /\ UNCHANGED <<connections, stamped, ready, used>>

\* Mutant: the INSERT skips rows that are there.
InsertMissing(c) ==
    /\ call[c].at = "insert"
    /\ call[c].id \in connections
    /\ rows' = [rows EXCEPT ![call[c].id] = @ \union call[c].tables]
    /\ torn' = torn \ {call[c].id}
    /\ Goes(c, "stamp") \/ GiveUp(c)
    /\ UNCHANGED <<connections, stamped, ready, used, fetched>>

\* Second half: UNIQUE (connection_id, table_name) and the reference to the
\* connection make the INSERT fail as a whole.
InsertTables(c) ==
    /\ call[c].at = "insert"
    /\ call[c].id \in connections
    /\ rows[call[c].id] \cap call[c].tables = {}
    /\ rows' = [rows EXCEPT ![call[c].id] = @ \union call[c].tables]
    /\ torn' = torn \ {call[c].id}
    /\ Goes(c, "stamp") \/ GiveUp(c)
    /\ UNCHANGED <<connections, stamped, ready, used, fetched>>

\* updateSchemaCachedAt changes nothing, without an error, on a row that is gone.
UpdateSchemaCachedAt(c) ==
    /\ call[c].at = "stamp"
    /\ stamped' = stamped \union ({call[c].id} \cap connections)
    /\ \/ Goes(c, IF call[c].kind = "create" THEN "bootstrap" ELSE "ok")
       \/ GiveUp(c)
    /\ UNCHANGED <<connections, rows, ready, historyVars>>

\* What is left of createConnection: the probe, executeTargetBootstrap, which
\* may write the status, and another findById.
Bootstrap(c) ==
    /\ call[c].at = "bootstrap"
    /\ ready' \in {ready, ready \union ({call[c].id} \cap connections)}
    /\ Goes(c, "ok") \/ GiveUp(c)
    /\ UNCHANGED <<connections, rows, stamped, historyVars>>

\* DELETE FROM connections, which takes the cached tables with it.
DeleteRow(c) ==
    /\ call[c].at = "delete"
    /\ connections' = connections \ {call[c].id}
    /\ rows' = [rows EXCEPT ![call[c].id] = {}]
    /\ stamped' = stamped \ {call[c].id}
    /\ ready' = ready \ {call[c].id}
    /\ torn' = torn \ {call[c].id}
    /\ Goes(c, "ok") \/ GiveUp(c)
    /\ UNCHANGED <<used, fetched>>

\* The await fails without an effect, or the process is killed there.
Fails(c) ==
    /\ Running(c)
    /\ GiveUp(c)
    /\ torn' = IF call[c].at = "insert" THEN torn \union ({call[c].id} \cap connections)
               ELSE torn
    /\ UNCHANGED <<metaVars, used, fetched>>

Request(c) == \/ CreateConnection(c)
              \/ SyncConnectionSchema(c)
              \/ DeleteConnection(c)

Step(c) == \/ Find(c)
           \/ FetchSchemaViaRest(c)
           \/ InsertConnection(c)
           \/ ClearTables(c)
           \/ InsertTables(c)
           \/ UpdateSchemaCachedAt(c)
           \/ Bootstrap(c)
           \/ DeleteRow(c)
           \/ Fails(c)

Next == \E c \in Calls : Request(c) \/ Step(c)

Spec == Init /\ [][Next]_vars

-----------------------------------------------------------------------------

\* What is cached of a connection are whole schemas that some request fetched,
\* and that share no table.
Whole(i) == \E S \in SUBSET fetched[i] :
               /\ rows[i] = UNION S
               /\ \A A, B \in S : A = B \/ A \cap B = {}

\* Requests that overlap never leave a connection with parts of a schema.  A
\* Target that always keeps one of its tables thus never sees two of them mixed.
SchemasStayWhole == \A i \in Ids : Whole(i)

\* A connection whose schema was cached once shows no tables only while a request
\* stands between its DELETE and its INSERT, or after one ended there.
EmptyHasCause ==
    \A i \in stamped : rows[i] = {} =>
        i \in torn \/ \E c \in Calls : call[c].id = i /\ call[c].at = "insert"

\* A synchronisation or creation that had the application for itself and answered
\* success has left exactly the tables it found, dated; a deletion, nothing.
QuietCallIsExact ==
    \A c \in Calls : call[c].quiet /\ call[c].at = "ok" =>
        LET i == call[c].id
        IN  IF call[c].kind = "delete"
            THEN i \notin connections /\ rows[i] = {}
            ELSE rows[i] = call[c].tables /\ i \in stamped /\ rows[i] # {}

-----------------------------------------------------------------------------
(* The inductive invariant behind these properties.                         *)

Records == [kind : {"create", "sync", "delete"}, at : Awaits \union {"ok", "error"},
            id : Ids \union {Nobody}, tables : SUBSET Tables, quiet : BOOLEAN]

TypeOK ==
    /\ rows \in [Ids -> SUBSET Tables]
    /\ fetched \in [Ids -> SUBSET SUBSET Tables]
    /\ call \in [Calls -> Records]
    /\ used \subseteq Ids /\ connections \subseteq used
    /\ stamped \subseteq connections

\* A connection that is not, or no longer, there has no rows.
RowsAreOfConnections == \A i \in Ids : i \notin connections => rows[i] = {}

\* What a request is about, and has fetched.
CallFits(c) ==
    LET r == call[c] IN
    /\ r.id # Nobody => r.id \in used
    /\ r.at \in {"clear", "insert", "stamp", "bootstrap", "find", "delete"} => r.id # Nobody
    /\ r.at = "fetch" /\ r.kind # "create" => r.id # Nobody
    /\ r.at = "delete" <=> r.kind = "delete" /\ r.at \notin {"ok", "error"}
    /\ r.at = "bootstrap" => r.kind = "create"
    /\ r.at \in {"create", "clear", "insert"} => r.tables # {}
    /\ r.at \in {"clear", "insert"} => r.tables \in fetched[r.id]

\* How far a request is that had the application for itself.
QuietFits(c) ==
    LET r == call[c] IN
    r.quiet =>
      /\ \A d \in Calls \ {c} : ~Running(d)
      /\ r.at = "insert" => rows[r.id] = {}
      /\ r.at \in {"stamp", "bootstrap"} =>
           rows[r.id] = r.tables /\ r.tables # {} /\ r.id \in connections
      /\ r.at = "bootstrap" => r.id \in stamped

\* No tables, yet with a stamp or about to get one: a replacement is under way,
\* or one ended halfway.
Gap(i) == rows[i] = {} => i \in torn \/ \E c \in Calls : call[c].id = i /\ call[c].at = "insert"
StampedHaveRows ==
    \A i \in connections :
        i \in stamped \/ (\E c \in Calls : call[c].id = i /\ call[c].at = "stamp") => Gap(i)

IInv == /\ TypeOK /\ RowsAreOfConnections
        /\ \A c \in Calls : CallFits(c) /\ QuietFits(c)
        /\ StampedHaveRows
        /\ SchemasStayWhole /\ QuietCallIsExact
=============================================================================
