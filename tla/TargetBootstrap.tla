--------------------------- MODULE TargetBootstrap ---------------------------
(***************************************************************************)
(* Bringing a Target project under SupaAdmin: the setup SQL somebody runs  *)
(* by hand in the Target's SQL editor, and the calls bootstrap.probe,      *)
(* bootstrap.apply and bootstrap.verify, which look for the functions that *)
(* SQL installs, GRANT the cached tables and mark the connection as ready. *)
(*                                                                         *)
(* The Target is another database: each RPC is a step, each read or write  *)
(* of Meta is another, and the Target's owner changes it in between.       *)
(***************************************************************************)
CONSTANTS Tables,   \* tables of the Target's public schema
          Calls     \* bootstrap requests under way at the same time

VARIABLES functions,  \* SupaAdmin functions the Target has
          existing,   \* tables the Target has
          granted,    \* tables GRANTed to authenticated and anon
          status,     \* connections.bootstrap_status
          cached,     \* connection_tables, the schema as last synchronised
          offered,    \* table lists of the setup SQL shown to somebody
          call        \* the bootstrap requests

targetVars == <<functions, existing, granted>>
metaVars == <<status, cached>>
bootVars == <<targetVars, metaVars, offered, call>>

\* A call's kind; its stage is "checking" in probeConnectionBootstrap and in
\* the probe of verify, "executing" in executeTargetBootstrap, which probes again.
Kinds == {"probe", "apply", "verify"}
Answers == {"ready", "pending", "error"}

-----------------------------------------------------------------------------

Readiness == INSTANCE TargetReadiness

Init == /\ Readiness!Init
        /\ granted = {}
        /\ cached \in SUBSET Tables
        /\ offered = {}
        /\ call = [c \in Calls |->
                     [kind |-> "probe", stage |-> "checking", at |-> "error",
                      tables |-> {}, mode |-> "none", quiet |-> FALSE]]

\* quiet: since the request began, no table it may GRANT was dropped or
\* synchronised anew, and its reads were answered.
Disturb == call' = [c \in Calls |-> [call[c] EXCEPT !.quiet = FALSE]]

\* buildManualSetupSql, run by hand in one transaction: a table that is gone
\* makes the GRANT fail, and everything with it.
RunManualSetup ==
    \E tables \in offered :
        /\ tables \subseteq existing
        /\ functions' = functions \union Readiness!SetupFunctions
        /\ granted' = granted \union tables
        /\ UNCHANGED <<existing, metaVars, offered, call>>

\* buildExecSqlMigrationSql: the new functions in place of exec_sql.  It does
\* not GRANT anything.
RunMigration ==
    /\ "exec_sql" \in functions
    /\ functions' = Readiness!SetupFunctions
    /\ UNCHANGED <<existing, granted, metaVars, offered, call>>

\* The owner of the Target drops a table, or makes it again without grants.
DropTable(t) ==
    /\ t \in existing
    /\ existing' = existing \ {t}
    /\ granted' = granted \ {t}
    /\ Disturb
    /\ UNCHANGED <<functions, metaVars, offered>>

CreateTable(t) ==
    /\ t \notin existing
    /\ existing' = existing \union {t}
    /\ UNCHANGED <<functions, granted, metaVars, offered, call>>

\* A schema synchronisation: the cached tables are deleted, then written anew.
SyncSchema ==
    /\ cached' \in {{}, existing}
    /\ Disturb
    /\ UNCHANGED <<targetVars, status, offered>>

-----------------------------------------------------------------------------

Update(c, record) == call' = [call EXCEPT ![c] = record]
Goto(c, at) == call' = [call EXCEPT ![c].at = at]

\* A request arrives and has read the credentials of the connection.
Start(c) ==
    /\ call[c].at \in Answers
    /\ \E kind \in Kinds :
         call' = [call EXCEPT ![c] =
                    [kind |-> kind, at |-> "list", tables |-> {}, mode |-> "none",
                     stage |-> IF kind = "apply" THEN "executing" ELSE "checking",
                     quiet |-> TRUE]]
    /\ UNCHANGED <<targetVars, metaVars, offered>>

\* getConnectionTableNames: a read that fails gives the empty list.
GetTableNames(c) ==
    /\ call[c].at = "list"
    /\ \/ Update(c, [call[c] EXCEPT !.at = "rpc", !.tables = cached])
       \/ Update(c, [call[c] EXCEPT !.at = "rpc", !.tables = {}, !.quiet = FALSE])
    /\ UNCHANGED <<targetVars, metaVars, offered>>

\* How a request ends that got no further.  probe does not look at the result
\* of executeTargetBootstrap.
Refused(c) ==
    IF call[c].kind = "probe"
    THEN IF call[c].stage = "checking" THEN "pending" ELSE "ready"
    ELSE "error"

\* The answer of probeTargetBootstrap: on to executeTargetBootstrap or to its
\* RPC; without a mode the setup SQL for the tables just read is handed out.
Probed(c, mode) ==
    IF mode = "none"
    THEN /\ Goto(c, Refused(c))
         /\ offered' = IF call[c].stage = "checking"
                       THEN offered \union {call[c].tables} ELSE offered
    ELSE /\ IF call[c].stage = "checking"
            THEN Update(c, [call[c] EXCEPT !.at = "list", !.stage = "executing"])
            ELSE Update(c, [call[c] EXCEPT !.at = "run", !.mode = mode])
         /\ UNCHANGED offered

\* The RPC supaadmin_bootstrap with no tables has no effect.  Only when it is
\* missing is exec_sql tried; any other failure leaves no mode.
ProbeBootstrap(c) ==
    /\ call[c].at = "rpc"
    /\ \/ "bootstrap" \in functions /\ Probed(c, "supaadmin")
       \/ /\ "bootstrap" \notin functions
          /\ Goto(c, "legacy")
          /\ UNCHANGED offered
       \/ Probed(c, "none")
    /\ UNCHANGED <<targetVars, metaVars>>

ProbeExecSql(c) ==
    /\ call[c].at = "legacy"
    /\ \/ "exec_sql" \in functions /\ Probed(c, "legacy")
       \/ Probed(c, "none")
    /\ UNCHANGED <<targetVars, metaVars>>

\* Mutant: the legacy bootstrap only GRANTs.
InstallNothing(c) ==
    \/ call[c].mode = "supaadmin" /\ "bootstrap" \in functions /\ UNCHANGED functions
    \/ call[c].mode = "legacy" /\ "exec_sql" \in functions /\ UNCHANGED functions

\* What the RPC of either mode installs.
Install(c) ==
    \/ call[c].mode = "supaadmin" /\ "bootstrap" \in functions /\ UNCHANGED functions
    \/ /\ call[c].mode = "legacy"
       /\ "exec_sql" \in functions
       /\ functions' = functions \union {"has_permission"}

\* Mutant: buildGrantSql takes its branch for no tables.
RunWithoutGrant(c) ==
    /\ call[c].at = "run"
    /\ Install(c)
    /\ Goto(c, "mark") \/ Goto(c, Refused(c))
    /\ UNCHANGED <<existing, granted, metaVars, offered>>

\* supaadmin_bootstrap(tables), or exec_sql of buildBootstrapApplySql: one
\* transaction that fails if a table is gone.  Its answer may be lost.
Run(c) ==
    /\ call[c].at = "run"
    /\ call[c].tables \subseteq existing
    /\ Install(c)
    /\ granted' = granted \union call[c].tables
    /\ \/ Goto(c, "mark")
       \/ Goto(c, Refused(c))
    /\ UNCHANGED <<existing, metaVars, offered>>

RunFails(c) ==
    /\ call[c].at = "run"
    /\ Goto(c, Refused(c))
    /\ UNCHANGED <<targetVars, metaVars, offered>>

\* markBootstrapReady: the result of the UPDATE is not looked at.
MarkBootstrapReady(c) ==
    /\ call[c].at = "mark"
    /\ status' \in {status, "ready"}
    /\ Goto(c, "ready")
    /\ UNCHANGED <<targetVars, cached, offered>>

Step(c) == \/ GetTableNames(c)
           \/ ProbeBootstrap(c)
           \/ ProbeExecSql(c)
           \/ Run(c)
           \/ RunFails(c)
           \/ MarkBootstrapReady(c)

Owner == \/ RunManualSetup
         \/ RunMigration
         \/ \E t \in Tables : DropTable(t) \/ CreateTable(t)

Next == \/ Owner
        \/ SyncSchema
        \/ \E c \in Calls : Start(c) \/ Step(c)

Spec == Init /\ [][Next]_bootVars

-----------------------------------------------------------------------------

\* The rest of the application sees a Target as TargetReadiness describes it.
ImplementsReadiness == Readiness!Spec

\* When apply or verify answers "ready" and nothing moved under it, every table
\* the application knows of is open to the roles its requests come with.
ReadyAnswerMeansGranted ==
    \A c \in Calls :
        (call[c].at = "ready" /\ call[c].kind # "probe" /\ call[c].quiet)
            => cached \subseteq granted

-----------------------------------------------------------------------------
(* The inductive invariant behind these properties.                         *)

Modes == {"none", "legacy", "supaadmin"}
Awaits == {"list", "rpc", "legacy", "run", "mark"}
CallRecords == [kind : Kinds, stage : {"checking", "executing"}, at : Awaits \union Answers,
                tables : SUBSET Tables, mode : Modes, quiet : BOOLEAN]

TypeOK == /\ functions \subseteq Readiness!Functions
          /\ existing \subseteq Tables
          /\ granted \subseteq Tables
          /\ status \in {"pending", "ready"}
          /\ cached \subseteq Tables
          /\ offered \subseteq SUBSET Tables
          /\ call \in [Calls -> CallRecords]

\* The RPC with a fixed purpose comes with the helper that policies call.
BootstrapHasHelper == "bootstrap" \in functions => "has_permission" \in functions

\* A request that goes on to its mark leaves a Target with the helper.
MarkHasHelper == \A c \in Calls : call[c].at = "mark" => "has_permission" \in functions

\* The tables of a request under which nothing moved are the cached ones, from
\* its read to its RPC, and granted after it.
QuietTables ==
    \A c \in Calls : call[c].quiet =>
        /\ call[c].at \in {"rpc", "legacy", "run"} => call[c].tables = cached
        /\ call[c].at = "mark" => cached \subseteq granted

IInv == /\ TypeOK
        /\ BootstrapHasHelper
        /\ MarkHasHelper
        /\ QuietTables
        /\ ReadyAnswerMeansGranted
=============================================================================
