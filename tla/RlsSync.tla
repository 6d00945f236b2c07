------------------------------- MODULE RlsSync -------------------------------
(***************************************************************************)
(* Row level security on the Target: roles.updatePermissions, which saves  *)
(* the permissions of a role in Meta and synchronises the Target, and      *)
(* connectionsRls.apply, which only synchronises.  It builds upon what     *)
(* TargetReadiness says of the Target whose functions it calls.            *)
(*                                                                         *)
(* A synchronisation reads all permissions of the connection, turns them   *)
(* into SQL and sends it; other saves run between any two of its calls.    *)
(***************************************************************************)
EXTENDS TargetReadiness

CONSTANTS Roles,
          Actions,   \* can_read, can_create, can_update, can_delete
          Requests   \* saves and synchronisations, each of them sent once

VARIABLES rows,      \* role_permissions of the connection
          policies,  \* <<table, action>> for which the Target has a policy
          secured,   \* tables with row level security enabled
          lost,      \* tables dropped since the beginning (history)
          req        \* the requests

rlsVars == <<rows, policies, secured, lost, req>>
vars == <<readinessVars, rlsVars>>

RowSet == [role : Roles, table : Tables, actions : SUBSET Actions]
\* The input of a save names a table once: UNIQUE (role, connection, table).
Inputs(role) == {S \in SUBSET {r \in RowSet : r.role = role} :
                    \A r, s \in S : r.table = s.table => r = s}

SaveAwaits == {"delete", "insert"}

RlsInit == /\ Init
           /\ rows = {}
           /\ policies = {}
           /\ secured = {}
           /\ lost = {}
           /\ req \in [Requests ->
                {[at |-> "new", role |-> r, input |-> {}, save |-> FALSE,
                  sql |-> {}, mode |-> "none", read |-> FALSE] : r \in Roles}]

Goes(q, at) == req' = [req EXCEPT ![q].at = at]

-----------------------------------------------------------------------------

\* updateRolePermissionsWorkflow, or applyConnectionRls.
Send(q) ==
    /\ req[q].at = "new"
    /\ \/ \E input \in Inputs(req[q].role) :
            req' = [req EXCEPT ![q].at = "delete", ![q].input = input, ![q].save = TRUE]
       \/ Goes(q, "credentials")
    /\ UNCHANGED <<readinessVars, rows, policies, secured, lost>>

\* replaceRolePermissions: the DELETE and the INSERT are transactions apart.
DeleteRows(q) ==
    /\ req[q].at = "delete"
    /\ rows' = {r \in rows : r.role # req[q].role}
    /\ \/ Goes(q, IF req[q].input = {} THEN "credentials" ELSE "insert")
       \/ Goes(q, "failed")
    /\ UNCHANGED <<readinessVars, policies, secured, lost>>

\* The INSERT violates the UNIQUE constraint if another save was faster.
InsertRows(q) ==
    /\ req[q].at = "insert"
    /\ \A r \in rows, s \in req[q].input : r.role # s.role \/ r.table # s.table
    /\ rows' = rows \union req[q].input
    /\ Goes(q, "credentials") \/ Goes(q, "failed")
    /\ UNCHANGED <<readinessVars, policies, secured, lost>>

SaveFails(q) ==
    /\ req[q].at \in SaveAwaits
    /\ Goes(q, "failed")
    /\ UNCHANGED <<readinessVars, rows, policies, secured, lost>>

-----------------------------------------------------------------------------

\* A save that is not synchronised says so; apply throws.
Unsynced(q) == IF req[q].save THEN "unsynced" ELSE "failed"

\* loadConnectionCredentials, and assertConnectionBootstrapReady once more.
CheckReady(q) ==
    /\ \/ /\ req[q].at = "credentials"
          /\ IF status = "ready" THEN Goes(q, "assert")
                                 ELSE Goes(q, Unsynced(q))
       \/ /\ req[q].at = "assert"
          /\ IF status = "ready" THEN Goes(q, "preview")
                                 ELSE Goes(q, "failed")
       \/ /\ req[q].at \in {"credentials", "assert"}
          /\ Goes(q, "failed")
    /\ UNCHANGED <<readinessVars, rows, policies, secured, lost>>

Reads(q, sql, read) ==
    req' = [req EXCEPT ![q].at = "probe", ![q].sql = sql, ![q].read = read]

\* previewRlsSync: a read that fails counts as "no permissions".  The names of
\* the roles, read next, only name the policies.
PreviewRlsSync(q) ==
    /\ req[q].at = "preview"
    /\ \/ Reads(q, rows, TRUE)
       \/ Reads(q, {}, FALSE)
    /\ UNCHANGED <<readinessVars, rows, policies, secured, lost>>

Probed(q, at, mode) == req' = [req EXCEPT ![q].at = at, ![q].mode = mode]

\* probeTargetBootstrap.  Any mode but supaadmin leads to exec_sql.
ProbeTarget(q) ==
    /\ \/ /\ req[q].at = "probe"
          /\ \/ "bootstrap" \in functions /\ Probed(q, "apply", "supaadmin")
             \/ "bootstrap" \notin functions /\ Goes(q, "legacy")
             \/ Goes(q, "fallback")
       \/ /\ req[q].at = "legacy"
          /\ \/ "exec_sql" \in functions /\ Probed(q, "fallback", "legacy")
             \/ Goes(q, "fallback")
    /\ UNCHANGED <<readinessVars, rows, policies, secured, lost>>

\* generateRlsSql: a policy per granted right.
Grants(S) == {<<r.table, a>> : r \in S, a \in Actions} \cap
             UNION {{r.table} \X r.actions : r \in S}

\* Its statements, as they are between the semicolons and without comments: all
\* begin with a line end, the first with those of the heading, which is all
\* that there is if nobody has permissions.
generateRlsSql(S) ==
    [does : {"enable"}, on : {r.table : r \in S}, begins : {"line end"}]
    \union [does : {"drop", "create"}, on : Grants(S), begins : {"line end"}]
    \union (IF S = {} THEN {[does |-> "nothing", begins |-> "line end"]} ELSE {})

\* Mutant: the SQL drops every policy with the prefix first.
ApplyFromScratch(sql) ==
              /\ {r.table : r \in sql} \subseteq existing
              /\ Grants(sql) # {} => "has_permission" \in functions
              /\ secured' = secured \union {r.table : r \in sql}
              /\ policies' = Grants(sql)

\* What a run of the SQL does, in one transaction: RLS on for every table that
\* has a row, and each granted action's policy dropped by name and made again.
\* Policies of rights that are no longer granted are not dropped.
Apply(sql) == /\ {r.table : r \in sql} \subseteq existing
              /\ Grants(sql) # {} => "has_permission" \in functions
              /\ secured' = secured \union {r.table : r \in sql}
              /\ policies' = policies \union Grants(sql)

\* supaadmin_apply_rls_sql: a statement has to begin with one of three phrases,
\* of what comes before them only spaces are cut; and a denied keyword must not
\* follow a space, as it does in each CREATE POLICY: FOR SELECT, FOR INSERT...
Refused(s) == \/ s.does = "nothing" \/ s.begins \notin {"phrase", "space"}
              \/ s.does = "create"
Admitted(S) == \A s \in generateRlsSql(S) : ~Refused(s)

\* The SQL is run; the answer may be lost.
Run(q) == /\ Apply(req[q].sql)
          /\ Goes(q, "synced") \/ Goes(q, Unsynced(q))

ApplyRlsSql(q) ==
    /\ req[q].at = "apply"
    /\ IF "apply_rls" \in functions
       THEN Admitted(req[q].sql) /\ Run(q)
       ELSE Goes(q, "fallback") /\ UNCHANGED <<policies, secured>>
    /\ UNCHANGED <<readinessVars, rows, lost>>

ExecSql(q) ==
    /\ req[q].at = "fallback"
    /\ "exec_sql" \in functions
    /\ Run(q)
    /\ UNCHANGED <<readinessVars, rows, lost>>

\* The SQL was refused, or failed, or never got there.
ApplyFails(q) ==
    /\ req[q].at \in {"apply", "fallback"}
    /\ Goes(q, Unsynced(q))
    /\ UNCHANGED <<readinessVars, rows, policies, secured, lost>>

RequestStep(q) == \/ Send(q)
                  \/ DeleteRows(q)
                  \/ InsertRows(q)
                  \/ SaveFails(q)
                  \/ CheckReady(q)
                  \/ PreviewRlsSync(q)
                  \/ ProbeTarget(q)
                  \/ ApplyRlsSql(q)
                  \/ ExecSql(q)
                  \/ ApplyFails(q)

\* What goes on at the Target and in its bootstrap; a dropped table takes
\* its policies with it.
Elsewhere ==
    /\ Next
    /\ policies' = {p \in policies : p[1] \in existing'}
    /\ secured' = secured \cap existing'
    /\ lost' = lost \union (existing \ existing')
    /\ UNCHANGED <<rows, req>>

RlsNext == Elsewhere \/ \E q \in Requests : RequestStep(q)

RlsSpec == RlsInit /\ [][RlsNext]_vars

-----------------------------------------------------------------------------

\* Every right in Meta can be used on the Target, or there is a save of it that
\* did not answer "synced", or that was synchronised blindly because the read of
\* the permissions failed: overlapping saves and a synchronisation that is
\* applied late never undo what a later one has brought over.
Excused(r) == \E q \in Requests : /\ r \in req[q].input
                                  /\ req[q].at # "synced" \/ ~req[q].read

GrantsAreCovered ==
    \A r \in rows : \A a \in r.actions :
        <<r.table, a>> \in policies \/ r.table \in lost \/ Excused(r)

\* The other direction: the Target has no policy nobody ever saved, and none
\* that RLS does not enforce.
PoliciesComeFromSaves ==
    \A p \in policies :
        /\ p[1] \in secured
        /\ \E q \in Requests : \E r \in req[q].input : p[1] = r.table /\ p[2] \in r.actions

\* "Enables SupaAdmin RLS sync via allowlisted RPCs": what generateRlsSql makes
\* of the saved permissions gets through the allowlist.
AllowlistAdmitsSync ==
    \A q \in Requests :
        req[q].at = "apply" /\ "apply_rls" \in functions => Admitted(req[q].sql)

-----------------------------------------------------------------------------
(* The inductive invariant behind these properties.                         *)

Syncing == {"credentials", "assert", "preview", "probe", "legacy", "apply", "fallback"}
\* Where the SQL is there, and where it has not been run.
Generated == {"probe", "legacy", "apply", "fallback", "synced"}
NotSaved == {"new", "delete", "insert"}

Records == [at : NotSaved \union Syncing \union {"failed", "synced", "unsynced"}, role : Roles,
            input : SUBSET RowSet, save : BOOLEAN, sql : SUBSET RowSet,
            mode : {"none", "supaadmin", "legacy"}, read : BOOLEAN]

TypeOK ==
    /\ rows \subseteq RowSet
    /\ policies \subseteq Tables \X Actions
    /\ existing \subseteq Tables /\ secured \subseteq existing
    /\ req \in [Requests -> Records]

Fresh == \A q \in Requests : req[q].at = "new" => req[q].input = {}

\* A row is there because of a request that has inserted it.
Brought(r, q) == /\ r \in req[q].input
                 /\ req[q].at \notin NotSaved
                 /\ req[q].at \in Generated /\ req[q].read => r \in req[q].sql
RowsWereSaved == \A r \in rows : \E q \in Requests : Brought(r, q)

\* So is a row in the SQL of a request; what it grants is a policy once it was run.
SqlIsApplied ==
    \A q \in Requests : \A r \in req[q].sql :
        /\ \E s \in Requests : r \in req[s].input
        /\ req[q].at = "synced" =>
             \A a \in r.actions : <<r.table, a>> \in policies \/ r.table \in lost

IInv == TypeOK /\ Fresh /\ RowsWereSaved /\ SqlIsApplied /\ PoliciesComeFromSaves
=============================================================================
