-------------------------------- MODULE Server --------------------------------
(***************************************************************************)
(* The handlers of the server side by side.  They share no state, so each  *)
(* behaviour is one part's: "part" says whose.  User creation has its own  *)
(* variables, constants and names; the other parts are instances that keep *)
(* their variables in s1 to s8, the others being 0.                        *)
(***************************************************************************)
EXTENDS UserCreation

CONSTANTS
    Requests,                            \* under way at the same time
    BootTables,                          \* TargetBootstrap
    RlsTables, RlsRoles, Actions,        \* RlsSync
    Ids, SchemaTables, HiddenTables,     \* ConnectionSchema
    MetaTables, HiddenMeta, Schemas,     \* ForeignKeyMeta
    Secrets,                             \* WebhookSecret
    Admins, Members, Targets, TargetTables, TargetEmails,
    Browsers, Provisions, Keys, KeyOf, MaxChanges,      \* TargetSession
    Askers, SurfaceLimit,                 \* OrpcSurface
    Limited, Limit, Second, Window, MaxTime,            \* RateLimit
    Contexts, Jobs, Actors, PoolMax, Connections        \* DbContext

VARIABLES part, s1, s2, s3, s4, s5, s6, s7, s8

state == <<s1, s2, s3, s4, s5, s6, s7, s8>>

Boot == INSTANCE TargetBootstrap WITH Tables <- BootTables, Calls <- Requests,
            functions <- s1, existing <- s2, status <- s3, granted <- s4,
            cached <- s5, offered <- s6, call <- s7

Rls == INSTANCE RlsSync WITH Tables <- RlsTables, Roles <- RlsRoles,
            functions <- s1, existing <- s2, status <- s3, rows <- s4,
            policies <- s5, secured <- s6, lost <- s7, req <- s8

Schema == INSTANCE ConnectionSchema WITH Tables <- SchemaTables,
            Hidden <- HiddenTables, Calls <- Requests,
            connections <- s1, rows <- s2, stamped <- s3, ready <- s4,
            call <- s5, used <- s6, fetched <- s7, torn <- s8

Meta == INSTANCE ForeignKeyMeta WITH Tables <- MetaTables, Hidden <- HiddenMeta,
            NoTable <- "none",
            target <- s1, cache <- s2, readable <- s3, page <- s4, inSync <- s5, fresh <- s6

Secret == INSTANCE WebhookSecret WITH Calls <- Requests,
            stored <- s1, answered <- s2, call <- s3, used <- s4, retired <- s5

Session == INSTANCE TargetSession WITH Connections <- Targets, Tables <- TargetTables,
            Emails <- TargetEmails,
            granted <- s1, mapping <- s2, account <- s3, ever <- s4, provision <- s5,
            slot <- s6, connect <- s7, changes <- s8

Surface == INSTANCE OrpcSurface WITH Users <- Askers, Nobody <- "nobody", Limit <- SurfaceLimit,
            session <- s1, role <- s2, connection <- s3, members <- s4,
            calls <- s5, used <- s6, where <- s7, was <- s8

Limiter == INSTANCE RateLimit WITH Calls <- Limited,
            now <- s1, counter <- s2, call <- s3

Pools == INSTANCE DbContext WITH context <- s1, session <- s2, job <- s3

\* The names that stand for nothing are nobody's and nothing's.
ASSUME SecretAssumption == Secret!None \notin Secrets
ASSUME SchemaAssumption == Schema!Nobody \notin Ids
ASSUME SurfaceAssumption == "nobody" \notin Askers
ASSUME SessionAssumption ==
    /\ Session!None \notin Session!Users \union Targets \union TargetEmails
    /\ KeyOf \in [Targets -> Keys]
ASSUME LimiterAssumption == /\ Limit \in Nat /\ MaxTime \in Nat
                            /\ Second \in Nat \ {0} /\ Window \in Nat \ {0}

ServerInit ==
    /\ Init
    /\ \/ part = "users" /\ s1 = 0 /\ s2 = 0 /\ s3 = 0 /\ s4 = 0 /\ s5 = 0 /\ s6 = 0 /\ s7 = 0 /\ s8 = 0
       \/ part = "bootstrap" /\ Boot!Init /\ s8 = 0
       \/ part = "rls" /\ Rls!RlsInit
       \/ part = "schema" /\ Schema!Init
       \/ part = "keys" /\ Meta!Init /\ s7 = 0 /\ s8 = 0
       \/ part = "secret" /\ Secret!Init /\ s6 = 0 /\ s7 = 0 /\ s8 = 0
       \/ part = "session" /\ Session!Init
       \/ part = "surface" /\ Surface!Init
       \/ part = "limit" /\ Limiter!Init /\ s4 = 0 /\ s5 = 0 /\ s6 = 0 /\ s7 = 0 /\ s8 = 0
       \/ part = "contexts" /\ Pools!Init /\ s4 = 0 /\ s5 = 0 /\ s6 = 0 /\ s7 = 0 /\ s8 = 0

ServerNext ==
    /\ UNCHANGED part
    /\ \/ part = "users" /\ Next /\ UNCHANGED state
       \/ /\ UNCHANGED vars
          /\ \/ part = "bootstrap" /\ Boot!Next /\ UNCHANGED s8
             \/ part = "rls" /\ Rls!RlsNext
             \/ part = "schema" /\ Schema!Next
             \/ part = "keys" /\ Meta!Next /\ UNCHANGED <<s7, s8>>
             \/ part = "secret" /\ Secret!Next /\ UNCHANGED <<s6, s7, s8>>
             \/ part = "session" /\ Session!Next
             \/ part = "surface" /\ Surface!Next
             \/ part = "limit" /\ Limiter!Next /\ UNCHANGED <<s4, s5, s6, s7, s8>>
             \/ part = "contexts" /\ Pools!Next /\ UNCHANGED <<s4, s5, s6, s7, s8>>

ServerSpec == ServerInit /\ [][ServerNext]_<<part, vars, state>>
-----------------------------------------------------------------------------
\* When bootstrapApply or bootstrapVerify answers "ready" and nothing moved under
\* it, every table the application knows of is open to the Target's roles.
ReadyAnswerMeansGranted == part = "bootstrap" => Boot!ReadyAnswerMeansGranted

\* TargetBootstrap implements TargetReadiness: whichever way a Target is set up,
\* by the RPC, the SQL editor or the legacy exec_sql, and however probe, apply
\* and verify overlap, the row says ready only after the helper is there.
ImplementsReadiness ==
    /\ part = "bootstrap" => Boot!Readiness!Init
    /\ [][part = "bootstrap" => Boot!Readiness!Next]_<<s1, s2, s3>>

\* The policies on the Target follow the saves: none is missing without a save
\* to blame for it, and there is none that was never saved or is not enforced,
\* however updatePermissions and synchronisations overlap or fail.
PoliciesFollowSaves == part = "rls" => Rls!GrantsAreCovered /\ Rls!PoliciesComeFromSaves

\* The cached schema of a connection is made of whole schemas, is empty only for
\* a cause, and is exact after a call that nothing interfered with: createConnection,
\* the syncs and deleteConnection write it statement by statement.
CachedSchemaIsSound ==
    part = "schema" => Schema!SchemasStayWhole /\ Schema!EmptyHasCause /\ Schema!QuietCallIsExact

\* What a page of a table works with is what the Target has: foreign keys as they
\* are, whatever the comments say, and columns by name and type, through
\* introspection, cache and contract.
MetaIsReal == part = "keys" => Meta!CachedKeysAreReal /\ Meta!PageHasTheColumns

\* A webhook secret that was replaced opens nothing any more, a revealed one is
\* replaced, and what rotate answers is what deliveries are checked against.
SecretsAreRetired ==
    part = "secret" => Secret!RetiredSecretsRefused /\ Secret!RevealRetires /\ Secret!RotatedSecretWorks

\* The claims of a Target account were granted to whom they were written for, and
\* a connect form that nobody interfered with leaves exactly the current ones:
\* mapping, app_metadata and session are written one after the other.
ClaimsAreGranted == part = "session" => Session!ClaimsWereGranted /\ Session!QuietConnectIsExact

\* A member has a session only on an account that was given to him, and two
\* members never share one, whatever is typed and wherever a call stops.
AccountsArePersonal == part = "session" => Session!MembersKeepTheirAccounts /\ Session!OneMemberPerAccount

\* What a procedure answers had its grounds at some time since it was called,
\* whatever changes between the gates, the access check and the work.
AnswersAreTrue == part = "surface" => Surface!OkHadItsGrounds /\ Surface!RefusalsAreTrue

\* At most the limit is allowed per window, whoever dies on the way; a counter
\* lives on only for who died; and whoever waits as told comes in another window.
LimitIsKept ==
    part = "limit" => Limiter!AtMostLimitPerWindow /\ Limiter!CountersExpire /\ Limiter!RetryIsEnough

\* What runs for a member sees his claim, nothing else sees any, and none is left
\* on a connection that waits in its pool.
ClaimsAreLocal == part = "contexts" => Pools!ActsForItsActor /\ Pools!ClaimsEnd
=============================================================================
