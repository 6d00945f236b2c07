---------------------------- MODULE OrpcSurface ----------------------------
(***************************************************************************)
(* The procedures of the application and the way of a call through them:   *)
(* the session is read, the call counted, a gate passed, the input         *)
(* validated, access to a connection checked, the work done, and an error  *)
(* given its code; everything read on the way may change before the next   *)
(* step.  What a procedure does is the matter of the other modules: here   *)
(* it only makes and deletes the one connection, prepares its Target, and  *)
(* changes who is a member.                                                *)
(***************************************************************************)
EXTENDS Naturals

CONSTANTS Users,
          Nobody,
          Limit     \* calls per window: 100 in the code

VARIABLES session,     \* per user: does his Meta session live
          role,        \* per user: the role of his profile
          connection,  \* "gone", "pending" or "ready"
          members,     \* its members
          calls,       \* per user: his call
          used,        \* per key: calls counted in this window
          where,       \* per user: what his browser shows
          was          \* per call: what was true at some time since it was sent (history)

vars == <<session, role, connection, members, calls, used, where, was>>

-----------------------------------------------------------------------------

\* The contract: per procedure the fields of its input.

setupContract == [createAdmin |-> {"email", "password", "displayName", "setupSecret"},
                  isComplete |-> {}]

connectionsContract ==
    [list |-> {}, create |-> {"name", "url", "anonKey", "serviceRoleKey"},
     get |-> {"id"}, delete |-> {"id"},
     listAccessible |-> {}, getAccessible |-> {"id"}, getAnonKey |-> {"id"},
     schemaSync |-> {"id"},
     bootstrapProbe |-> {"id"}, bootstrapApply |-> {"id"}, bootstrapVerify |-> {"id"},
     onboardingStatus |-> {"id"}, syncPermissions |-> {"connectionId", "targetEmail"},
     rotateWebhookSecret |-> {"id"}, revealWebhookSecret |-> {"id"}]

connectionsRlsContract == [preview |-> {"id"}, apply |-> {"id"}]

rolesContract == [list |-> {}, create |-> {"name", "description"},
                  getPermissions |-> {"roleId", "connectionId"},
                  updatePermissions |-> {"roleId", "connectionId", "permissions"}]

usersContract == [list |-> {}, create |-> {"email", "password", "displayName", "role"},
                  get |-> {"id"}, update |-> {"id", "roleIds", "connectionIds"}]

provisionContract == [createUser |-> {"connectionId", "userId", "email", "password"}]

appContract == [shell |-> {}]
dashboardContract == [stats |-> {}]
healthContract == [ping |-> {}]

accessContract == [getUserOverrides |-> {"userId", "connectionId"},
                   updateUserOverrides |-> {"userId", "connectionId", "overrides"}]

contract == [setup |-> setupContract, connections |-> connectionsContract,
             connectionsRls |-> connectionsRlsContract, roles |-> rolesContract,
             users |-> usersContract, access |-> accessContract,
             provision |-> provisionContract, app |-> appContract,
             dashboard |-> dashboardContract, health |-> healthContract]

Procedures == UNION {{r} \X DOMAIN contract[r] : r \in DOMAIN contract}

Input(p) == contract[p[1]][p[2]]

\* The procedures of one connection.
OfConnection(p) == \/ "connectionId" \in Input(p)
                   \/ p[1] \in {"connections", "connectionsRls"} /\ "id" \in Input(p)

-----------------------------------------------------------------------------

\* The handlers: per procedure the gate in front of it.

AllBehind(gate, procedures) == [p \in DOMAIN procedures |-> gate]

setupHandlers == AllBehind("open", setupContract)

connectionsHandlers ==
    [p \in DOMAIN connectionsContract |->
       IF p \in {"listAccessible", "getAccessible", "getAnonKey",
                 "onboardingStatus", "syncPermissions"} THEN "withAuth" ELSE "withAdmin"]

connectionsRlsHandlers == AllBehind("withAdmin", connectionsRlsContract)
rolesHandlers == AllBehind("withAdmin", rolesContract)
usersHandlers == AllBehind("withAdmin", usersContract)
provisionHandlers == AllBehind("withAdmin", provisionContract)
appHandlers == AllBehind("withAuth", appContract)
dashboardHandlers == AllBehind("withAdmin", dashboardContract)
healthHandlers == AllBehind("open", healthContract)
accessHandlers == AllBehind("withAdmin", accessContract)

router == [setup |-> setupHandlers, connections |-> connectionsHandlers,
           connectionsRls |-> connectionsRlsHandlers, roles |-> rolesHandlers,
           users |-> usersHandlers, access |-> accessHandlers,
           provision |-> provisionHandlers, app |-> appHandlers,
           dashboard |-> dashboardHandlers, health |-> healthHandlers]

Gate(p) == router[p[1]][p[2]]

-----------------------------------------------------------------------------

Roles == {"platform_admin", "member"}

\* orpcCodeFromErrorCode, by the last part of a domain error's code; the errors
\* that have only their package and label are the caller's fault, too.
orpcCodeFromErrorCode(code) ==
    CASE code = "not-found" -> "NOT_FOUND"
      [] code = "forbidden" -> "FORBIDDEN"
      [] code = "precondition-failed" -> "PRECONDITION_FAILED"
      [] OTHER -> "BAD_REQUEST"

Idle == [phase |-> "idle"]

Init == /\ session \in [Users -> BOOLEAN]
        /\ role \in [Users -> Roles]
        /\ connection \in {"gone", "pending"} /\ members = {}
        /\ calls = [u \in Users |-> Idle]
        /\ used = [key \in Users \union {Nobody} |-> 0]
        /\ where = [u \in Users |-> "app"]
        /\ was = [u \in Users |-> {}]

\* What is true for a user's call now.
Now(u) == {fact \in {"session", "no session", "admin", "no admin", "member", "no member",
                     "connection", "gone", "ready", "not ready"} :
             CASE fact = "session" -> session[u]
               [] fact = "no session" -> ~session[u]
               [] fact = "admin" -> role[u] = "platform_admin"
               [] fact = "no admin" -> role[u] # "platform_admin"
               [] fact = "member" -> u \in members
               [] fact = "no member" -> u \notin members
               [] fact = "connection" -> connection # "gone"
               [] fact = "gone" -> connection = "gone"
               [] fact = "ready" -> connection = "ready"
               [] fact = "not ready" -> connection # "ready"}

Witness == was' = [u \in Users |-> IF calls'[u] = Idle THEN {} ELSE was[u] \union Now(u)']

\* The call of u goes on, or is answered.
To(u, phase) == calls' = [calls EXCEPT ![u].phase = phase]
Reply(u, answer) == calls' = [calls EXCEPT ![u].phase = "answered", ![u].answer = answer]

-----------------------------------------------------------------------------

\* A call from the browser, or from a page on its way through the server.
Send(u, p, via, valid) ==
    /\ calls[u] = Idle
    /\ via = "rpc" => where[u] = "app"
    /\ Input(p) = {} => valid
    /\ calls' = [calls EXCEPT ![u] = [phase |-> "context", procedure |-> p, via |-> via,
                                      valid |-> valid, actorId |-> Nobody, role |-> "none",
                                      unread |-> FALSE, answer |-> "none"]]
    /\ UNCHANGED <<session, role, connection, members, used, where>>
    /\ Witness

\* createOrpcContextFromRequest.
ReadContext(u) ==
    /\ calls[u].phase = "context"
    /\ calls' = [calls EXCEPT ![u].phase = IF calls[u].via = "rpc" THEN "limit" ELSE "gate",
                              ![u].actorId = IF session[u] THEN u ELSE Nobody]
    /\ UNCHANGED <<session, role, connection, members, used, where>>
    /\ Witness

\* The key of a call; all come from one address.
rateKey(u) == calls[u].actorId

\* handleRequest's limiter; a page's calls do not pass it.  Counting stops
\* above the limit, where it makes no difference.
CheckLimit(u) ==
    /\ calls[u].phase = "limit"
    /\ used' = [used EXCEPT ![rateKey(u)] = IF @ > Limit THEN @ ELSE @ + 1]
    /\ IF used'[rateKey(u)] > Limit THEN Reply(u, "TOO_MANY_REQUESTS") ELSE To(u, "gate")
    /\ UNCHANGED <<session, role, connection, members, where>>
    /\ Witness

\* What a gate answers that does not let the call through, for a profile.

withAuth(u, profile) == IF calls[u].actorId = Nobody \/ profile = "none" THEN {"UNAUTHORIZED"}
                        ELSE {}

withAdmin(u, profile) ==
    IF calls[u].actorId = Nobody THEN {"UNAUTHORIZED"}
    ELSE IF profile # "platform_admin" THEN {"FORBIDDEN"} ELSE {}

\* The gate reads session and profile anew; the read may fail.
PassGate(u) ==
    /\ calls[u].phase = "gate"
    /\ \E read \in BOOLEAN :
         LET profile == IF session[u] /\ read THEN role[u] ELSE "none"
             refusal == CASE Gate(calls[u].procedure) = "open" -> {}
                          [] Gate(calls[u].procedure) = "withAuth" -> withAuth(u, profile)
                          [] Gate(calls[u].procedure) = "withAdmin" -> withAdmin(u, profile)
         IN calls' = [calls EXCEPT ![u].phase = IF refusal = {} THEN "access" ELSE "answered",
                                   ![u].answer = IF refusal = {} THEN @ ELSE CHOOSE a \in refusal : TRUE,
                                   ![u].role = profile, ![u].unread = ~read]
    /\ UNCHANGED <<session, role, connection, members, used, where>>
    /\ Witness

\* Input is validated before the gate or after it.
Validate(u) == /\ calls[u].phase \in {"gate", "access"} /\ ~calls[u].valid
               /\ Reply(u, "BAD_REQUEST")
               /\ UNCHANGED <<session, role, connection, members, used, where>>
               /\ Witness

\* Mutant: whoever is logged in gets the key.
mayReachAnyKey(u, p) ==
    CASE p = <<"connections", "getAccessible">> ->
           calls[u].role = "platform_admin" \/ u \in members
      [] p \in {<<"connections", "onboardingStatus">>, <<"connections", "syncPermissions">>} ->
           IF calls[u].role = "platform_admin" THEN connection # "gone" ELSE u \in members
      [] OTHER -> TRUE

\* assertConnectionAccess and userCanAccessConnection, by the gate's profile: the
\* one takes any connection of an administrator's, the other an existing one.
mayReach(u, p) ==
    CASE p \in {<<"connections", "getAccessible">>, <<"connections", "getAnonKey">>} ->
           calls[u].role = "platform_admin" \/ u \in members
      [] p \in {<<"connections", "onboardingStatus">>, <<"connections", "syncPermissions">>} ->
           IF calls[u].role = "platform_admin" THEN connection # "gone" ELSE u \in members
      [] OTHER -> TRUE

CheckAccess(u) ==
    /\ calls[u].phase = "access" /\ calls[u].valid
    /\ IF mayReach(u, calls[u].procedure) THEN To(u, "work")
       ELSE Reply(u, orpcCodeFromErrorCode("forbidden"))
    /\ UNCHANGED <<session, role, connection, members, used, where>>
    /\ Witness

-----------------------------------------------------------------------------

\* The procedures that look the connection up.
NeedsConnection ==
    ({"connections"} \X {"get", "getAccessible", "schemaSync", "bootstrapProbe", "bootstrapApply",
                         "bootstrapVerify", "syncPermissions", "rotateWebhookSecret",
                         "revealWebhookSecret"})
      \union {<<"connectionsRls", "apply">>, <<"provision", "createUser">>}

\* Those that look at its bootstrap_status then.
NeedsReady == {<<"connections", "syncPermissions">>, <<"connectionsRls", "apply">>,
               <<"provision", "createUser">>}

\* Those that may fail with an error of the feature that has no code of its own:
\* the Target, the auth server or a constraint refuses.
MayBeRefused ==
    ({"connections"} \X {"create", "schemaSync", "bootstrapApply", "bootstrapVerify"})
      \union {<<"connectionsRls", "apply">>, <<"provision", "createUser">>,
              <<"users", "create">>, <<"users", "update">>, <<"roles", "create">>,
              <<"roles", "updatePermissions">>, <<"access", "updateUserOverrides">>,
              <<"setup", "createAdmin">>}

\* What the work of a procedure may be answered; anything may throw because the
\* Meta database fails.
WorkAnswers(p) ==
    IF connection = "gone" /\ p \in NeedsConnection THEN {orpcCodeFromErrorCode("not-found")}
    ELSE IF connection = "gone" /\ p = <<"connections", "getAnonKey">> THEN {"FORBIDDEN"}
    ELSE IF connection # "ready" /\ p \in NeedsReady
         THEN {orpcCodeFromErrorCode("precondition-failed")}
    ELSE {"OK", "INTERNAL_SERVER_ERROR"}
         \union (IF p \in MayBeRefused THEN {orpcCodeFromErrorCode("")} ELSE {})
         \union (IF p = <<"connections", "syncPermissions">>
                 THEN {orpcCodeFromErrorCode("precondition-failed")} ELSE {})
         \union (IF p = <<"users", "get">> THEN {orpcCodeFromErrorCode("not-found")} ELSE {})

\* createAdmin has a limiter of its own and a secret, isComplete a limiter.
SetupAnswers(p) == CASE p = <<"setup", "createAdmin">> -> {"TOO_MANY_REQUESTS", "FORBIDDEN"}
                     [] p = <<"setup", "isComplete">> -> {"TOO_MANY_REQUESTS"}
                     [] OTHER -> {}

\* The one connection after a procedure has worked.
Effect(p) ==
    CASE p = <<"connections", "create">> ->
           /\ connection' \in IF connection = "gone" THEN {"pending", "ready"} ELSE {connection}
           /\ UNCHANGED members
      [] p = <<"connections", "delete">> -> connection' = "gone" /\ members' = {}
      [] p \in {"connections"} \X {"bootstrapApply", "bootstrapVerify"} ->
           connection' = "ready" /\ UNCHANGED members
      [] p = <<"connections", "bootstrapProbe">> ->
           connection' \in {connection, "ready"} /\ UNCHANGED members
      [] p = <<"users", "update">> /\ connection # "gone" ->
           /\ \E w \in Users : members' \in
                IF role[w] = "platform_admin" THEN {members \ {w}}
                ELSE {members, members \union {w}, members \ {w}}
           /\ UNCHANGED connection
      [] OTHER -> UNCHANGED <<connection, members>>

Work(u) ==
    /\ calls[u].phase = "work"
    /\ \E answer \in WorkAnswers(calls[u].procedure) \union SetupAnswers(calls[u].procedure) :
         /\ Reply(u, answer)
         /\ IF answer = "OK" THEN Effect(calls[u].procedure)
            ELSE UNCHANGED <<connection, members>>
    /\ UNCHANGED <<session, role, used, where>>
    /\ Witness

\* The browser's client goes to the login page when it is told 401.
Receive(u) ==
    /\ calls[u].phase = "answered"
    /\ calls' = [calls EXCEPT ![u] = Idle]
    /\ where' = IF calls[u].via = "rpc" /\ calls[u].answer = "UNAUTHORIZED"
                THEN [where EXCEPT ![u] = "login"] ELSE where
    /\ UNCHANGED <<session, role, connection, members, used>>
    /\ Witness

-----------------------------------------------------------------------------

\* The login form, or the middleware when there is a session.
SignIn(u) == /\ where[u] = "login"
             /\ session' = [session EXCEPT ![u] = TRUE]
             /\ where' = [where EXCEPT ![u] = "app"]
             /\ UNCHANGED <<role, connection, members, calls, used>>
             /\ Witness

\* A logout in another tab, or the session is revoked.
SessionEnds(u) == /\ session[u] /\ session' = [session EXCEPT ![u] = FALSE]
                  /\ UNCHANGED <<role, connection, members, calls, used, where>>
                  /\ Witness

\* No procedure changes the role of a profile: the contract of users.update has
\* none.  The operator does, in the database.
RoleChanges(u) == /\ role' = [role EXCEPT ![u] = CHOOSE r \in Roles : r # @]
                  /\ UNCHANGED <<session, connection, members, calls, used, where>>
                  /\ Witness

NewWindow == /\ used' = [key \in DOMAIN used |-> 0]
             /\ UNCHANGED <<session, role, connection, members, calls, where>>
             /\ Witness

Next == \/ \E u \in Users :
             \/ \E p \in Procedures, via \in {"rpc", "page"}, valid \in BOOLEAN : Send(u, p, via, valid)
             \/ ReadContext(u) \/ CheckLimit(u) \/ PassGate(u) \/ Validate(u)
             \/ CheckAccess(u) \/ Work(u) \/ Receive(u)
             \/ SignIn(u) \/ SessionEnds(u) \/ RoleChanges(u)
        \/ NewWindow

Spec == Init /\ [][Next]_vars

-----------------------------------------------------------------------------

\* What was true while he asked whose call of p was answered with OK.
HadGrounds(p, facts) ==
    /\ Gate(p) # "open" => "session" \in facts
    /\ Gate(p) = "withAdmin" => "admin" \in facts
    /\ Gate(p) = "withAuth" /\ OfConnection(p) => facts \intersect {"admin", "member"} # {}
    /\ p \in NeedsConnection => "connection" \in facts
    /\ p \in NeedsReady => "ready" \in facts

\* Nothing is done for who was never allowed to while he asked for it, nor to a
\* connection that was never there or never ready: whatever changed between the
\* gate, the access check and the work.
OkHadItsGrounds ==
    \A u \in Users :
      calls[u].phase = "answered" /\ calls[u].answer = "OK" => HadGrounds(calls[u].procedure, was[u])

\* What was true while he asked whose call was refused.
HadReason(c, facts) ==
    LET noProfile == "no session" \in facts \/ c.unread
    IN
    /\ c.answer = "UNAUTHORIZED" => noProfile
    /\ c.answer = "FORBIDDEN" =>
         CASE Gate(c.procedure) = "withAdmin" -> "no admin" \in facts \/ noProfile
           [] Gate(c.procedure) = "withAuth" ->
                {"no admin", "no member"} \subseteq facts \/ "gone" \in facts
           [] OTHER -> c.procedure = <<"setup", "createAdmin">>
    /\ c.answer = "NOT_FOUND" => "gone" \in facts \/ c.procedure = <<"users", "get">>

\* Nobody is refused for what was never so while he asked: an administrator is
\* told FORBIDDEN only of a connection that is gone, NOT_FOUND only of one.
RefusalsAreTrue ==
    \A u \in Users : calls[u].phase = "answered" => HadReason(calls[u], was[u])

-----------------------------------------------------------------------------
(* The inductive invariant behind these properties.                         *)

Answers == {"none", "OK", "UNAUTHORIZED", "FORBIDDEN", "NOT_FOUND", "PRECONDITION_FAILED",
            "BAD_REQUEST", "TOO_MANY_REQUESTS", "INTERNAL_SERVER_ERROR"}
Phases == {"context", "limit", "gate", "access", "work", "answered"}
CallRecords == {Idle} \union
    [phase : Phases, procedure : Procedures, via : {"rpc", "page"}, valid : BOOLEAN,
     actorId : Users \union {Nobody}, role : Roles \union {"none"}, unread : BOOLEAN,
     answer : Answers]
Facts == {"session", "no session", "admin", "no admin", "member", "no member",
          "connection", "gone", "ready", "not ready"}

TypeOK == /\ session \in [Users -> BOOLEAN]
          /\ role \in [Users -> Roles]
          /\ connection \in {"gone", "pending", "ready"}
          /\ calls \in [Users -> CallRecords]
          /\ was \in [Users -> SUBSET Facts]

\* The procedures of one connection that are for members, too.
Accessible == {"connections"} \X {"getAccessible", "getAnonKey", "onboardingStatus",
                                  "syncPermissions"}

\* What has been true for a call that has come this far.
Sound(c, facts) ==
    /\ c.phase \in {"limit", "gate"} /\ c.actorId = Nobody => "no session" \in facts
    /\ c.phase \in {"access", "work"} =>
         /\ c.role = "platform_admin" => {"session", "admin"} \subseteq facts
         /\ c.role = "member" => {"session", "no admin"} \subseteq facts
         /\ Gate(c.procedure) = "withAuth" => c.role # "none"
         /\ Gate(c.procedure) = "withAdmin" => c.role = "platform_admin"
    /\ c.phase = "work" /\ c.procedure \in Accessible =>
         c.role = "platform_admin" \/ "member" \in facts
    /\ c.phase = "answered" /\ c.answer = "OK" => HadGrounds(c.procedure, facts)
    /\ c.phase = "answered" => HadReason(c, facts)

\* What is true now has been true of every call that is under way.
NowIsSeen == \A u \in Users : calls[u] # Idle => Now(u) \subseteq was[u]

IInv == /\ TypeOK
        /\ NowIsSeen
        /\ \A u \in Users : Sound(calls[u], was[u])
=============================================================================
