--------------------------- MODULE ConnectionContext ---------------------------
(***************************************************************************)
(* getConnectionContext of the workflows, while the rows it reads are      *)
(* being changed by the handlers of UserUpdates.                           *)
(*                                                                         *)
(* The user's request reads the profile (withAuth), the membership, the    *)
(* ids of the user's roles, their permissions and the overrides in         *)
(* separate statements, each of which sees the rows of its own moment.     *)
(* So the permissions it answers with may never have held at any one       *)
(* moment; the properties say what can be relied upon all the same.        *)
(***************************************************************************)
EXTENDS UserUpdates

CONSTANT Readers    \* requests of the user that may run at the same time

VARIABLES at,       \* the query each request awaits
          seen,     \* what it has read so far
          ever,     \* history: facts that held at some moment of the request
          always    \* history: facts that held throughout the request

readVars == <<at, seen, ever, always>>
contextVars == <<updateVars, readVars>>

Reading == {"membership", "roleIds", "rolePermissions", "overrides", "tableNames"}
Answers == {"idle", "forbidden", "answered"}

\* "permissions" is the set of tables the answer allows the action on; while
\* the request runs it is what the role permissions alone allow.
NothingSeen == [role |-> "member", roleIds |-> {}, permissions |-> {}]

\* The rows, as a set of facts.
Facts == (IF profileRole = "platform_admin" THEN {<<"admin">>} ELSE {})
         \union (IF membership THEN {<<"member">>} ELSE {})
         \union {<<"role", r>> : r \in userRoles}
         \union {f \in {"grant"} \X Roles \X Tables : rolePermissions[f[2]][f[3]] = "yes"}
         \union {<<"allow", t>> : t \in {u \in Tables : overrides[u] = "allow"}}
         \union {<<"deny", t>> : t \in {u \in Tables : overrides[u] = "deny"}}

ContextInit == /\ UpdateInit
               /\ at = [d \in Readers |-> "idle"]
               /\ seen = [d \in Readers |-> NothingSeen]
               /\ ever = [d \in Readers |-> {}]
               /\ always = [d \in Readers |-> {}]

-----------------------------------------------------------------------------

Step(d, from, to) == at[d] = from /\ at' = [at EXCEPT ![d] = to]

See(d, field, value) == seen' = [seen EXCEPT ![d][field] = value]

\* withAuth: getCurrentProfile.  The role is passed on to every later check.
WithAuth(d) == /\ at[d] \in Answers
               /\ at' = [at EXCEPT ![d] = "membership"]
               /\ seen' = [seen EXCEPT ![d] = [NothingSeen EXCEPT !.role = profileRole]]
               /\ UNCHANGED metaVars

\* Mutant: the row is looked up but its absence does not end the request.
AssertAccessUnchecked(d) ==
    /\ Step(d, "membership", IF seen[d].role = "platform_admin" THEN "tableNames" ELSE "roleIds")
    /\ UNCHANGED <<metaVars, seen>>

\* Mutant: an admin is looked up like anybody else.
AssertMembershipOfAll(d) ==
    /\ \/ seen[d].role = "platform_admin" /\ membership /\ Step(d, "membership", "tableNames")
       \/ seen[d].role = "member" /\ membership /\ Step(d, "membership", "roleIds")
       \/ ~membership /\ Step(d, "membership", "forbidden")
    /\ UNCHANGED <<metaVars, seen>>

\* assertConnectionAccess of getAccessibleConnection; an admin passes unread.
\* The connection and its tables, which it reads next, do not matter here.
AssertConnectionAccess(d) ==
    /\ \/ seen[d].role = "platform_admin" /\ Step(d, "membership", "tableNames")
       \/ seen[d].role = "member" /\ membership /\ Step(d, "membership", "roleIds")
       \/ seen[d].role = "member" /\ ~membership /\ Step(d, "membership", "forbidden")
    /\ UNCHANGED <<metaVars, seen>>

\* resolveUserPermissions for an admin: every table of the connection.
FullAccess(d) == /\ Step(d, "tableNames", "answered")
                 /\ See(d, "permissions", Tables)
                 /\ UNCHANGED metaVars

GetUserRoleIds(d) == /\ Step(d, "roleIds", "rolePermissions")
                     /\ See(d, "roleIds", userRoles)
                     /\ UNCHANGED metaVars

\* getRolePermissionsForUser, aggregated: some role grants the table.
GetRolePermissions(d) ==
    /\ Step(d, "rolePermissions", "overrides")
    /\ See(d, "permissions",
           {t \in Tables : \E r \in seen[d].roleIds : rolePermissions[r][t] = "yes"})
    /\ UNCHANGED metaVars

\* Mutant: the overrides are ignored when no role gave anything.
GetOverridesOfRoles(d) ==
    /\ Step(d, "overrides", "answered")
    /\ See(d, "permissions",
           {t \in Tables : \/ overrides[t] = "allow" /\ seen[d].roleIds # {}
                           \/ overrides[t] # "deny" /\ t \in seen[d].permissions})
    /\ UNCHANGED metaVars

\* getUserPermissionOverrideRows, applied to the aggregate.
GetOverrides(d) ==
    /\ Step(d, "overrides", "answered")
    /\ See(d, "permissions",
           {t \in Tables : \/ overrides[t] = "allow"
                           \/ overrides[t] # "deny" /\ t \in seen[d].permissions})
    /\ UNCHANGED metaVars

Read(d) == \/ WithAuth(d)
           \/ AssertConnectionAccess(d)
           \/ FullAccess(d)
           \/ GetUserRoleIds(d)
           \/ GetRolePermissions(d)
           \/ GetOverrides(d)

\* The history of a request starts with the rows its first query sees, and
\* follows every change of them until the request is answered.
Remember ==
    /\ ever' = [d \in Readers |->
                  IF at'[d] \notin Reading THEN {}
                  ELSE IF at[d] \in Reading THEN ever[d] \union Facts' ELSE Facts']
    /\ always' = [d \in Readers |->
                    IF at'[d] \notin Reading THEN {}
                    ELSE IF at[d] \in Reading THEN always[d] \intersect Facts' ELSE Facts']

ContextNext == \/ /\ \E d \in Readers : Read(d)
                  /\ UNCHANGED callVars
                  /\ Remember
               \/ /\ UpdateNext
                  /\ UNCHANGED <<at, seen>>
                  /\ Remember

ContextSpec == ContextInit /\ [][ContextNext]_contextVars

-----------------------------------------------------------------------------

ContextTypeOK ==
    /\ UpdateTypeOK
    /\ at \in [Readers -> Reading \union Answers]
    /\ seen \in [Readers -> [role : PlatformRoles, roleIds : SUBSET Roles,
                             permissions : SUBSET Tables]]
    /\ \A d \in Readers : at[d] \in Reading => always[d] \subseteq Facts /\ Facts \subseteq ever[d]

\* The permissions the rows give the user at this moment.
MayAct(t) == \/ profileRole = "platform_admin"
             \/ overrides[t] = "allow"
             \/ /\ overrides[t] # "deny"
                /\ \E r \in userRoles : rolePermissions[r][t] = "yes"
MayEnter == profileRole = "platform_admin" \/ membership

Answering(d) == at[d] \in Reading /\ at'[d] = "answered"
Refusing(d) == at[d] \in Reading /\ at'[d] = "forbidden"

AnswerIsExact(d) ==
    ever[d] = always[d] =>
        /\ Answering(d) => MayEnter /\ seen'[d].permissions = {t \in Tables : MayAct(t)}
        /\ Refusing(d) => ~MayEnter

\* A request that no change overlapped answers with the permissions of that
\* moment: five separate reads are as good as one.
QuietReadIsExact == [][\A d \in Readers : AnswerIsExact(d)]_contextVars

\* A role grants a table, as far as the facts H know.
GrantIn(H, t) == \E r \in Roles : <<"role", r>> \in H /\ <<"grant", r, t>> \in H

GrantHasCause(d, t) ==
    \/ <<"admin">> \in ever[d]
    \/ /\ <<"member">> \in ever[d]
       /\ \/ <<"allow", t>> \in ever[d]
          \/ GrantIn(ever[d], t) /\ <<"deny", t>> \notin always[d]

\* Whatever changes in the meantime, nothing is allowed without a cause that
\* held during the request: the user was an admin, or was a member and the
\* table was allowed by an override, or by a role the user had and that had
\* the grant (if not both at the same moment), and was not denied throughout.
GrantsHaveCause ==
    [][\A d \in Readers :
         Answering(d) => \A t \in seen'[d].permissions : GrantHasCause(d, t)]_contextVars

RefusalHasCause(d, t) ==
    /\ <<"admin">> \notin always[d]
    /\ <<"allow", t>> \notin always[d]
    /\ ~GrantIn(always[d], t) \/ <<"deny", t>> \in ever[d]

\* Nor is anything refused without one: who was an admin or a member throughout
\* is let in, and then is allowed what an override allowed throughout, or what
\* a role of the user granted throughout and no override denied at any moment.
RefusalsHaveCause ==
    [][\A d \in Readers :
         /\ Refusing(d) => <<"admin">> \notin always[d] /\ <<"member">> \notin always[d]
         /\ Answering(d) =>
              \A t \in Tables \ seen'[d].permissions : RefusalHasCause(d, t)]_contextVars

=============================================================================
