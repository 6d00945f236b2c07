------------------------- MODULE PermissionResolution -------------------------
(***************************************************************************)
(* How the rows of role_permissions and user_permission_overrides become   *)
(* the permissions of one user on one connection: the loops of             *)
(* aggregateRolePermissions and applyPermissionOverrides.                  *)
(*                                                                         *)
(* The rows come from SELECTs without ORDER BY, so a loop may meet them in *)
(* any order; each step is one turn of a loop, on any row still to come.   *)
(* The four booleans of a row are the set of actions it allows, and the    *)
(* nullable ones of an override the sets it allows and denies.             *)
(***************************************************************************)

CONSTANTS Tables, Actions, Roles

VARIABLES platformRole,  \* profiles.role of the user
          synced,        \* the connection_tables of the connection
          rolePerms,     \* rows of role_permissions of the user's roles
          overrides,     \* the user's rows of user_permission_overrides
          stage,         \* which loop runs
          rest,          \* the rows the loop has not met yet
          permMap        \* table name |-> actions allowed

vars == <<platformRole, synced, rolePerms, overrides, stage, rest, permMap>>
inputs == <<platformRole, synced, rolePerms, overrides>>

PermissionRow == [role : Roles, table_name : Tables, can : SUBSET Actions]
OverrideRow == {ov \in [table_name : Tables, allow : SUBSET Actions, deny : SUBSET Actions] :
                    ov.allow \intersect ov.deny = {}}

\* UNIQUE (role_id, connection_id, table_name) and
\* UNIQUE (user_id, connection_id, table_name) of the schema.
OnePerRoleAndTable(rows) ==
    \A p, q \in rows : p.role = q.role /\ p.table_name = q.table_name => p = q
OnePerTable(rows) ==
    \A p, q \in rows : p.table_name = q.table_name => p = q

EmptyMap == [t \in {} |-> {}]

\* The rows as the two SELECTs of resolveUserPermissions found them.
Inputs == /\ platformRole \in {"member", "platform_admin"}
          /\ synced \subseteq Tables
          /\ rolePerms \subseteq PermissionRow
          /\ overrides \subseteq OverrideRow
          /\ OnePerRoleAndTable(rolePerms)
          /\ OnePerTable(overrides)

Init == /\ Inputs
        /\ stage = "start"
        /\ rest = {}
        /\ permMap = EmptyMap

-----------------------------------------------------------------------------

\* permMap.get(t), with the all-false permission where there is none.
Existing(t) == IF t \in DOMAIN permMap THEN permMap[t] ELSE {}

\* permMap.set(t, perm)
SetEntry(t, perm) ==
    permMap' = [x \in DOMAIN permMap \union {t} |-> IF x = t THEN perm ELSE permMap[x]]

\* Mutant: override.can_x || base.can_x, which loses the denials.
MergeWithOr(base, ov) == base \union ov.allow

\* override.can_x ?? base.can_x, for the four actions.
MergePermissions(base, ov) == (base \ ov.deny) \union ov.allow

\* buildFullAccessPermissions: an admin reads neither roles nor overrides.
FullAccess == /\ stage = "start"
              /\ platformRole = "platform_admin"
              /\ permMap' = [t \in synced |-> Actions]
              /\ stage' = "resolved"
              /\ UNCHANGED <<inputs, rest>>

StartAggregate == /\ stage = "start"
                  /\ platformRole = "member"
                  /\ stage' = "aggregate"
                  /\ rest' = rolePerms
                  /\ UNCHANGED <<inputs, permMap>>

\* One row of aggregateRolePermissions: OR with what other roles gave.
AggregateRow(row) ==
    /\ stage = "aggregate"
    /\ row \in rest
    /\ SetEntry(row.table_name, Existing(row.table_name) \union row.can)
    /\ rest' = rest \ {row}
    /\ UNCHANGED <<inputs, stage>>

StartOverride == /\ stage = "aggregate"
                 /\ rest = {}
                 /\ stage' = "override"
                 /\ rest' = overrides
                 /\ UNCHANGED <<inputs, permMap>>

\* Mutant: an override of a table no role mentions is skipped, and a table it
\* replaces is left without its row.
OverrideKnownTables(ov) ==
    /\ stage = "override"
    /\ ov \in rest
    /\ IF ov.table_name \in DOMAIN permMap
       THEN SetEntry(ov.table_name, MergePermissions(Existing(ov.table_name), ov))
       ELSE UNCHANGED permMap
    /\ rest' = rest \ {ov}
    /\ UNCHANGED <<inputs, stage>>

\* One row of applyPermissionOverrides.
OverrideWith(ov) ==
    /\ stage = "override"
    /\ ov \in rest
    /\ SetEntry(ov.table_name, MergePermissions(Existing(ov.table_name), ov))
    /\ rest' = rest \ {ov}
    /\ UNCHANGED <<inputs, stage>>

Return == /\ stage = "override"
          /\ rest = {}
          /\ stage' = "resolved"
          /\ UNCHANGED <<inputs, rest, permMap>>

Next == \/ FullAccess
        \/ StartAggregate
        \/ \E row \in rolePerms : AggregateRow(row)
        \/ StartOverride
        \/ \E ov \in overrides : OverrideWith(ov)
        \/ Return

Spec == Init /\ [][Next]_vars

-----------------------------------------------------------------------------

TypeOK == /\ Inputs
          /\ stage \in {"start", "aggregate", "override", "resolved"}
          /\ rest \subseteq rolePerms \union overrides
          /\ DOMAIN permMap \subseteq Tables
          /\ \A t \in DOMAIN permMap : permMap[t] \subseteq Actions

\* canAccessTable, and supaadmin_has_permission on the JWT made of the result.
CanAccess(t, a) == t \in DOMAIN permMap /\ a \in permMap[t]

\* What the rows say, without an order: an override decides where it speaks,
\* otherwise any role of the user is enough.
Granted(t, a) == \E row \in rolePerms : row.table_name = t /\ a \in row.can
Allowed(t, a) == \E ov \in overrides : ov.table_name = t /\ a \in ov.allow
Denied(t, a) == \E ov \in overrides : ov.table_name = t /\ a \in ov.deny

Permitted(t, a) ==
    IF platformRole = "platform_admin"
    THEN t \in synced
    ELSE Allowed(t, a) \/ (Granted(t, a) /\ ~Denied(t, a))

\* In whatever order the database returned the rows, the loops resolve each
\* action as the rows say it.
ResolvesAsPermitted ==
    stage = "resolved" =>
        \A t \in Tables, a \in Actions : CanAccess(t, a) <=> Permitted(t, a)

\* The result names a table exactly if some row is about it (or, for an admin,
\* if it is synced): the page of another table is refused, not left undefined.
NamesTheTables ==
    stage = "resolved" =>
        DOMAIN permMap = IF platformRole = "platform_admin" THEN synced
                         ELSE {row.table_name : row \in rolePerms \union overrides}

\* What the schema says of overrides: "narrower than role".
OverridesNarrow ==
    stage = "resolved" /\ platformRole = "member" =>
        \A t \in Tables, a \in Actions : CanAccess(t, a) => Granted(t, a)

=============================================================================
