------------------------------ MODULE UserUpdates ------------------------------
(***************************************************************************)
(* The handlers that change what a user may do: updateUser of              *)
(* feature-users, updateUserOverrides and updateRolePermissions of         *)
(* feature-access, over the tables of the Meta database.                   *)
(*                                                                         *)
(* The module follows the rows of one user on one connection; a handler    *)
(* never touches those of another user or connection unless it is called   *)
(* for them.  The display name is left out, and of the four actions of a   *)
(* row one is followed, since the four columns are treated alike.          *)
(*                                                                         *)
(* Every statement is a transaction of its own: a handler is the sequence  *)
(* of statements it has yet to run, other handlers run between any two,    *)
(* and any statement may fail or have its answer lost, which ends the      *)
(* handler with an error.                                                  *)
(***************************************************************************)
EXTENDS Naturals, Sequences

CONSTANTS Roles, Tables,
          Writers,    \* handlers that may run at the same time
          Keep        \* a field omitted from the input of updateUser

ASSUME KeepAssumption == /\ \A ids \in SUBSET Roles : Keep # ids
                         /\ Keep \notin {"member", "platform_admin"}
                         /\ Keep \notin {"with", "without"}

VARIABLES profileRole,      \* profiles.role
          userRoles,        \* role_id of the user's rows of user_roles
          membership,       \* is there a connection_members row
          rolePermissions,  \* per role and table: the row's column, or "none"
          overrides,        \* per table: the user's override, or "none"
          reply,            \* the Result each handler returned
          call,             \* the input of each handler
          todo,             \* the statements it has yet to run
          alone             \* history: no other call for these rows overlapped

metaVars == <<profileRole, userRoles, membership, rolePermissions, overrides>>
callVars == <<reply, call, todo, alone>>
updateVars == <<metaVars, callVars>>

PlatformRoles == {"member", "platform_admin"}
Grants == {"none", "yes", "no"}        \* no row, can_x true, can_x false
Overrides == {"none", "allow", "deny"} \* no row or null, can_x true, can_x false

\* updateUser takes any of its fields; connectionIds counts for whether it
\* names this connection.
UserCalls == [on : {"user"}, role : PlatformRoles \union {Keep},
              roleIds : {Keep} \union SUBSET Roles,
              connectionIds : {"with", "without", Keep},
              effectiveRole : PlatformRoles]
OverrideCalls == [on : {"overrides"}, rows : [Tables -> Overrides]]
RoleCalls == [on : {"role"}, role : Roles, rows : [Tables -> Grants]]
Calls == UserCalls \union OverrideCalls \union RoleCalls

NoCall == [on |-> "nothing"]

\* A new user, and a connection nobody has rights on yet.
UpdateInit ==
    /\ profileRole \in PlatformRoles
    /\ userRoles = {}
    /\ membership = FALSE
    /\ rolePermissions = [r \in Roles |-> [t \in Tables |-> "none"]]
    /\ overrides = [t \in Tables |-> "none"]
    /\ reply = [w \in Writers |-> "none"]
    /\ call = [w \in Writers |-> NoCall]
    /\ todo = [w \in Writers |-> <<>>]
    /\ alone = [w \in Writers |-> FALSE]

-----------------------------------------------------------------------------
(* The statements of a handler.                                            *)

Statement(op) == [op |-> op]

\* replaceUserRoles and replaceConnectionMemberships: DELETE all rows, then one
\* INSERT unless the list is empty.  An INSERT of memberships of other
\* connections only changes nothing here.
ReplaceUserRoles(ids) ==
    <<Statement("deleteUserRoles")>> \o
    (IF ids = {} THEN <<>> ELSE <<[op |-> "insertUserRoles", ids |-> ids]>>)

ReplaceMemberships(with) ==
    <<Statement("deleteMembership")>> \o
    (IF with THEN <<Statement("insertMembership")>> ELSE <<>>)

\* Mutant: only the role of the input counts.
EffectiveRoleOfInput(input) == IF input.role = Keep THEN "member" ELSE input.role

\* input.role ?? profile.role
EffectiveRole(input) == IF input.role = Keep THEN profileRole ELSE input.role

UpdateUserStatements(input) ==
    (IF input.role = Keep THEN <<>>
     ELSE <<[op |-> "setRole", role |-> input.role]>>) \o
    IF input.effectiveRole = "platform_admin"
    THEN ReplaceUserRoles({}) \o ReplaceMemberships(FALSE)
    ELSE (IF input.roleIds = Keep THEN <<>> ELSE ReplaceUserRoles(input.roleIds)) \o
         (IF input.connectionIds = Keep THEN <<>>
          ELSE ReplaceMemberships(input.connectionIds = "with"))

\* The calls that write the same rows.
SameRows(c, d) == c.on = d.on /\ (c.on = "role" => c.role = d.role)

Running(w) == reply[w] = "running"

\* A handler is called; findProfileById has answered.  A handler without
\* statements returns success and has changed nothing.
Begin(w, c, statements) ==
    /\ ~Running(w)
    /\ statements # <<>>
    /\ reply' = [reply EXCEPT ![w] = "running"]
    /\ call' = [call EXCEPT ![w] = c]
    /\ todo' = [todo EXCEPT ![w] = statements]
    /\ LET rivals == {v \in Writers : Running(v) /\ SameRows(call[v], c)} IN
       alone' = [v \in Writers |-> IF v = w THEN rivals = {}
                                   ELSE alone[v] /\ v \notin rivals]
    /\ UNCHANGED metaVars

UpdateUser(w) ==
    \E c \in UserCalls : /\ c.effectiveRole = EffectiveRole(c)
                         /\ Begin(w, c, UpdateUserStatements(c))

\* Refused for a platform admin, without effect.
UpdateUserOverrides(w) ==
    /\ profileRole # "platform_admin"
    /\ \E rows \in [Tables -> Overrides] :
         Begin(w, [on |-> "overrides", rows |-> rows],
               <<Statement("deleteOverrides")>> \o
               (IF \A t \in Tables : rows[t] = "none" THEN <<>>
                ELSE <<[op |-> "insertOverrides", rows |-> rows]>>))

UpdateRolePermissions(w) ==
    \E r \in Roles, rows \in [Tables -> Grants] :
      Begin(w, [on |-> "role", role |-> r, rows |-> rows],
            <<[op |-> "deleteRolePermissions", role |-> r]>> \o
            (IF \A t \in Tables : rows[t] = "none" THEN <<>>
             ELSE <<[op |-> "insertRolePermissions", role |-> r, rows |-> rows]>>))

-----------------------------------------------------------------------------
(* One statement.                                                          *)

Next1(w) == Head(todo[w])
Runs(w, op) == Running(w) /\ Next1(w).op = op

Return(w, result) == /\ reply' = [reply EXCEPT ![w] = result]
                     /\ call' = [call EXCEPT ![w] = NoCall]
                     /\ todo' = [todo EXCEPT ![w] = <<>>]
                     /\ alone' = [alone EXCEPT ![w] = FALSE]

\* The handler goes on, or the answer of the statement was lost.
Goes(w) == \/ /\ Len(todo[w]) > 1
              /\ todo' = [todo EXCEPT ![w] = Tail(@)]
              /\ UNCHANGED <<reply, call, alone>>
           \/ Len(todo[w]) = 1 /\ Return(w, "success")
           \/ Return(w, "error")

\* The statement fails, or the process ends: what ran before it stays.
Fails(w) == /\ Running(w)
            /\ Return(w, "error")
            /\ UNCHANGED metaVars

SetRole(w) == /\ Runs(w, "setRole")
              /\ profileRole' = Next1(w).role
              /\ Goes(w)
              /\ UNCHANGED <<userRoles, membership, rolePermissions, overrides>>

DeleteUserRoles(w) ==
    /\ Runs(w, "deleteUserRoles")
    /\ userRoles' = {}
    /\ Goes(w)
    /\ UNCHANGED <<profileRole, membership, rolePermissions, overrides>>

\* UNIQUE (user_id, role_id): an INSERT that would repeat a row fails as a whole.
InsertUserRoles(w) ==
    /\ Runs(w, "insertUserRoles")
    /\ Next1(w).ids \intersect userRoles = {}
    /\ userRoles' = userRoles \union Next1(w).ids
    /\ Goes(w)
    /\ UNCHANGED <<profileRole, membership, rolePermissions, overrides>>

DeleteMembership(w) ==
    /\ Runs(w, "deleteMembership")
    /\ membership' = FALSE
    /\ Goes(w)
    /\ UNCHANGED <<profileRole, userRoles, rolePermissions, overrides>>

InsertMembership(w) ==
    /\ Runs(w, "insertMembership")
    /\ ~membership
    /\ membership' = TRUE
    /\ Goes(w)
    /\ UNCHANGED <<profileRole, userRoles, rolePermissions, overrides>>

DeleteOverrides(w) ==
    /\ Runs(w, "deleteOverrides")
    /\ overrides' = [t \in Tables |-> "none"]
    /\ Goes(w)
    /\ UNCHANGED <<profileRole, userRoles, membership, rolePermissions>>

\* An INSERT into rows that may be there: the new value where there was none.
Inserted(rows, new) == [t \in Tables |-> IF new[t] = "none" THEN rows[t] ELSE new[t]]
NoConflict(rows, new) == \A t \in Tables : rows[t] = "none" \/ new[t] = "none"

InsertOverrides(w) ==
    /\ Runs(w, "insertOverrides")
    /\ NoConflict(overrides, Next1(w).rows)
    /\ overrides' = Inserted(overrides, Next1(w).rows)
    /\ Goes(w)
    /\ UNCHANGED <<profileRole, userRoles, membership, rolePermissions>>

DeleteRolePermissions(w) ==
    /\ Runs(w, "deleteRolePermissions")
    /\ rolePermissions' = [rolePermissions EXCEPT ![Next1(w).role] =
                             [t \in Tables |-> "none"]]
    /\ Goes(w)
    /\ UNCHANGED <<profileRole, userRoles, membership, overrides>>

InsertRolePermissions(w) ==
    /\ Runs(w, "insertRolePermissions")
    /\ NoConflict(rolePermissions[Next1(w).role], Next1(w).rows)
    /\ rolePermissions' = [rolePermissions EXCEPT ![Next1(w).role] =
                             Inserted(@, Next1(w).rows)]
    /\ Goes(w)
    /\ UNCHANGED <<profileRole, userRoles, membership, overrides>>

Write(w) == \/ UpdateUser(w) \/ UpdateUserOverrides(w) \/ UpdateRolePermissions(w)
            \/ SetRole(w) \/ DeleteUserRoles(w) \/ InsertUserRoles(w)
            \/ DeleteMembership(w) \/ InsertMembership(w)
            \/ DeleteOverrides(w) \/ InsertOverrides(w)
            \/ DeleteRolePermissions(w) \/ InsertRolePermissions(w)
            \/ Fails(w)

UpdateNext == \E w \in Writers : Write(w)

UpdateSpec == UpdateInit /\ [][UpdateNext]_updateVars

-----------------------------------------------------------------------------

Statements ==
    {Statement(op) : op \in {"deleteUserRoles", "deleteMembership",
                             "insertMembership", "deleteOverrides"}}
    \union [op : {"setRole"}, role : PlatformRoles]
    \union [op : {"insertUserRoles"}, ids : SUBSET Roles]
    \union [op : {"insertOverrides"}, rows : [Tables -> Overrides]]
    \union [op : {"deleteRolePermissions"}, role : Roles]
    \union [op : {"insertRolePermissions"}, role : Roles, rows : [Tables -> Grants]]

MetaTypeOK == /\ profileRole \in PlatformRoles
              /\ userRoles \in SUBSET Roles
              /\ membership \in BOOLEAN
              /\ rolePermissions \in [Roles -> [Tables -> Grants]]
              /\ overrides \in [Tables -> Overrides]

UpdateTypeOK == /\ MetaTypeOK
                /\ reply \in [Writers -> {"none", "running", "success", "error"}]
                /\ call \in [Writers -> Calls \union {NoCall}]
                /\ todo \in [Writers -> Seq(Statements)]
                /\ alone \in [Writers -> BOOLEAN]
                /\ \A w \in Writers : Running(w) <=> todo[w] # <<>>

\* What success means to the caller.  The role that counts is the one the row
\* holds when updateUser ends, whether the call named one or not.
Accomplished(c) ==
    /\ c.on = "overrides" => overrides = c.rows
    /\ c.on = "role" => rolePermissions[c.role] = c.rows
    /\ c.on = "user" =>
         /\ c.role # Keep => profileRole = c.role
         /\ IF profileRole = "platform_admin"
            THEN userRoles = {} /\ ~membership
            ELSE /\ c.roleIds # Keep => userRoles = c.roleIds
                 /\ c.connectionIds # Keep => (membership <=> c.connectionIds = "with")

\* What a call has yet to do comes in the order of these numbers, and does no
\* more than it asks for.
Rank == [setRole |-> 1, deleteUserRoles |-> 2, insertUserRoles |-> 3,
         deleteMembership |-> 4, insertMembership |-> 5,
         deleteOverrides |-> 6, insertOverrides |-> 7,
         deleteRolePermissions |-> 8, insertRolePermissions |-> 9]
InOrder(s) == \A i, j \in 1..Len(s) : i < j => Rank[s[i].op] < Rank[s[j].op]

Admin(c) == c.effectiveRole = "platform_admin"
WantedRoles(c) == IF Admin(c) THEN {} ELSE c.roleIds
WantsMembership(c) == ~Admin(c) /\ c.connectionIds = "with"

Asks(c, s) ==
    \/ c.on = "user" /\ s.op = "setRole" /\ s.role = c.effectiveRole
    \/ c.on = "user" /\ s.op \in {"deleteUserRoles", "deleteMembership"}
    \/ c.on = "user" /\ s.op = "insertUserRoles" /\ s.ids = WantedRoles(c)
    \/ c.on = "user" /\ s.op = "insertMembership" /\ WantsMembership(c)
    \/ c.on = "overrides" /\ s.op = "deleteOverrides"
    \/ c.on = "overrides" /\ s.op = "insertOverrides" /\ s.rows = c.rows
    \/ c.on = "role" /\ s.op = "deleteRolePermissions" /\ s.role = c.role
    \/ c.on = "role" /\ s.op = "insertRolePermissions" /\ s.role = c.role /\ s.rows = c.rows

\* With the statements "left" to run rows will be what is wanted: they are yet
\* to be deleted, or are empty and to be inserted, or are there.
Replacing(left, delete, insert, rows, none, wanted) ==
    IF delete \in left THEN wanted # none => insert \in left
    ELSE rows = IF insert \in left THEN none ELSE wanted

NoRows == [t \in Tables |-> "none"]

OnTheWay(c, left) ==
    /\ c.on = "overrides" =>
         Replacing(left, "deleteOverrides", "insertOverrides", overrides, NoRows, c.rows)
    /\ c.on = "role" =>
         Replacing(left, "deleteRolePermissions", "insertRolePermissions",
                   rolePermissions[c.role], NoRows, c.rows)
    /\ c.on = "user" =>
         /\ c.role # Keep => c.effectiveRole = c.role
         /\ "setRole" \notin left => profileRole = c.effectiveRole
         /\ Admin(c) \/ c.roleIds # Keep =>
              Replacing(left, "deleteUserRoles", "insertUserRoles", userRoles, {}, WantedRoles(c))
         /\ Admin(c) \/ c.connectionIds # Keep =>
              IF "deleteMembership" \in left
              THEN WantsMembership(c) => "insertMembership" \in left
              ELSE membership <=> WantsMembership(c) /\ "insertMembership" \notin left

Left(s) == {s[i].op : i \in 1..Len(s)}

\* What every step keeps of a handler, and of one that is alone.
LoneInv ==
    \A w \in Writers :
      /\ Running(w) =>
           /\ call[w] \in Calls
           /\ InOrder(todo[w])
           /\ \A i \in 1..Len(todo[w]) : Asks(call[w], todo[w][i])
      /\ alone[w] =>
           /\ Running(w)
           /\ OnTheWay(call[w], Left(todo[w]))
           /\ \A v \in Writers \ {w} : Running(v) => ~SameRows(call[v], call[w])

\* A handler that answers success, and that no other call for the same rows
\* overlapped, has replaced exactly what it was asked to replace, whatever
\* calls were cut off halfway or were mixed up before it: saving again repairs
\* the rows, and a user who is an administrator is left without role rows
\* and memberships even by a call that does not name the role.
LoneCallIsExact ==
    [][\A w \in Writers : \A c \in {call[w]} :
         Running(w) /\ reply'[w] = "success" /\ alone[w]
            => Accomplished(c)']_updateVars

=============================================================================
