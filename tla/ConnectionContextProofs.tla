------------------------ MODULE ConnectionContextProofs ------------------------
(***************************************************************************)
(* The handlers that replace the rows of a user and the answers of         *)
(* getConnectionContext, for any number of requests, handlers, roles and   *)
(* tables.                                                                 *)
(*                                                                         *)
(* The statements a handler has yet to run are statements, and it runs     *)
(* exactly as long as it has some.                                         *)
(*                                                                         *)
(* LoneInv says how far a handler is that no other for the same rows       *)
(* overlaps: what it has left to run comes in the order of Rank and is     *)
(* what it asks for, and each of its tables is yet to be emptied, or is    *)
(* empty and yet to be filled, or is as it was asked for.                  *)
(*                                                                         *)
(* A request keeps what it read in one statement while others change the   *)
(* rows.  The invariant SeenInv ties what it keeps to the history of the   *)
(* request: whatever it saw held at some moment (is in ever), and          *)
(* whatever it did not see did not hold throughout (is not in always).     *)
(* Nothing else is needed of the handlers that change the rows.            *)
(***************************************************************************)
EXTENDS ConnectionContext, TLAPS

\* How sequences of statements are put together.
LEMMA StatementSequences ==
    /\ <<>> \in Seq(Statements)
    /\ \A s \in Statements : <<s>> \in Seq(Statements)
    /\ \A p, q \in Seq(Statements) : p \o q \in Seq(Statements)
    /\ \A s \in Seq(Statements) :
         /\ s # <<>> => Head(s) \in Statements
         /\ Len(s) > 1 => Tail(s) \in Seq(Statements) /\ Tail(s) # <<>>
<1>1. ASSUME NEW s \in Seq(Statements), Len(s) > 1
      PROVE  Tail(s) \in Seq(Statements) /\ Tail(s) # <<>>
  <2>1. s # <<>> /\ Len(s) \in Nat
    BY <1>1
  <2>2. Tail(s) \in Seq(Statements) /\ Len(Tail(s)) = Len(s) - 1
    BY <2>1
  <2>3. Len(<<>>) = 0
    OBVIOUS
  <2>4. Len(Tail(s)) # 0
    BY <1>1, <2>1, <2>2
  <2> QED
    BY <2>2, <2>3, <2>4
<1> QED
  BY <1>1

LEMMA PlainStatements ==
    /\ Statement("deleteUserRoles") \in Statements
    /\ Statement("deleteMembership") \in Statements
    /\ Statement("insertMembership") \in Statements
    /\ Statement("deleteOverrides") \in Statements
BY DEF Statements

\* The statements each handler is compiled to.
LEMMA UserStatementsType ==
    ASSUME NEW c \in UserCalls
    PROVE  UpdateUserStatements(c) \in Seq(Statements)
<1> DEFINE SetRoleFirst == IF c.role = Keep THEN <<>>
                           ELSE <<[op |-> "setRole", role |-> c.role]>>
           ForMember == (IF c.roleIds = Keep THEN <<>> ELSE ReplaceUserRoles(c.roleIds)) \o
                        (IF c.connectionIds = Keep THEN <<>>
                         ELSE ReplaceMemberships(c.connectionIds = "with"))
<1>1. c.role \in PlatformRoles \union {Keep} /\ c.roleIds \in {Keep} \union SUBSET Roles
  BY DEF UserCalls
<1>2. SetRoleFirst \in Seq(Statements)
  <2>1. c.role # Keep => [op |-> "setRole", role |-> c.role] \in Statements
    BY <1>1 DEF Statements
  <2> QED
    BY <2>1, StatementSequences
<1>3. \A ids \in SUBSET Roles : ReplaceUserRoles(ids) \in Seq(Statements)
  <2>1. \A ids \in SUBSET Roles : [op |-> "insertUserRoles", ids |-> ids] \in Statements
    BY DEF Statements
  <2> QED
    BY <2>1, StatementSequences, PlainStatements DEF ReplaceUserRoles
<1>4. \A with : ReplaceMemberships(with) \in Seq(Statements)
  BY StatementSequences, PlainStatements DEF ReplaceMemberships
<1>5. ReplaceUserRoles({}) \o ReplaceMemberships(FALSE) \in Seq(Statements)
  BY <1>3, <1>4, StatementSequences
<1>6. ForMember \in Seq(Statements)
  BY <1>1, <1>3, <1>4, StatementSequences
<1> HIDE DEF SetRoleFirst, ForMember
<1>7. UpdateUserStatements(c) =
        SetRoleFirst \o (IF c.effectiveRole = "platform_admin"
                         THEN ReplaceUserRoles({}) \o ReplaceMemberships(FALSE)
                         ELSE ForMember)
  BY DEF UpdateUserStatements, SetRoleFirst, ForMember
<1> QED
  BY <1>2, <1>5, <1>6, <1>7, StatementSequences

\* A call that begins leaves the types as they are.
LEMMA BeginType ==
    ASSUME NEW w \in Writers, NEW c \in Calls, NEW statements \in Seq(Statements),
           UpdateTypeOK, Begin(w, c, statements)
    PROVE  UpdateTypeOK'
<1>1. MetaTypeOK'
  BY DEF Begin, UpdateTypeOK, MetaTypeOK, metaVars
<1>2. alone' \in [Writers -> BOOLEAN]
  BY DEF Begin, UpdateTypeOK
<1> QED
  BY <1>1, <1>2 DEF Begin, UpdateTypeOK, Running

\* So does whatever becomes of a handler after a statement.
LEMMA GoesType ==
    ASSUME NEW w \in Writers, UpdateTypeOK, Running(w), Goes(w), MetaTypeOK'
    PROVE  UpdateTypeOK'
<1>1. todo[w] \in Seq(Statements) /\ todo[w] # <<>>
  BY DEF UpdateTypeOK
<1>2. CASE Len(todo[w]) > 1 /\ todo' = [todo EXCEPT ![w] = Tail(@)]
           /\ UNCHANGED <<reply, call, alone>>
  <2>1. Tail(todo[w]) \in Seq(Statements) /\ Tail(todo[w]) # <<>>
    BY <1>1, <1>2, StatementSequences
  <2> QED
    BY <1>2, <2>1 DEF UpdateTypeOK, Running
<1>3. ASSUME NEW result \in {"success", "error"}, Return(w, result) PROVE UpdateTypeOK'
  BY <1>3 DEF Return, UpdateTypeOK, Running
<1> QED
  BY <1>2, <1>3 DEF Goes

\* The statement a handler is about to run.
LEMMA NextStatement ==
    ASSUME NEW w \in Writers, UpdateTypeOK, Running(w)
    PROVE  Next1(w) \in Statements
BY StatementSequences DEF UpdateTypeOK, Next1

LEMMA StatementType ==
    ASSUME NEW s \in Statements
    PROVE  /\ s.op = "setRole" => s.role \in PlatformRoles
           /\ s.op = "insertUserRoles" => s.ids \in SUBSET Roles
           /\ s.op = "insertOverrides" => s.rows \in [Tables -> Overrides]
           /\ s.op = "deleteRolePermissions" => s.role \in Roles
           /\ s.op = "insertRolePermissions" =>
                s.role \in Roles /\ s.rows \in [Tables -> Grants]
BY DEF Statements, Statement

LEMMA InitUpdateType == UpdateInit => UpdateTypeOK
<1> SUFFICES ASSUME UpdateInit PROVE UpdateTypeOK
  OBVIOUS
<1>1. MetaTypeOK
  BY DEF UpdateInit, MetaTypeOK, Grants, Overrides
<1>2. /\ reply \in [Writers -> {"none", "running", "success", "error"}]
      /\ call \in [Writers -> Calls \union {NoCall}]
      /\ alone \in [Writers -> BOOLEAN]
  BY DEF UpdateInit
<1>3. todo \in [Writers -> Seq(Statements)]
  BY StatementSequences DEF UpdateInit
<1>4. \A w \in Writers : Running(w) <=> todo[w] # <<>>
  BY DEF UpdateInit, Running
<1> QED
  BY <1>1, <1>2, <1>3, <1>4 DEF UpdateTypeOK

LEMMA WriteType ==
    ASSUME NEW w \in Writers, UpdateTypeOK, Write(w)
    PROVE  UpdateTypeOK'
<1>0. Running(w) => Next1(w) \in Statements
  BY NextStatement
<1>1. CASE UpdateUser(w)
  BY <1>1, BeginType, UserStatementsType DEF UpdateUser, Calls
<1>2. CASE UpdateUserOverrides(w)
  <2>1. PICK rows \in [Tables -> Overrides] :
          Begin(w, [on |-> "overrides", rows |-> rows],
                <<Statement("deleteOverrides")>> \o
                (IF \A t \in Tables : rows[t] = "none" THEN <<>>
                 ELSE <<[op |-> "insertOverrides", rows |-> rows]>>))
    BY <1>2 DEF UpdateUserOverrides
  <2>2. [on |-> "overrides", rows |-> rows] \in Calls
    BY DEF Calls, OverrideCalls
  <2>3. <<Statement("deleteOverrides")>> \o
        (IF \A t \in Tables : rows[t] = "none" THEN <<>>
         ELSE <<[op |-> "insertOverrides", rows |-> rows]>>) \in Seq(Statements)
    <3>1. [op |-> "insertOverrides", rows |-> rows] \in Statements
      BY DEF Statements
    <3> QED
      BY <3>1, StatementSequences, PlainStatements
  <2> QED
    BY <2>1, <2>2, <2>3, BeginType
<1>3. CASE UpdateRolePermissions(w)
  <2>1. PICK r \in Roles, rows \in [Tables -> Grants] :
          Begin(w, [on |-> "role", role |-> r, rows |-> rows],
                <<[op |-> "deleteRolePermissions", role |-> r]>> \o
                (IF \A t \in Tables : rows[t] = "none" THEN <<>>
                 ELSE <<[op |-> "insertRolePermissions", role |-> r, rows |-> rows]>>))
    BY <1>3 DEF UpdateRolePermissions
  <2>2. [on |-> "role", role |-> r, rows |-> rows] \in Calls
    BY DEF Calls, RoleCalls
  <2>3. <<[op |-> "deleteRolePermissions", role |-> r]>> \o
        (IF \A t \in Tables : rows[t] = "none" THEN <<>>
         ELSE <<[op |-> "insertRolePermissions", role |-> r, rows |-> rows]>>)
           \in Seq(Statements)
    <3>1. /\ [op |-> "deleteRolePermissions", role |-> r] \in Statements
          /\ [op |-> "insertRolePermissions", role |-> r, rows |-> rows] \in Statements
      BY DEF Statements
    <3> QED
      BY <3>1, StatementSequences
  <2> QED
    BY <2>1, <2>2, <2>3, BeginType
<1>4. CASE SetRole(w)
  <2>1. MetaTypeOK'
    BY <1>0, <1>4, StatementType DEF SetRole, Runs, UpdateTypeOK, MetaTypeOK
  <2> QED
    BY <1>4, <2>1, GoesType DEF SetRole, Runs
<1>5. CASE DeleteUserRoles(w)
  BY <1>5, GoesType DEF DeleteUserRoles, Runs, UpdateTypeOK, MetaTypeOK
<1>6. CASE InsertUserRoles(w)
  <2>1. MetaTypeOK'
    BY <1>0, <1>6, StatementType DEF InsertUserRoles, Runs, UpdateTypeOK, MetaTypeOK
  <2> QED
    BY <1>6, <2>1, GoesType DEF InsertUserRoles, Runs
<1>7. CASE DeleteMembership(w) \/ InsertMembership(w)
  BY <1>7, GoesType DEF DeleteMembership, InsertMembership, Runs, UpdateTypeOK, MetaTypeOK
<1>8. CASE DeleteOverrides(w)
  BY <1>8, GoesType DEF DeleteOverrides, Runs, UpdateTypeOK, MetaTypeOK, Overrides
<1>9. CASE InsertOverrides(w)
  <2>1. MetaTypeOK'
    BY <1>0, <1>9, StatementType DEF InsertOverrides, Runs, UpdateTypeOK, MetaTypeOK, Inserted
  <2> QED
    BY <1>9, <2>1, GoesType DEF InsertOverrides, Runs
<1>10. CASE DeleteRolePermissions(w)
  <2>1. MetaTypeOK'
    BY <1>0, <1>10, StatementType
       DEF DeleteRolePermissions, Runs, UpdateTypeOK, MetaTypeOK, Grants
  <2> QED
    BY <1>10, <2>1, GoesType DEF DeleteRolePermissions, Runs
<1>11. CASE InsertRolePermissions(w)
  <2>1. MetaTypeOK'
    BY <1>0, <1>11, StatementType
       DEF InsertRolePermissions, Runs, UpdateTypeOK, MetaTypeOK, Inserted
  <2> QED
    BY <1>11, <2>1, GoesType DEF InsertRolePermissions, Runs
<1>12. CASE Fails(w)
  BY <1>12 DEF Fails, Return, UpdateTypeOK, MetaTypeOK, metaVars, Running
<1> QED
  BY <1>1, <1>2, <1>3, <1>4, <1>5, <1>6, <1>7, <1>8, <1>9, <1>10, <1>11, <1>12 DEF Write

LEMMA NextUpdateType == UpdateTypeOK /\ [UpdateNext]_updateVars => UpdateTypeOK'
<1>1. UpdateTypeOK /\ UNCHANGED updateVars => UpdateTypeOK'
  BY DEF updateVars, metaVars, callVars, UpdateTypeOK, MetaTypeOK, Running
<1> QED
  BY <1>1, WriteType DEF UpdateNext

\* No interleaving of statements and failures leaves rows or handlers outside
\* of their types.
THEOREM UpdatesTypeCorrect == UpdateSpec => []UpdateTypeOK
BY InitUpdateType, NextUpdateType, PTL DEF UpdateSpec

--------------------------------------------------------------------------------
(* A handler that no other call for the same rows overlaps.                *)

LEMMA Ranks ==
    /\ Rank["setRole"] = 1 /\ Rank["deleteUserRoles"] = 2 /\ Rank["insertUserRoles"] = 3
    /\ Rank["deleteMembership"] = 4 /\ Rank["insertMembership"] = 5
    /\ Rank["deleteOverrides"] = 6 /\ Rank["insertOverrides"] = 7
    /\ Rank["deleteRolePermissions"] = 8 /\ Rank["insertRolePermissions"] = 9
BY DEF Rank

LEMMA StatementRank == ASSUME NEW s \in Statements PROVE Rank[s.op] \in Nat
<1>1. s.op \in {"setRole", "deleteUserRoles", "insertUserRoles", "deleteMembership",
                "insertMembership", "deleteOverrides", "insertOverrides",
                "deleteRolePermissions", "insertRolePermissions"}
  BY DEF Statements, Statement
<1> QED
  BY <1>1, Ranks

\* The statements of a call in their order, and their names.
Plan(c, p, names) ==
    /\ p \in Seq(Statements)
    /\ InOrder(p)
    /\ \A i \in 1..Len(p) : Asks(c, p[i])
    /\ Left(p) = names

LEMMA NoPlan == ASSUME NEW c PROVE Plan(c, <<>>, {})
<1>1. Len(<<>>) = 0 /\ <<>> \in Seq(Statements)
  OBVIOUS
<1> QED
  BY <1>1 DEF Plan, InOrder, Left

LEMMA OnePlan ==
    ASSUME NEW c, NEW s \in Statements, Asks(c, s) PROVE Plan(c, <<s>>, {s.op})
<1>1. <<s>> \in Seq(Statements) /\ Len(<<s>>) = 1 /\ <<s>>[1] = s
  OBVIOUS
<1>2. \A i : i \in 1..1 <=> i = 1
  OBVIOUS
<1>3. InOrder(<<s>>)
  BY <1>1, <1>2 DEF InOrder
<1>4. Left(<<s>>) = {s.op}
  BY <1>1, <1>2 DEF Left
<1>5. \A i \in 1..Len(<<s>>) : Asks(c, <<s>>[i])
  BY <1>1, <1>2
<1> QED
  BY <1>1, <1>3, <1>4, <1>5 DEF Plan

LEMMA JoinPlans ==
    ASSUME NEW c, NEW p, NEW L, NEW q, NEW M, Plan(c, p, L), Plan(c, q, M),
           \A a \in L, b \in M : Rank[a] < Rank[b]
    PROVE  Plan(c, p \o q, L \union M)
<1> DEFINE r == p \o q
<1>1. /\ p \in Seq(Statements) /\ q \in Seq(Statements) /\ r \in Seq(Statements)
      /\ Len(r) = Len(p) + Len(q) /\ Len(p) \in Nat /\ Len(q) \in Nat
  BY DEF Plan
<1>2. \A i \in 1..Len(r) : IF i <= Len(p) THEN i \in 1..Len(p) /\ r[i] = p[i]
                           ELSE i - Len(p) \in 1..Len(q) /\ r[i] = q[i - Len(p)]
  BY <1>1
<1> HIDE DEF r
<1>3. \A i \in 1..Len(p) : p[i].op \in L
  BY DEF Plan, Left
<1>4. \A j \in 1..Len(q) : q[j].op \in M
  BY DEF Plan, Left
<1>5. InOrder(r)
  <2>1. SUFFICES ASSUME NEW i \in 1..Len(r), NEW j \in 1..Len(r), i < j
                 PROVE  Rank[r[i].op] < Rank[r[j].op]
    BY DEF InOrder
  <2>2. CASE j <= Len(p)
    BY <1>1, <1>2, <2>1, <2>2 DEF Plan, InOrder
  <2>3. CASE i <= Len(p) /\ ~(j <= Len(p))
    BY <1>2, <1>3, <1>4, <2>3
  <2>4. CASE ~(i <= Len(p)) /\ ~(j <= Len(p))
    <3>1. i - Len(p) < j - Len(p)
      BY <1>1, <2>1
    <3> QED
      BY <1>2, <2>4, <3>1 DEF Plan, InOrder
  <2> QED
    BY <1>1, <2>1, <2>2, <2>3, <2>4
<1>6. \A i \in 1..Len(r) : Asks(c, r[i])
  BY <1>2 DEF Plan
<1>7. Left(r) = L \union M
  <2>1. Left(r) \subseteq L \union M
    BY <1>2, <1>3, <1>4 DEF Left
  <2>2. L \subseteq Left(r)
    <3>1. SUFFICES ASSUME NEW i \in 1..Len(p) PROVE p[i].op \in Left(r)
      BY DEF Plan, Left
    <3>2. i \in 1..Len(r) /\ r[i] = p[i]
      BY <1>1, <1>2
    <3> QED
      BY <3>2 DEF Left
  <2>3. M \subseteq Left(r)
    <3>1. SUFFICES ASSUME NEW j \in 1..Len(q) PROVE q[j].op \in Left(r)
      BY DEF Plan, Left
    <3>2. j + Len(p) \in 1..Len(r) /\ ~(j + Len(p) <= Len(p)) /\ (j + Len(p)) - Len(p) = j
      BY <1>1
    <3>3. r[j + Len(p)] = q[j]
      BY <1>2, <3>2
    <3> QED
      BY <3>2, <3>3 DEF Left
  <2> QED
    BY <2>1, <2>2, <2>3
<1> QED
  BY <1>1, <1>5, <1>6, <1>7 DEF Plan, r

LEMMA PlanOfOverrides ==
    ASSUME NEW rows \in [Tables -> Overrides], NEW c, c = [on |-> "overrides", rows |-> rows],
           NEW p, p = <<Statement("deleteOverrides")>> \o
                      (IF \A t \in Tables : rows[t] = "none" THEN <<>>
                       ELSE <<[op |-> "insertOverrides", rows |-> rows]>>)
    PROVE  \E L : Plan(c, p, L) /\ OnTheWay(c, L)
<1> DEFINE d == Statement("deleteOverrides")
           i == [op |-> "insertOverrides", rows |-> rows]
<1>1. d \in Statements /\ i \in Statements /\ Asks(c, d) /\ Asks(c, i)
      /\ d.op = "deleteOverrides" /\ i.op = "insertOverrides" /\ c.on = "overrides" /\ c.rows = rows
  BY PlainStatements DEF Statements, Statement, Asks
<1>2. Plan(c, <<d>>, {d.op}) /\ Plan(c, <<i>>, {i.op}) /\ Plan(c, <<>>, {})
  BY <1>1, OnePlan, NoPlan
<1> HIDE DEF d, i
<1>3. CASE \A t \in Tables : rows[t] = "none"
  <2>1. p = <<d>> \o <<>> /\ rows = NoRows
    BY <1>3 DEF d, NoRows
  <2>2. Plan(c, p, {d.op} \union {})
    BY <1>2, <2>1, JoinPlans
  <2>3. OnTheWay(c, {d.op} \union {})
    BY <1>1, <2>1 DEF OnTheWay, Replacing
  <2> QED
    BY <2>2, <2>3
<1>4. CASE ~\A t \in Tables : rows[t] = "none"
  <2>1. p = <<d>> \o <<i>>
    BY <1>4 DEF d, i
  <2>2. Plan(c, p, {d.op} \union {i.op})
    <3>1. \A a \in {d.op}, b \in {i.op} : Rank[a] < Rank[b]
      BY <1>1, Ranks
    <3>2. Plan(c, <<d>> \o <<i>>, {d.op} \union {i.op})
      BY <1>2, <3>1, JoinPlans
    <3> QED
      BY <2>1, <3>2
  <2>3. OnTheWay(c, {d.op} \union {i.op})
    BY <1>1 DEF OnTheWay, Replacing
  <2> QED
    BY <2>2, <2>3
<1> QED
  BY <1>3, <1>4

LEMMA PlanOfRole ==
    ASSUME NEW r \in Roles, NEW rows \in [Tables -> Grants],
           NEW c, c = [on |-> "role", role |-> r, rows |-> rows],
           NEW p, p = <<[op |-> "deleteRolePermissions", role |-> r]>> \o
                      (IF \A t \in Tables : rows[t] = "none" THEN <<>>
                       ELSE <<[op |-> "insertRolePermissions", role |-> r, rows |-> rows]>>)
    PROVE  \E L : Plan(c, p, L) /\ OnTheWay(c, L)
<1> DEFINE d == [op |-> "deleteRolePermissions", role |-> r]
           i == [op |-> "insertRolePermissions", role |-> r, rows |-> rows]
<1>1. d \in Statements /\ i \in Statements /\ Asks(c, d) /\ Asks(c, i)
      /\ d.op = "deleteRolePermissions" /\ i.op = "insertRolePermissions"
      /\ c.on = "role" /\ c.role = r /\ c.rows = rows
  BY DEF Statements, Asks
<1>2. Plan(c, <<d>>, {d.op}) /\ Plan(c, <<i>>, {i.op}) /\ Plan(c, <<>>, {})
  BY <1>1, OnePlan, NoPlan
<1> HIDE DEF d, i
<1>3. CASE \A t \in Tables : rows[t] = "none"
  <2>1. p = <<d>> \o <<>> /\ rows = NoRows
    BY <1>3 DEF d, NoRows
  <2>2. Plan(c, p, {d.op} \union {})
    BY <1>2, <2>1, JoinPlans
  <2>3. OnTheWay(c, {d.op} \union {})
    BY <1>1, <2>1 DEF OnTheWay, Replacing
  <2> QED
    BY <2>2, <2>3
<1>4. CASE ~\A t \in Tables : rows[t] = "none"
  <2>1. p = <<d>> \o <<i>>
    BY <1>4 DEF d, i
  <2>2. Plan(c, p, {d.op} \union {i.op})
    <3>1. \A a \in {d.op}, b \in {i.op} : Rank[a] < Rank[b]
      BY <1>1, Ranks
    <3>2. Plan(c, <<d>> \o <<i>>, {d.op} \union {i.op})
      BY <1>2, <3>1, JoinPlans
    <3> QED
      BY <2>1, <3>2
  <2>3. OnTheWay(c, {d.op} \union {i.op})
    BY <1>1 DEF OnTheWay, Replacing
  <2> QED
    BY <2>2, <2>3
<1> QED
  BY <1>3, <1>4

\* The rows of user_roles, and those of connection_members.
LEMMA PlanOfUserRoles ==
    ASSUME NEW c \in UserCalls, NEW ids \in SUBSET Roles, ids = WantedRoles(c)
    PROVE  \E L : /\ Plan(c, ReplaceUserRoles(ids), L)
                  /\ L \subseteq {"deleteUserRoles", "insertUserRoles"}
                  /\ "deleteUserRoles" \in L /\ (ids # {} => "insertUserRoles" \in L)
<1> DEFINE d == Statement("deleteUserRoles")
           i == [op |-> "insertUserRoles", ids |-> ids]
<1>1. d \in Statements /\ i \in Statements /\ Asks(c, d) /\ Asks(c, i)
      /\ d.op = "deleteUserRoles" /\ i.op = "insertUserRoles"
  BY PlainStatements DEF Statements, Statement, Asks, UserCalls
<1>2. Plan(c, <<d>>, {d.op}) /\ Plan(c, <<i>>, {i.op}) /\ Plan(c, <<>>, {})
  BY <1>1, OnePlan, NoPlan
<1>3. ReplaceUserRoles(ids) = <<d>> \o (IF ids = {} THEN <<>> ELSE <<i>>)
  BY DEF ReplaceUserRoles
<1> HIDE DEF d, i
<1>4. CASE ids = {}
  <2>1. Plan(c, ReplaceUserRoles(ids), {d.op} \union {})
    BY <1>2, <1>3, <1>4, JoinPlans
  <2> QED
    BY <1>1, <1>4, <2>1
<1>5. CASE ids # {}
  <2>1. Plan(c, ReplaceUserRoles(ids), {d.op} \union {i.op})
    BY <1>1, <1>2, <1>3, <1>5, JoinPlans, Ranks
  <2> QED
    BY <1>1, <2>1
<1> QED
  BY <1>4, <1>5

LEMMA PlanOfMemberships ==
    ASSUME NEW c \in UserCalls, NEW with \in BOOLEAN, with <=> WantsMembership(c)
    PROVE  \E L : /\ Plan(c, ReplaceMemberships(with), L)
                  /\ L \subseteq {"deleteMembership", "insertMembership"}
                  /\ "deleteMembership" \in L /\ (with => "insertMembership" \in L)
<1> DEFINE d == Statement("deleteMembership")
           i == Statement("insertMembership")
<1>1. d \in Statements /\ i \in Statements /\ Asks(c, d) /\ (with => Asks(c, i))
      /\ d.op = "deleteMembership" /\ i.op = "insertMembership"
  BY PlainStatements DEF Statement, Asks, UserCalls
<1>2. Plan(c, <<d>>, {d.op}) /\ (with => Plan(c, <<i>>, {i.op})) /\ Plan(c, <<>>, {})
  BY <1>1, OnePlan, NoPlan
<1>3. ReplaceMemberships(with) = <<d>> \o (IF with THEN <<i>> ELSE <<>>)
  BY DEF ReplaceMemberships
<1> HIDE DEF d, i
<1>4. CASE ~with
  <2>1. Plan(c, ReplaceMemberships(with), {d.op} \union {})
    BY <1>2, <1>3, <1>4, JoinPlans
  <2> QED
    BY <1>1, <1>4, <2>1
<1>5. CASE with
  <2>1. Plan(c, ReplaceMemberships(with), {d.op} \union {i.op})
    BY <1>1, <1>2, <1>3, <1>5, JoinPlans, Ranks
  <2> QED
    BY <1>1, <2>1
<1> QED
  BY <1>4, <1>5

LEMMA PlanOfUser ==
    ASSUME NEW c \in UserCalls, c.effectiveRole = EffectiveRole(c)
    PROVE  \E L : Plan(c, UpdateUserStatements(c), L) /\ OnTheWay(c, L)
<1> DEFINE first == IF c.role = Keep THEN <<>> ELSE <<[op |-> "setRole", role |-> c.role]>>
           roles == IF c.roleIds = Keep THEN <<>> ELSE ReplaceUserRoles(c.roleIds)
           members == IF c.connectionIds = Keep THEN <<>>
                      ELSE ReplaceMemberships(c.connectionIds = "with")
<1>1. /\ c.on = "user" /\ c.role \in PlatformRoles \union {Keep}
      /\ c.roleIds \in {Keep} \union SUBSET Roles
  BY DEF UserCalls
<1>2. /\ c.role # Keep => c.effectiveRole = c.role
      /\ c.role = Keep => c.effectiveRole = profileRole
  BY DEF EffectiveRole
<1>3. \E A : /\ Plan(c, first, A) /\ A \subseteq {"setRole"}
             /\ "setRole" \notin A => profileRole = c.effectiveRole
  <2>1. CASE c.role = Keep
    <3>1. Plan(c, first, {})
      BY <2>1, NoPlan
    <3> QED
      BY <1>2, <2>1, <3>1
  <2>2. CASE c.role # Keep
    <3> DEFINE s == [op |-> "setRole", role |-> c.role]
    <3>1. s \in Statements /\ Asks(c, s) /\ s.op = "setRole"
      BY <1>1, <1>2, <2>2 DEF Statements, Asks
    <3>2. first = <<s>>
      BY <2>2
    <3> HIDE DEF s, first
    <3>3. Plan(c, first, {"setRole"})
      BY <3>1, <3>2, OnePlan
    <3> QED
      BY <3>3
  <2> QED
    BY <2>1, <2>2
<1>4. UpdateUserStatements(c) =
        first \o IF Admin(c) THEN ReplaceUserRoles({}) \o ReplaceMemberships(FALSE)
                 ELSE roles \o members
  BY DEF UpdateUserStatements, Admin
<1>5. CASE Admin(c)
  <2>1. WantedRoles(c) = {} /\ ~WantsMembership(c)
    BY <1>5 DEF WantedRoles, WantsMembership
  <2> HIDE DEF first, roles, members
  <2>2. PICK A : /\ Plan(c, first, A) /\ A \subseteq {"setRole"}
                 /\ "setRole" \notin A => profileRole = c.effectiveRole
    BY <1>3
  <2>3. PICK B : /\ Plan(c, ReplaceUserRoles({}), B)
                 /\ B \subseteq {"deleteUserRoles", "insertUserRoles"}
                 /\ "deleteUserRoles" \in B
    BY <2>1, PlanOfUserRoles
  <2>4. PICK C : /\ Plan(c, ReplaceMemberships(FALSE), C)
                 /\ C \subseteq {"deleteMembership", "insertMembership"}
                 /\ "deleteMembership" \in C
    BY <2>1, PlanOfMemberships
  <2>5. Plan(c, ReplaceUserRoles({}) \o ReplaceMemberships(FALSE), B \union C)
    <3>1. \A b \in B, d \in C : Rank[b] < Rank[d]
      BY <2>3, <2>4, Ranks
    <3> QED
      BY <2>3, <2>4, <3>1, JoinPlans
  <2>6. Plan(c, UpdateUserStatements(c), A \union (B \union C))
    <3>1. \A a \in A, b \in B \union C : Rank[a] < Rank[b]
      BY <2>2, <2>3, <2>4, Ranks
    <3>2. Plan(c, first \o (ReplaceUserRoles({}) \o ReplaceMemberships(FALSE)),
               A \union (B \union C))
      BY <2>2, <2>5, <3>1, JoinPlans
    <3> QED
      BY <1>4, <1>5, <3>2
  <2>7. OnTheWay(c, A \union (B \union C))
    BY <1>1, <1>2, <2>1, <2>2, <2>3, <2>4 DEF OnTheWay, Replacing
  <2> QED
    BY <2>6, <2>7
<1>6. CASE ~Admin(c)
  <2>1. WantedRoles(c) = c.roleIds /\ (WantsMembership(c) <=> c.connectionIds = "with")
    BY <1>6 DEF WantedRoles, WantsMembership
  <2>2. \E B : /\ Plan(c, roles, B) /\ B \subseteq {"deleteUserRoles", "insertUserRoles"}
               /\ c.roleIds # Keep => /\ "deleteUserRoles" \in B
                                      /\ c.roleIds # {} => "insertUserRoles" \in B
    <3>1. CASE c.roleIds = Keep
      <4>1. roles = <<>>
        BY <3>1
      <4> HIDE DEF roles
      <4> QED
        BY <3>1, <4>1, NoPlan
    <3>2. CASE c.roleIds # Keep
      <4>1. roles = ReplaceUserRoles(c.roleIds) /\ c.roleIds \in SUBSET Roles
        BY <1>1, <3>2
      <4> HIDE DEF roles
      <4> QED
        BY <2>1, <4>1, PlanOfUserRoles
    <3> QED
      BY <3>1, <3>2
  <2>3. \E C : /\ Plan(c, members, C) /\ C \subseteq {"deleteMembership", "insertMembership"}
               /\ c.connectionIds # Keep => /\ "deleteMembership" \in C
                                            /\ WantsMembership(c) => "insertMembership" \in C
    <3>1. CASE c.connectionIds = Keep
      BY <3>1, NoPlan
    <3>2. CASE c.connectionIds # Keep
      <4>1. members = ReplaceMemberships(c.connectionIds = "with")
        BY <3>2
      <4>2. (c.connectionIds = "with") \in BOOLEAN
        OBVIOUS
      <4> HIDE DEF members
      <4> QED
        BY <2>1, <4>1, <4>2, PlanOfMemberships
    <3> QED
      BY <3>1, <3>2
  <2> HIDE DEF first, roles, members
  <2>4. PICK A : /\ Plan(c, first, A) /\ A \subseteq {"setRole"}
                 /\ "setRole" \notin A => profileRole = c.effectiveRole
    BY <1>3
  <2>5. PICK B : /\ Plan(c, roles, B) /\ B \subseteq {"deleteUserRoles", "insertUserRoles"}
                 /\ c.roleIds # Keep => /\ "deleteUserRoles" \in B
                                        /\ c.roleIds # {} => "insertUserRoles" \in B
    BY <2>2
  <2>6. PICK C : /\ Plan(c, members, C) /\ C \subseteq {"deleteMembership", "insertMembership"}
                 /\ c.connectionIds # Keep => /\ "deleteMembership" \in C
                                              /\ WantsMembership(c) => "insertMembership" \in C
    BY <2>3
  <2>7. Plan(c, roles \o members, B \union C)
    <3>1. \A b \in B, d \in C : Rank[b] < Rank[d]
      BY <2>5, <2>6, Ranks
    <3> QED
      BY <2>5, <2>6, <3>1, JoinPlans
  <2>8. Plan(c, UpdateUserStatements(c), A \union (B \union C))
    <3>1. \A a \in A, b \in B \union C : Rank[a] < Rank[b]
      <4>1. \A a \in A : Rank[a] = 1
        BY <2>4, Ranks
      <4>2. \A b \in B \union C : Rank[b] \in {2, 3, 4, 5}
        BY <2>5, <2>6, Ranks
      <4> QED
        BY <4>1, <4>2
    <3>2. Plan(c, first \o (roles \o members), A \union (B \union C))
      BY <2>4, <2>7, <3>1, JoinPlans
    <3> QED
      BY <1>4, <1>6, <3>2
  <2>9. OnTheWay(c, A \union (B \union C))
    BY <1>1, <1>2, <1>6, <2>1, <2>4, <2>5, <2>6 DEF OnTheWay, Replacing
  <2> QED
    BY <2>8, <2>9
<1> QED
  BY <1>5, <1>6

\* After the first statement of a plan the rest of it is left.
LEMMA PlanGoesOn ==
    ASSUME NEW c, NEW s \in Seq(Statements), InOrder(s), s # <<>>,
           \A i \in 1..Len(s) : Asks(c, s[i])
    PROVE  /\ Head(s) \in Statements /\ Asks(c, Head(s)) /\ Head(s).op \in Left(s)
           /\ \A o \in Left(s) : o = Head(s).op \/ Rank[Head(s).op] < Rank[o]
           /\ Len(s) = 1 => Left(s) \ {Head(s).op} = {}
           /\ Len(s) > 1 => /\ InOrder(Tail(s))
                            /\ \A i \in 1..Len(Tail(s)) : Asks(c, Tail(s)[i])
                            /\ Left(Tail(s)) = Left(s) \ {Head(s).op}
<1>1. /\ Len(s) \in Nat /\ Len(s) >= 1 /\ Head(s) = s[1]
      /\ \A i \in 1..Len(s) : s[i] \in Statements /\ Rank[s[i].op] \in Nat
  <2>1. Len(s) \in Nat /\ Len(s) # 0 /\ Head(s) = s[1]
    OBVIOUS
  <2>2. \A i \in 1..Len(s) : s[i] \in Statements
    OBVIOUS
  <2> QED
    BY <2>1, <2>2, StatementRank
<1>2. 1 \in 1..Len(s)
  BY <1>1
<1>3. Head(s) \in Statements /\ Asks(c, Head(s)) /\ Head(s).op \in Left(s)
  BY <1>1, <1>2 DEF Left
<1>4. \A i \in 1..Len(s) : i = 1 \/ Rank[s[1].op] < Rank[s[i].op]
  <2>1. \A i \in 1..Len(s) : i = 1 \/ 1 < i
    BY <1>1
  <2> QED
    BY <1>2, <2>1 DEF InOrder
<1>5. \A o \in Left(s) : o = Head(s).op \/ Rank[Head(s).op] < Rank[o]
  BY <1>1, <1>4 DEF Left
<1>6. Len(s) = 1 => Left(s) \ {Head(s).op} = {}
  <2>1. SUFFICES ASSUME Len(s) = 1, NEW i \in 1..Len(s) PROVE s[i].op = Head(s).op
    BY DEF Left
  <2>2. i = 1
    BY <2>1
  <2> QED
    BY <1>1, <2>2
<1>7. ASSUME Len(s) > 1
      PROVE  /\ InOrder(Tail(s))
             /\ \A i \in 1..Len(Tail(s)) : Asks(c, Tail(s)[i])
             /\ Left(Tail(s)) = Left(s) \ {Head(s).op}
  <2> DEFINE t == Tail(s)
  <2>1. /\ t \in Seq(Statements) /\ Len(t) = Len(s) - 1
        /\ \A i \in 1..Len(t) : i + 1 \in 1..Len(s) /\ t[i] = s[i + 1]
    BY <1>1, <1>7
  <2> HIDE DEF t
  <2>2. InOrder(t)
    <3>1. SUFFICES ASSUME NEW i \in 1..Len(t), NEW j \in 1..Len(t), i < j
                   PROVE  Rank[t[i].op] < Rank[t[j].op]
      BY DEF InOrder
    <3>2. i + 1 < j + 1
      BY <2>1, <3>1
    <3> QED
      BY <2>1, <3>2 DEF InOrder
  <2>3. Left(t) \subseteq Left(s) \ {Head(s).op}
    <3>1. SUFFICES ASSUME NEW i \in 1..Len(t) PROVE t[i].op \in Left(s) /\ t[i].op # Head(s).op
      BY DEF Left
    <3>2. i + 1 \in 1..Len(s) /\ t[i] = s[i + 1] /\ i + 1 # 1
      BY <2>1
    <3>3. Rank[s[1].op] < Rank[s[i + 1].op]
      BY <1>4, <3>2
    <3>4. s[i + 1].op # s[1].op
      BY <1>1, <1>2, <3>2, <3>3
    <3> QED
      BY <1>1, <3>2, <3>4 DEF Left
  <2>4. Left(s) \ {Head(s).op} \subseteq Left(t)
    <3>1. SUFFICES ASSUME NEW i \in 1..Len(s), i # 1 PROVE s[i].op \in Left(t)
      BY <1>1 DEF Left
    <3>2. i - 1 \in 1..Len(t) /\ (i - 1) + 1 = i
      BY <1>1, <2>1, <3>1
    <3>3. t[i - 1] = s[i]
      BY <2>1, <3>2
    <3> QED
      BY <3>2, <3>3 DEF Left
  <2>5. \A i \in 1..Len(t) : Asks(c, t[i])
    BY <2>1
  <2> QED
    BY <2>2, <2>3, <2>4, <2>5 DEF t
<1> QED
  BY <1>3, <1>5, <1>6, <1>7

\* The statements.
Executes(w) == \/ SetRole(w) \/ DeleteUserRoles(w) \/ InsertUserRoles(w)
               \/ DeleteMembership(w) \/ InsertMembership(w)
               \/ DeleteOverrides(w) \/ InsertOverrides(w)
               \/ DeleteRolePermissions(w) \/ InsertRolePermissions(w)

LEMMA OnlyWhatItSays ==
    ASSUME UNCHANGED metaVars, NEW c, NEW L, OnTheWay(c, L) PROVE OnTheWay(c, L)'
BY DEF metaVars, OnTheWay, Replacing, NoRows, Admin, WantedRoles, WantsMembership

\* Rows that were empty hold what was inserted.
LEMMA InsertedIntoNone ==
    ASSUME NEW V, NEW rows \in [Tables -> V], "none" \in V PROVE Inserted(NoRows, rows) = rows
BY DEF Inserted, NoRows

\* A statement of the handler itself leaves the rest of them to do.
LEMMA OwnStatement ==
    ASSUME UpdateTypeOK, NEW w \in Writers, Executes(w), NEW s, s = Next1(w), s \in Statements,
           NEW c \in Calls, Asks(c, s), NEW L, s.op \in L,
           \A o \in L : o = s.op \/ Rank[s.op] < Rank[o], OnTheWay(c, L)
    PROVE  OnTheWay(c, L \ {s.op})'
<1> USE DEF OnTheWay, Replacing, Admin
<1>1. CASE SetRole(w)
  <2>1. /\ s.op = "setRole" /\ profileRole' = s.role
        /\ UNCHANGED <<userRoles, membership, rolePermissions, overrides>>
    BY <1>1 DEF SetRole, Runs
  <2>2. c.on = "user" /\ s.role = c.effectiveRole
    BY <2>1 DEF Asks
  <2> QED
    BY <2>1, <2>2 DEF WantedRoles, WantsMembership
<1>2. CASE DeleteUserRoles(w)
  <2>1. /\ s.op = "deleteUserRoles" /\ userRoles' = {}
        /\ UNCHANGED <<profileRole, membership, rolePermissions, overrides>>
    BY <1>2 DEF DeleteUserRoles, Runs
  <2>2. c.on = "user"
    BY <2>1 DEF Asks
  <2> QED
    BY <2>1, <2>2 DEF WantedRoles, WantsMembership
<1>3. CASE InsertUserRoles(w)
  <2>1. /\ s.op = "insertUserRoles" /\ userRoles' = userRoles \union s.ids
        /\ UNCHANGED <<profileRole, membership, rolePermissions, overrides>>
    BY <1>3 DEF InsertUserRoles, Runs
  <2>2. c.on = "user" /\ s.ids = WantedRoles(c)
    BY <2>1 DEF Asks
  <2>3. "deleteUserRoles" \notin L
    BY <2>1, Ranks
  <2> QED
    BY <2>1, <2>2, <2>3 DEF WantedRoles, WantsMembership
<1>4. CASE DeleteMembership(w)
  <2>1. /\ s.op = "deleteMembership" /\ membership' = FALSE
        /\ UNCHANGED <<profileRole, userRoles, rolePermissions, overrides>>
    BY <1>4 DEF DeleteMembership, Runs
  <2>2. c.on = "user"
    BY <2>1 DEF Asks
  <2> QED
    BY <2>1, <2>2 DEF WantedRoles, WantsMembership
<1>5. CASE InsertMembership(w)
  <2>1. /\ s.op = "insertMembership" /\ membership' = TRUE
        /\ UNCHANGED <<profileRole, userRoles, rolePermissions, overrides>>
    BY <1>5 DEF InsertMembership, Runs
  <2>2. c.on = "user" /\ WantsMembership(c)
    BY <2>1 DEF Asks
  <2>3. "deleteMembership" \notin L
    BY <2>1, Ranks
  <2> QED
    BY <2>1, <2>2, <2>3 DEF WantedRoles, WantsMembership
<1>6. CASE DeleteOverrides(w)
  <2>1. /\ s.op = "deleteOverrides" /\ overrides' = NoRows
        /\ UNCHANGED <<profileRole, userRoles, membership, rolePermissions>>
    BY <1>6 DEF DeleteOverrides, Runs, NoRows
  <2>2. c.on = "overrides"
    BY <2>1 DEF Asks
  <2> QED
    BY <2>1, <2>2
<1>7. CASE InsertOverrides(w)
  <2>1. /\ s.op = "insertOverrides" /\ overrides' = Inserted(overrides, s.rows)
        /\ UNCHANGED <<profileRole, userRoles, membership, rolePermissions>>
    BY <1>7 DEF InsertOverrides, Runs
  <2>2. c.on = "overrides" /\ s.rows = c.rows /\ c.rows \in [Tables -> Overrides]
    BY <2>1 DEF Asks, Calls, UserCalls, RoleCalls, OverrideCalls
  <2>3. overrides = NoRows
    BY <2>1, <2>2, Ranks
  <2>4. overrides' = c.rows
    BY <2>1, <2>2, <2>3, InsertedIntoNone DEF Overrides
  <2>5. "deleteOverrides" \notin L
    BY <2>1, Ranks
  <2> QED
    BY <2>1, <2>2, <2>4, <2>5
<1>8. CASE DeleteRolePermissions(w)
  <2>1. /\ s.op = "deleteRolePermissions"
        /\ rolePermissions' = [rolePermissions EXCEPT ![s.role] = NoRows]
        /\ UNCHANGED <<profileRole, userRoles, membership, overrides>>
    BY <1>8 DEF DeleteRolePermissions, Runs, NoRows
  <2>2. c.on = "role" /\ s.role = c.role /\ c.role \in Roles
    BY <2>1 DEF Asks, Calls, UserCalls, RoleCalls, OverrideCalls
  <2>3. rolePermissions'[c.role] = NoRows
    BY <2>1, <2>2 DEF UpdateTypeOK, MetaTypeOK
  <2> QED
    BY <2>1, <2>2, <2>3 DEF NoRows
<1>9. CASE InsertRolePermissions(w)
  <2>1. /\ s.op = "insertRolePermissions"
        /\ rolePermissions' = [rolePermissions EXCEPT ![s.role] = Inserted(@, s.rows)]
        /\ UNCHANGED <<profileRole, userRoles, membership, overrides>>
    BY <1>9 DEF InsertRolePermissions, Runs
  <2>2. /\ c.on = "role" /\ s.role = c.role /\ s.rows = c.rows
        /\ c.role \in Roles /\ c.rows \in [Tables -> Grants]
    BY <2>1 DEF Asks, Calls, UserCalls, RoleCalls, OverrideCalls
  <2>3. rolePermissions[c.role] = NoRows /\ "deleteRolePermissions" \notin L
    BY <2>1, <2>2, Ranks
  <2>4. rolePermissions'[c.role] = Inserted(NoRows, c.rows)
    BY <2>1, <2>2, <2>3 DEF UpdateTypeOK, MetaTypeOK
  <2>5. rolePermissions'[c.role] = c.rows
    BY <2>2, <2>4, InsertedIntoNone DEF Grants
  <2> QED
    BY <2>1, <2>2, <2>3, <2>5
<1> QED
  BY <1>1, <1>2, <1>3, <1>4, <1>5, <1>6, <1>7, <1>8, <1>9 DEF Executes

\* A statement of another handler is of other rows.
LEMMA OtherStatement ==
    ASSUME UpdateTypeOK, NEW v \in Writers, Executes(v), NEW s, s = Next1(v),
           NEW d \in Calls, Asks(d, s), NEW c \in Calls, ~SameRows(d, c), NEW L, OnTheWay(c, L)
    PROVE  OnTheWay(c, L)'
<1> USE DEF OnTheWay, Replacing, Admin
<1>0. c.on = "role" => c.role \in Roles
  BY DEF Calls, UserCalls, RoleCalls, OverrideCalls
<1>1. CASE \/ SetRole(v) \/ DeleteUserRoles(v) \/ InsertUserRoles(v)
           \/ DeleteMembership(v) \/ InsertMembership(v)
  <2>1. d.on = "user" /\ UNCHANGED <<rolePermissions, overrides>>
    BY <1>1 DEF SetRole, DeleteUserRoles, InsertUserRoles, DeleteMembership, InsertMembership,
                Runs, Asks
  <2>2. c.on # "user"
    BY <2>1 DEF SameRows
  <2> QED
    BY <2>1, <2>2 DEF NoRows
<1>2. CASE DeleteOverrides(v) \/ InsertOverrides(v)
  <2>1. /\ d.on = "overrides"
        /\ UNCHANGED <<profileRole, userRoles, membership, rolePermissions>>
    BY <1>2 DEF DeleteOverrides, InsertOverrides, Runs, Asks
  <2>2. c.on # "overrides"
    BY <2>1 DEF SameRows
  <2> QED
    BY <2>1, <2>2 DEF NoRows, WantedRoles, WantsMembership
<1>3. CASE DeleteRolePermissions(v) \/ InsertRolePermissions(v)
  <2>1. /\ d.on = "role" /\ s.role = d.role
        /\ UNCHANGED <<profileRole, userRoles, membership, overrides>>
        /\ \A r \in Roles : r # s.role => rolePermissions'[r] = rolePermissions[r]
    BY <1>3 DEF DeleteRolePermissions, InsertRolePermissions, Runs, Asks, UpdateTypeOK, MetaTypeOK
  <2>2. c.on = "role" => rolePermissions'[c.role] = rolePermissions[c.role]
    BY <1>0, <2>1 DEF SameRows
  <2> QED
    BY <2>1, <2>2 DEF NoRows, WantedRoles, WantsMembership
<1> QED
  BY <1>1, <1>2, <1>3 DEF Executes

\* With nothing left to do the rows are as they were asked for.
LEMMA NothingLeft ==
    ASSUME NEW c \in Calls, OnTheWay(c, {}) PROVE Accomplished(c)
BY DEF OnTheWay, Replacing, Accomplished, Admin, WantedRoles, WantsMembership

\* What is said of a call and what is left of it is said of the handler that runs it.
LEMMA Carries ==
    ASSUME NEW v, NEW c, NEW L, call'[v] = c, Left(todo'[v]) = L, OnTheWay(c, L)'
    PROVE  OnTheWay(call[v], Left(todo[v]))'
BY DEF OnTheWay, Replacing, NoRows, Admin, WantedRoles, WantsMembership, Left

LEMMA LoneInit == ASSUME UpdateInit PROVE LoneInv
BY DEF UpdateInit, LoneInv, Running

\* What is known of a handler that runs, and of one that is alone.
LEMMA LoneSays ==
    ASSUME UpdateTypeOK, LoneInv, NEW w \in Writers, Running(w)
    PROVE  /\ call[w] \in Calls /\ todo[w] \in Seq(Statements) /\ todo[w] # <<>>
           /\ InOrder(todo[w]) /\ \A i \in 1..Len(todo[w]) : Asks(call[w], todo[w][i])
           /\ alone[w] => OnTheWay(call[w], Left(todo[w]))
           /\ Next1(w) \in Statements /\ Asks(call[w], Next1(w)) /\ Next1(w).op \in Left(todo[w])
           /\ \A o \in Left(todo[w]) : o = Next1(w).op \/ Rank[Next1(w).op] < Rank[o]
<1>1. /\ call[w] \in Calls /\ todo[w] \in Seq(Statements) /\ todo[w] # <<>>
      /\ InOrder(todo[w]) /\ \A i \in 1..Len(todo[w]) : Asks(call[w], todo[w][i])
      /\ alone[w] => OnTheWay(call[w], Left(todo[w]))
  BY DEF UpdateTypeOK, LoneInv
<1> QED
  BY <1>1, PlanGoesOn DEF Next1

LEMMA BeginKeeps ==
    ASSUME UpdateTypeOK, LoneInv, NEW w \in Writers, NEW c \in Calls, NEW p, Begin(w, c, p),
           NEW L, Plan(c, p, L), OnTheWay(c, L)
    PROVE  LoneInv'
<1>1. /\ ~Running(w) /\ UNCHANGED metaVars
      /\ reply'[w] = "running" /\ call'[w] = c /\ todo'[w] = p
      /\ \A v \in Writers \ {w} : reply'[v] = reply[v] /\ call'[v] = call[v] /\ todo'[v] = todo[v]
      /\ alone'[w] => \A v \in Writers : Running(v) => ~SameRows(call[v], c)
      /\ \A v \in Writers \ {w} : alone'[v] => alone[v] /\ ~(Running(v) /\ SameRows(call[v], c))
  BY DEF Begin, UpdateTypeOK
<1>2. \A v \in Writers \ {w} : Running(v)' <=> Running(v)
  BY <1>1 DEF Running
<1>3. ASSUME NEW v \in Writers, Running(v)'
      PROVE  /\ call'[v] \in Calls /\ InOrder(todo'[v])
             /\ \A i \in 1..Len(todo'[v]) : Asks(call'[v], todo'[v][i])
  BY <1>1, <1>2, <1>3 DEF LoneInv, Plan
<1>4. ASSUME NEW v \in Writers, alone'[v]
      PROVE  /\ Running(v)'
             /\ OnTheWay(call[v], Left(todo[v]))'
             /\ \A u \in Writers \ {v} : Running(u)' => ~SameRows(call'[u], call'[v])
  <2>1. CASE v = w
    <3>1. Running(v)'
      BY <1>1, <2>1 DEF Running
    <3>2. OnTheWay(c, L)' /\ Left(p) = L
      BY <1>1, OnlyWhatItSays DEF Plan
    <3>3. \A u \in Writers \ {v} : Running(u)' => ~SameRows(call'[u], call'[v])
      BY <1>1, <1>2, <1>4, <2>1
    <3> QED
      BY <1>1, <2>1, <3>1, <3>2, <3>3, Carries
  <2>2. CASE v # w
    <3>1. /\ alone[v] /\ Running(v) /\ ~SameRows(call[v], c) /\ OnTheWay(call[v], Left(todo[v]))
          /\ \A u \in Writers \ {v} : Running(u) => ~SameRows(call[u], call[v])
      BY <1>1, <1>4, <2>2 DEF LoneInv
    <3>2. \A d, M : OnTheWay(d, M) => OnTheWay(d, M)'
      BY <1>1, OnlyWhatItSays
    <3>3. ~SameRows(c, call[v])
      BY <3>1 DEF SameRows
    <3>4. \A u \in Writers \ {v} : Running(u)' => ~SameRows(call'[u], call'[v])
      BY <1>1, <1>2, <2>2, <3>1, <3>3
    <3>5. OnTheWay(call[v], Left(todo[v]))'
      BY <1>1, <2>2, <3>1, <3>2, Carries
    <3> QED
      BY <1>2, <2>2, <3>1, <3>4, <3>5
  <2> QED
    BY <2>1, <2>2
<1> QED
  BY <1>3, <1>4 DEF LoneInv, InOrder, Asks, SameRows

\* What a statement leaves for every call that is alone to do.
LEMMA StatementLeaves ==
    ASSUME UpdateTypeOK, LoneInv, NEW w \in Writers, Executes(w)
    PROVE  /\ \A v \in Writers \ {w} : alone[v] => OnTheWay(call[v], Left(todo[v]))
                 /\ \A c, L : c = call[v] /\ L = Left(todo[v]) => OnTheWay(c, L)'
           /\ alone[w] => \A c, L : c = call[w] /\ L = Left(todo[w]) \ {Next1(w).op} =>
                                    OnTheWay(c, L)'
<1>1. Running(w)
  BY DEF Executes, Runs, SetRole, DeleteUserRoles, InsertUserRoles, DeleteMembership,
         InsertMembership, DeleteOverrides, InsertOverrides, DeleteRolePermissions,
         InsertRolePermissions
<1>2. ASSUME NEW v \in Writers \ {w}, alone[v]
      PROVE  /\ OnTheWay(call[v], Left(todo[v]))
             /\ \A c, L : c = call[v] /\ L = Left(todo[v]) => OnTheWay(c, L)'
  <2>1. Running(v) /\ ~SameRows(call[w], call[v]) /\ OnTheWay(call[v], Left(todo[v]))
    BY <1>1, <1>2 DEF LoneInv
  <2>2. call[w] \in Calls /\ call[v] \in Calls /\ Asks(call[w], Next1(w))
    BY <1>1, <2>1, LoneSays
  <2> QED
    BY <2>1, <2>2, OtherStatement
<1>3. ASSUME alone[w], NEW c, NEW L, c = call[w], L = Left(todo[w]) \ {Next1(w).op}
      PROVE  OnTheWay(c, L)'
  <2>1. /\ c \in Calls /\ OnTheWay(c, Left(todo[w]))
        /\ Next1(w) \in Statements /\ Asks(c, Next1(w)) /\ Next1(w).op \in Left(todo[w])
        /\ \A o \in Left(todo[w]) : o = Next1(w).op \/ Rank[Next1(w).op] < Rank[o]
    BY <1>1, <1>3, LoneSays
  <2> QED
    BY <1>3, <2>1, OwnStatement
<1> QED
  BY <1>2, <1>3

\* A handler that has ended is not alone; the others are as they were.
LEMMA ReturnKeeps ==
    ASSUME UpdateTypeOK, LoneInv, NEW w \in Writers, Running(w), NEW result, result # "running",
           Return(w, result),
           \A v \in Writers \ {w} : alone[v] =>
             \A c, L : c = call[v] /\ L = Left(todo[v]) => OnTheWay(c, L)'
    PROVE  LoneInv'
<1>1. /\ reply'[w] = result /\ ~alone'[w]
      /\ \A v \in Writers \ {w} : /\ reply'[v] = reply[v] /\ call'[v] = call[v]
                                  /\ todo'[v] = todo[v] /\ alone'[v] = alone[v]
  BY DEF Return, UpdateTypeOK
<1>2. ~Running(w)' /\ \A v \in Writers \ {w} : Running(v)' <=> Running(v)
  BY <1>1 DEF Running
<1>3. ASSUME NEW v \in Writers, Running(v)'
      PROVE  /\ call'[v] \in Calls /\ InOrder(todo'[v])
             /\ \A i \in 1..Len(todo'[v]) : Asks(call'[v], todo'[v][i])
  BY <1>1, <1>2, <1>3 DEF LoneInv
<1>4. ASSUME NEW v \in Writers, alone'[v]
      PROVE  /\ Running(v)'
             /\ OnTheWay(call[v], Left(todo[v]))'
             /\ \A u \in Writers \ {v} : Running(u)' => ~SameRows(call'[u], call'[v])
  <2>1. v # w /\ alone[v] /\ Running(v)
    BY <1>1, <1>4 DEF LoneInv
  <2>2. OnTheWay(call[v], Left(todo[v]))'
    BY <1>1, <2>1, Carries
  <2>3. \A u \in Writers \ {v} : Running(u)' => ~SameRows(call'[u], call'[v])
    BY <1>1, <1>2, <2>1 DEF LoneInv
  <2> QED
    BY <1>2, <2>1, <2>2, <2>3
<1> QED
  BY <1>3, <1>4 DEF LoneInv, InOrder, Asks, SameRows

LEMMA StatementKeeps ==
    ASSUME UpdateTypeOK, LoneInv, NEW w \in Writers, Executes(w) PROVE LoneInv'
<1>1. Running(w) /\ Goes(w)
  BY DEF Executes, Runs, SetRole, DeleteUserRoles, InsertUserRoles, DeleteMembership,
         InsertMembership, DeleteOverrides, InsertOverrides, DeleteRolePermissions,
         InsertRolePermissions
<1>2. CASE /\ Len(todo[w]) > 1
           /\ todo' = [todo EXCEPT ![w] = Tail(@)] /\ UNCHANGED <<reply, call, alone>>
  <2>1. /\ UNCHANGED <<reply, call, alone>> /\ todo'[w] = Tail(todo[w])
        /\ \A v \in Writers \ {w} : todo'[v] = todo[v]
        /\ \A v \in Writers : Running(v)' <=> Running(v)
    BY <1>2 DEF UpdateTypeOK, Running
  <2>2. /\ InOrder(Tail(todo[w])) /\ Left(Tail(todo[w])) = Left(todo[w]) \ {Next1(w).op}
        /\ \A i \in 1..Len(Tail(todo[w])) : Asks(call[w], Tail(todo[w])[i])
    <3>1. /\ todo[w] \in Seq(Statements) /\ todo[w] # <<>> /\ InOrder(todo[w])
          /\ \A i \in 1..Len(todo[w]) : Asks(call[w], todo[w][i])
      BY <1>1, LoneSays
    <3> QED
      BY <1>2, <3>1, PlanGoesOn DEF Next1
  <2>3. ASSUME NEW v \in Writers, Running(v)'
        PROVE  /\ call'[v] \in Calls /\ InOrder(todo'[v])
               /\ \A i \in 1..Len(todo'[v]) : Asks(call'[v], todo'[v][i])
    BY <2>1, <2>2, <2>3 DEF LoneInv
  <2>4. ASSUME NEW v \in Writers, alone'[v]
        PROVE  /\ Running(v)'
               /\ OnTheWay(call[v], Left(todo[v]))'
               /\ \A u \in Writers \ {v} : Running(u)' => ~SameRows(call'[u], call'[v])
    <3>1. alone[v] /\ Running(v)
      BY <2>1, <2>4 DEF LoneInv
    <3>2. OnTheWay(call[v], Left(todo[v]))'
      <4>1. CASE v = w
        BY <2>1, <2>2, <3>1, <4>1, StatementLeaves, Carries
      <4>2. CASE v # w
        BY <2>1, <3>1, <4>2, StatementLeaves, Carries
      <4> QED
        BY <4>1, <4>2
    <3>3. \A u \in Writers \ {v} : Running(u)' => ~SameRows(call'[u], call'[v])
      BY <2>1, <3>1 DEF LoneInv
    <3> QED
      BY <2>1, <3>1, <3>2, <3>3
  <2> QED
    BY <2>3, <2>4 DEF LoneInv, InOrder, Asks, SameRows
<1>3. CASE Return(w, "success") \/ Return(w, "error")
  BY <1>1, <1>3, StatementLeaves, ReturnKeeps
<1> QED
  BY <1>1, <1>2, <1>3 DEF Goes

LEMMA LoneStep ==
    ASSUME UpdateTypeOK, LoneInv, [UpdateNext]_updateVars PROVE LoneInv'
<1>1. ASSUME NEW w \in Writers, UpdateUser(w) PROVE LoneInv'
  <2>1. PICK c \in UserCalls : /\ c.effectiveRole = EffectiveRole(c)
                              /\ Begin(w, c, UpdateUserStatements(c))
    BY <1>1 DEF UpdateUser
  <2>2. PICK L : Plan(c, UpdateUserStatements(c), L) /\ OnTheWay(c, L)
    BY <2>1, PlanOfUser
  <2> QED
    BY <2>1, <2>2, BeginKeeps DEF Calls
<1>2. ASSUME NEW w \in Writers, UpdateUserOverrides(w) PROVE LoneInv'
  <2>1. PICK rows \in [Tables -> Overrides] :
          Begin(w, [on |-> "overrides", rows |-> rows],
                <<Statement("deleteOverrides")>> \o
                (IF \A t \in Tables : rows[t] = "none" THEN <<>>
                 ELSE <<[op |-> "insertOverrides", rows |-> rows]>>))
    BY <1>2 DEF UpdateUserOverrides
  <2> DEFINE c == [on |-> "overrides", rows |-> rows]
             p == <<Statement("deleteOverrides")>> \o
                  (IF \A t \in Tables : rows[t] = "none" THEN <<>>
                   ELSE <<[op |-> "insertOverrides", rows |-> rows]>>)
  <2>2. c \in Calls
    BY DEF Calls, OverrideCalls
  <2>3. \E L : Plan(c, p, L) /\ OnTheWay(c, L)
    BY PlanOfOverrides
  <2> HIDE DEF c, p
  <2>4. Begin(w, c, p)
    BY <2>1 DEF c, p
  <2> QED
    BY <2>2, <2>3, <2>4, BeginKeeps
<1>3. ASSUME NEW w \in Writers, UpdateRolePermissions(w) PROVE LoneInv'
  <2>1. PICK r \in Roles, rows \in [Tables -> Grants] :
          Begin(w, [on |-> "role", role |-> r, rows |-> rows],
                <<[op |-> "deleteRolePermissions", role |-> r]>> \o
                (IF \A t \in Tables : rows[t] = "none" THEN <<>>
                 ELSE <<[op |-> "insertRolePermissions", role |-> r, rows |-> rows]>>))
    BY <1>3 DEF UpdateRolePermissions
  <2> DEFINE c == [on |-> "role", role |-> r, rows |-> rows]
             p == <<[op |-> "deleteRolePermissions", role |-> r]>> \o
                  (IF \A t \in Tables : rows[t] = "none" THEN <<>>
                   ELSE <<[op |-> "insertRolePermissions", role |-> r, rows |-> rows]>>)
  <2>2. c \in Calls
    BY DEF Calls, RoleCalls
  <2>3. \E L : Plan(c, p, L) /\ OnTheWay(c, L)
    BY PlanOfRole
  <2> HIDE DEF c, p
  <2>4. Begin(w, c, p)
    BY <2>1 DEF c, p
  <2> QED
    BY <2>2, <2>3, <2>4, BeginKeeps
<1>4. ASSUME NEW w \in Writers, Fails(w) PROVE LoneInv'
  <2>1. UNCHANGED metaVars /\ Running(w) /\ Return(w, "error")
    BY <1>4 DEF Fails
  <2>2. \A v \in Writers \ {w} : alone[v] =>
          \A c, L : c = call[v] /\ L = Left(todo[v]) => OnTheWay(c, L)'
    BY <2>1, OnlyWhatItSays DEF LoneInv
  <2> QED
    BY <2>1, <2>2, ReturnKeeps
<1>5. CASE UNCHANGED updateVars
  BY <1>5 DEF updateVars, metaVars, callVars, LoneInv, Running, InOrder, Asks, SameRows, Left,
              OnTheWay, Replacing, NoRows, Admin, WantedRoles, WantsMembership
<1>6. ASSUME NEW w \in Writers, Executes(w) PROVE LoneInv'
  BY <1>6, StatementKeeps
<1> QED
  BY <1>1, <1>2, <1>3, <1>4, <1>5, <1>6 DEF UpdateNext, Write, Executes

LEMMA LoneAnswer ==
    ASSUME UpdateTypeOK, LoneInv, UpdateNext, NEW w \in Writers,
           Running(w), reply'[w] = "success", alone[w], NEW c, c = call[w]
    PROVE  Accomplished(c)'
<1>1. PICK v \in Writers : Write(v)
  BY DEF UpdateNext
<1>2. reply[w] = "running"
  BY DEF Running
<1>3. Executes(v)
  <2>1. ~UpdateUser(v) /\ ~UpdateUserOverrides(v) /\ ~UpdateRolePermissions(v)
    <3>1. ASSUME NEW d, NEW p, Begin(v, d, p) PROVE FALSE
      BY <1>2, <3>1 DEF Begin, UpdateTypeOK
    <3> QED
      BY <3>1 DEF UpdateUser, UpdateUserOverrides, UpdateRolePermissions
  <2>2. ~Fails(v)
    BY <1>2 DEF Fails, Return, UpdateTypeOK
  <2> QED
    BY <1>1, <2>1, <2>2 DEF Write, Executes
<1>4. Goes(v)
  BY <1>3 DEF Executes, SetRole, DeleteUserRoles, InsertUserRoles, DeleteMembership,
              InsertMembership, DeleteOverrides, InsertOverrides, DeleteRolePermissions,
              InsertRolePermissions
<1>5. v = w /\ Len(todo[w]) = 1
  BY <1>2, <1>4 DEF Goes, Return, UpdateTypeOK
<1>6. Left(todo[w]) \ {Next1(w).op} = {}
  BY <1>5, LoneSays, PlanGoesOn DEF Next1
<1>7. OnTheWay(c, {})' /\ c \in Calls
  BY <1>3, <1>5, <1>6, LoneSays, StatementLeaves
<1> QED
  BY <1>7, NothingLeft
     DEF OnTheWay, Accomplished, Replacing, Admin, WantedRoles, WantsMembership

\* However handlers overlap, fail and are called again: one that answers success and
\* that no other for the same rows overlapped has left exactly what it was asked for.
THEOREM LoneCallsAreExact == UpdateSpec => LoneCallIsExact
<1>1. UpdateInit => UpdateTypeOK /\ LoneInv
  BY InitUpdateType, LoneInit
<1>2. UpdateTypeOK /\ LoneInv /\ [UpdateNext]_updateVars => (UpdateTypeOK /\ LoneInv)'
  BY NextUpdateType, LoneStep
<1>3. UpdateTypeOK /\ LoneInv /\ [UpdateNext]_updateVars =>
        [\A w \in Writers : \A c \in {call[w]} :
           Running(w) /\ reply'[w] = "success" /\ alone[w] => Accomplished(c)']_updateVars
  BY LoneAnswer
<1> QED
  BY <1>1, <1>2, <1>3, PTL DEF UpdateSpec, LoneCallIsExact

--------------------------------------------------------------------------------
LEMMA FactsAre ==
    /\ <<"admin">> \in Facts <=> profileRole = "platform_admin"
    /\ <<"member">> \in Facts <=> membership
    /\ \A r : <<"role", r>> \in Facts <=> r \in userRoles
    /\ \A r \in Roles, t \in Tables :
         <<"grant", r, t>> \in Facts <=> rolePermissions[r][t] = "yes"
    /\ \A t \in Tables : <<"allow", t>> \in Facts <=> overrides[t] = "allow"
    /\ \A t \in Tables : <<"deny", t>> \in Facts <=> overrides[t] = "deny"
<1>1. <<"admin">> \in Facts <=> profileRole = "platform_admin"
  BY DEF Facts
<1>2. <<"member">> \in Facts <=> membership
  BY DEF Facts
<1>3. \A r : <<"role", r>> \in Facts <=> r \in userRoles
  BY DEF Facts
<1>4. \A r \in Roles, t \in Tables :
        <<"grant", r, t>> \in Facts <=> rolePermissions[r][t] = "yes"
  BY DEF Facts
<1>5. \A t \in Tables : <<"allow", t>> \in Facts <=> overrides[t] = "allow"
  BY DEF Facts
<1>6. \A t \in Tables : <<"deny", t>> \in Facts <=> overrides[t] = "deny"
  BY DEF Facts
<1> QED
  BY <1>1, <1>2, <1>3, <1>4, <1>5, <1>6

SeenRole(d) == /\ seen[d].role = "platform_admin" => <<"admin">> \in ever[d]
               /\ seen[d].role = "member" => <<"admin">> \notin always[d]

Entered(d) == /\ at[d] = "tableNames" => seen[d].role = "platform_admin"
              /\ at[d] \in {"roleIds", "rolePermissions", "overrides"} =>
                   seen[d].role = "member" /\ <<"member">> \in ever[d]

SeenRoleIds(d) ==
    at[d] = "rolePermissions" =>
        \A r \in Roles : /\ r \in seen[d].roleIds => <<"role", r>> \in ever[d]
                         /\ r \notin seen[d].roleIds => <<"role", r>> \notin always[d]

SeenPermissions(d) ==
    at[d] = "overrides" =>
        \A t \in Tables : /\ t \in seen[d].permissions => GrantIn(ever[d], t)
                          /\ t \notin seen[d].permissions => ~GrantIn(always[d], t)

SeenInv == \A d \in Readers :
              at[d] \in Reading => /\ SeenRole(d)
                                   /\ Entered(d)
                                   /\ SeenRoleIds(d)
                                   /\ SeenPermissions(d)

ContextInv == ContextTypeOK /\ SeenInv

LEMMA InitContextInv == ContextInit => ContextInv
<1> SUFFICES ASSUME ContextInit PROVE ContextInv
  OBVIOUS
<1>1. UpdateTypeOK
  BY InitUpdateType DEF ContextInit
<1>2. \A d \in Readers : at[d] \notin Reading
  BY DEF ContextInit, Reading
<1> QED
  BY <1>1, <1>2
     DEF ContextInit, ContextInv, ContextTypeOK, SeenInv, NothingSeen, Answers, PlatformRoles

\* The history brackets the rows: always \subseteq Facts \subseteq ever.
Bracketed == \A d \in Readers :
                at[d] \in Reading => always[d] \subseteq Facts /\ Facts \subseteq ever[d]

LEMMA RememberBrackets == Remember => Bracketed'
BY DEF Remember, Bracketed

\* While a request runs its history only widens.
LEMMA HistoryWidens ==
    ASSUME Remember, NEW d \in Readers, at[d] \in Reading, at'[d] \in Reading
    PROVE  ever[d] \subseteq ever'[d] /\ always'[d] \subseteq always[d]
BY DEF Remember

\* What was seen stays bracketed by the history while a request waits.
LEMMA WaitingKeepsSeen ==
    ASSUME NEW d \in Readers, SeenInv, Remember,
           at'[d] = at[d], seen'[d] = seen[d], at'[d] \in Reading
    PROVE  SeenRole(d)' /\ Entered(d)' /\ SeenRoleIds(d)' /\ SeenPermissions(d)'
<1>1. ever[d] \subseteq ever'[d] /\ always'[d] \subseteq always[d]
  BY HistoryWidens
<1>2. SeenRole(d) /\ Entered(d) /\ SeenRoleIds(d) /\ SeenPermissions(d)
  BY DEF SeenInv
<1> QED
  BY <1>1, <1>2 DEF SeenRole, Entered, SeenRoleIds, SeenPermissions, GrantIn

LEMMA ReadType ==
    ASSUME ContextInv, NEW d \in Readers, Read(d)
    PROVE  /\ at' \in [Readers -> Reading \union Answers]
           /\ seen' \in [Readers -> [role : PlatformRoles, roleIds : SUBSET Roles,
                                     permissions : SUBSET Tables]]
           /\ \A e \in Readers \ {d} : at'[e] = at[e] /\ seen'[e] = seen[e]
           /\ UNCHANGED metaVars
<1> USE DEF ContextInv, ContextTypeOK, UpdateTypeOK, MetaTypeOK, Reading, Answers
<1>1. CASE WithAuth(d)
  BY <1>1 DEF WithAuth, NothingSeen
<1>2. CASE AssertConnectionAccess(d)
  BY <1>2 DEF AssertConnectionAccess, Step
<1>3. CASE FullAccess(d)
  BY <1>3 DEF FullAccess, Step, See
<1>4. CASE GetUserRoleIds(d)
  BY <1>4 DEF GetUserRoleIds, Step, See
<1>5. CASE GetRolePermissions(d)
  BY <1>5 DEF GetRolePermissions, Step, See
<1>6. CASE GetOverrides(d)
  BY <1>6 DEF GetOverrides, Step, See
<1> QED
  BY <1>1, <1>2, <1>3, <1>4, <1>5, <1>6 DEF Read

\* A query that does not end the request adds what it saw to what is known.
LEMMA ReadKeepsSeen ==
    ASSUME ContextInv, NEW d \in Readers, Read(d), Remember, at'[d] \in Reading
    PROVE  SeenRole(d)' /\ Entered(d)' /\ SeenRoleIds(d)' /\ SeenPermissions(d)'
<1>0. /\ UNCHANGED metaVars
      /\ at \in [Readers -> Reading \union Answers]
      /\ seen \in [Readers -> [role : PlatformRoles, roleIds : SUBSET Roles,
                               permissions : SUBSET Tables]]
      /\ userRoles \in SUBSET Roles
  BY ReadType DEF ContextInv, ContextTypeOK, UpdateTypeOK, MetaTypeOK
<1>1. always'[d] \subseteq Facts' /\ Facts' \subseteq ever'[d]
  BY RememberBrackets DEF Bracketed
<1>2. Facts' = Facts
  BY <1>0 DEF Facts, metaVars
<1>3. at[d] \in Reading =>
        /\ SeenRole(d) /\ Entered(d) /\ SeenRoleIds(d) /\ SeenPermissions(d)
        /\ ever[d] \subseteq ever'[d] /\ always'[d] \subseteq always[d]
  BY HistoryWidens DEF ContextInv, SeenInv
<1>4. CASE WithAuth(d)
  <2>1. at'[d] = "membership" /\ seen'[d].role = profileRole
    BY <1>0, <1>4 DEF WithAuth, NothingSeen
  <2>2. SeenRole(d)'
    BY <1>1, <1>2, <2>1, FactsAre DEF SeenRole
  <2> QED
    BY <2>1, <2>2 DEF Entered, SeenRoleIds, SeenPermissions
<1>5. CASE AssertConnectionAccess(d)
  <2>1. /\ at[d] = "membership" /\ seen'[d] = seen[d]
        /\ \/ at'[d] = "tableNames" /\ seen[d].role = "platform_admin"
           \/ at'[d] = "roleIds" /\ seen[d].role = "member" /\ membership
    BY <1>0, <1>5 DEF AssertConnectionAccess, Step, Reading
  <2>2. SeenRole(d)'
    BY <1>3, <2>1 DEF SeenRole, Reading
  <2>3. Entered(d)'
    BY <1>1, <1>2, <2>1, FactsAre DEF Entered
  <2> QED
    BY <2>1, <2>2, <2>3 DEF SeenRoleIds, SeenPermissions
<1>6. CASE GetUserRoleIds(d)
  <2>1. /\ at[d] = "roleIds" /\ at'[d] = "rolePermissions"
        /\ seen'[d].role = seen[d].role /\ seen'[d].roleIds = userRoles
    BY <1>0, <1>6 DEF GetUserRoleIds, Step, See
  <2>2. SeenRole(d)' /\ Entered(d)'
    BY <1>3, <2>1 DEF SeenRole, Entered, Reading
  <2>3. SeenRoleIds(d)'
    BY <1>1, <1>2, <2>1, FactsAre DEF SeenRoleIds
  <2> QED
    BY <2>1, <2>2, <2>3 DEF SeenPermissions
<1>7. CASE GetRolePermissions(d)
  <2>1. /\ at[d] = "rolePermissions" /\ at'[d] = "overrides"
        /\ seen'[d].role = seen[d].role
        /\ seen'[d].permissions =
             {t \in Tables : \E r \in seen[d].roleIds : rolePermissions[r][t] = "yes"}
    BY <1>0, <1>7 DEF GetRolePermissions, Step, See
  <2>2. SeenRole(d)' /\ Entered(d)'
    BY <1>3, <2>1 DEF SeenRole, Entered, Reading
  <2>3. ASSUME NEW t \in Tables
        PROVE  /\ t \in seen'[d].permissions => GrantIn(ever'[d], t)
               /\ t \notin seen'[d].permissions => ~GrantIn(always'[d], t)
    <3>1. \A r \in Roles : /\ r \in seen[d].roleIds => <<"role", r>> \in ever'[d]
                           /\ r \notin seen[d].roleIds => <<"role", r>> \notin always'[d]
      BY <1>3, <2>1 DEF SeenRoleIds, Reading
    <3>2. \A r \in Roles : <<"grant", r, t>> \in Facts' <=> rolePermissions[r][t] = "yes"
      BY <1>2, FactsAre
    <3>3. seen[d].roleIds \subseteq Roles
      BY <1>0
    <3> QED
      BY <1>1, <2>1, <3>1, <3>2, <3>3 DEF GrantIn
  <2> QED
    BY <2>1, <2>2, <2>3 DEF SeenPermissions, SeenRoleIds
<1>8. CASE FullAccess(d) \/ GetOverrides(d)
  BY <1>0, <1>8 DEF FullAccess, GetOverrides, Step, Reading
<1> QED
  BY <1>4, <1>5, <1>6, <1>7, <1>8 DEF Read

LEMMA NextContextInv == ContextInv /\ [ContextNext]_contextVars => ContextInv'
<1> SUFFICES ASSUME ContextInv, [ContextNext]_contextVars PROVE ContextInv'
  OBVIOUS
<1>1. ASSUME NEW d \in Readers, Read(d), UNCHANGED callVars, Remember
      PROVE  ContextInv'
  <2>1. UpdateTypeOK'
    <3>1. UNCHANGED updateVars
      BY <1>1, ReadType DEF updateVars
    <3> QED
      BY <3>1, NextUpdateType DEF ContextInv, ContextTypeOK
  <2>2. ContextTypeOK'
    BY <1>1, <2>1, ReadType, RememberBrackets DEF ContextTypeOK, Bracketed
  <2>3. ASSUME NEW e \in Readers, at'[e] \in Reading
        PROVE  SeenRole(e)' /\ Entered(e)' /\ SeenRoleIds(e)' /\ SeenPermissions(e)'
    <3>1. CASE e = d
      BY <1>1, <2>3, <3>1, ReadKeepsSeen
    <3>2. CASE e # d
      BY <1>1, <2>3, <3>2, ReadType, WaitingKeepsSeen DEF ContextInv
    <3> QED
      BY <3>1, <3>2
  <2> QED
    BY <2>2, <2>3 DEF ContextInv, SeenInv
<1>2. ASSUME UpdateNext, UNCHANGED <<at, seen>>, Remember
      PROVE  ContextInv'
  <2>1. UpdateTypeOK'
    BY <1>2, NextUpdateType DEF ContextInv, ContextTypeOK
  <2>2. ContextTypeOK'
    BY <1>2, <2>1, RememberBrackets DEF ContextInv, ContextTypeOK, Bracketed
  <2>3. ASSUME NEW e \in Readers, at'[e] \in Reading
        PROVE  SeenRole(e)' /\ Entered(e)' /\ SeenRoleIds(e)' /\ SeenPermissions(e)'
    BY <1>2, <2>3, WaitingKeepsSeen DEF ContextInv
  <2> QED
    BY <2>2, <2>3 DEF ContextInv, SeenInv
<1>3. CASE UNCHANGED contextVars
  <2>1. UpdateTypeOK'
    BY <1>3, NextUpdateType DEF contextVars, ContextInv, ContextTypeOK
  <2> QED
    BY <1>3, <2>1
       DEF contextVars, updateVars, metaVars, readVars, ContextInv, ContextTypeOK, Facts,
           SeenInv, SeenRole, Entered, SeenRoleIds, SeenPermissions, GrantIn
<1> QED
  BY <1>1, <1>2, <1>3 DEF ContextNext

THEOREM ContextInvariant == ContextSpec => []ContextInv
BY InitContextInv, NextContextInv, PTL DEF ContextSpec

\* Requests and handlers together leave everything within its type, and the
\* rows of the moment are bracketed by the history of every running request.
THEOREM ContextTypeCorrect == ContextSpec => []ContextTypeOK
<1>1. ContextInv => ContextTypeOK
  BY DEF ContextInv
<1> QED
  BY <1>1, ContextInvariant, PTL

-----------------------------------------------------------------------------

\* What a request that is being answered or refused knows, and from which rows.
LEMMA AnswerKnows ==
    ASSUME ContextInv, NEW d \in Readers, at[d] \in Reading, at'[d] \notin Reading,
           [ContextNext]_contextVars
    PROVE  \/ FullAccess(d) \/ GetOverrides(d) \/ AssertConnectionAccess(d)
<1>1. \A e \in Readers : Read(e) => \A x \in Readers \ {e} : at'[x] = at[x]
  BY ReadType
<1>2. Read(d)
  BY <1>1 DEF ContextNext, contextVars, readVars
<1> QED
  BY <1>2 DEF Read, WithAuth, GetUserRoleIds, GetRolePermissions, Step,
              ContextInv, ContextTypeOK, Reading, Answers

LEMMA AnswerCauses ==
    ASSUME ContextInv, NEW d \in Readers, Answering(d), [ContextNext]_contextVars
    PROVE  /\ \A t \in seen'[d].permissions : GrantHasCause(d, t)
           /\ \A t \in Tables \ seen'[d].permissions : RefusalHasCause(d, t)
<1>0. /\ at[d] \in Reading /\ at'[d] = "answered" /\ at'[d] \notin Reading
      /\ always[d] \subseteq Facts /\ Facts \subseteq ever[d]
      /\ SeenRole(d) /\ Entered(d) /\ SeenPermissions(d)
      /\ seen \in [Readers -> [role : PlatformRoles, roleIds : SUBSET Roles,
                               permissions : SUBSET Tables]]
      /\ at \in [Readers -> Reading \union Answers]
  BY DEF Answering, ContextInv, ContextTypeOK, SeenInv, Reading
<1>1. CASE FullAccess(d)
  <2>1. seen'[d].permissions = Tables /\ <<"admin">> \in ever[d]
    BY <1>0, <1>1 DEF FullAccess, Step, See, Entered, SeenRole
  <2> QED
    BY <2>1 DEF GrantHasCause
<1>2. CASE GetOverrides(d)
  <2>1. /\ at[d] = "overrides"
        /\ seen'[d].permissions =
             {t \in Tables : \/ overrides[t] = "allow"
                             \/ overrides[t] # "deny" /\ t \in seen[d].permissions}
    BY <1>0, <1>2 DEF GetOverrides, Step, See
  <2>2. <<"member">> \in ever[d] /\ <<"admin">> \notin always[d]
    BY <1>0, <2>1 DEF Entered, SeenRole
  <2>3. ASSUME NEW t \in Tables
        PROVE  /\ <<"allow", t>> \in Facts <=> overrides[t] = "allow"
               /\ <<"deny", t>> \in Facts <=> overrides[t] = "deny"
    BY FactsAre
  <2>4. ASSUME NEW t \in seen'[d].permissions PROVE GrantHasCause(d, t)
    BY <1>0, <2>1, <2>2, <2>3, <2>4 DEF GrantHasCause, SeenPermissions
  <2>5. ASSUME NEW t \in Tables \ seen'[d].permissions PROVE RefusalHasCause(d, t)
    BY <1>0, <2>1, <2>2, <2>3, <2>5 DEF RefusalHasCause, SeenPermissions
  <2> QED
    BY <2>4, <2>5
<1>3. ~AssertConnectionAccess(d)
  BY <1>0 DEF AssertConnectionAccess, Step
<1> QED
  BY <1>0, <1>1, <1>2, <1>3, AnswerKnows

LEMMA RefusalCauses ==
    ASSUME ContextInv, NEW d \in Readers, Refusing(d), [ContextNext]_contextVars
    PROVE  /\ <<"admin">> \notin always[d] /\ <<"member">> \notin always[d]
           /\ <<"member">> \notin Facts
<1>0. /\ at[d] \in Reading /\ at'[d] = "forbidden" /\ at'[d] \notin Reading
      /\ always[d] \subseteq Facts /\ SeenRole(d)
      /\ at \in [Readers -> Reading \union Answers]
  BY DEF Refusing, ContextInv, ContextTypeOK, SeenInv, Reading
<1>1. AssertConnectionAccess(d)
  BY <1>0, AnswerKnows DEF FullAccess, GetOverrides, Step
<1>2. seen[d].role = "member" /\ ~membership
  BY <1>0, <1>1 DEF AssertConnectionAccess, Step
<1> QED
  BY <1>0, <1>2, FactsAre DEF SeenRole

\* No grant without a cause that held during the request.
THEOREM GrantsAlwaysHaveCause == ContextSpec => GrantsHaveCause
<1>1. ContextInv /\ [ContextNext]_contextVars =>
        [\A d \in Readers :
           Answering(d) => \A t \in seen'[d].permissions : GrantHasCause(d, t)]_contextVars
  BY AnswerCauses
<1> QED
  BY <1>1, ContextInvariant, PTL DEF ContextSpec, GrantsHaveCause

\* No refusal of what was granted, or of a membership that was there, throughout.
THEOREM RefusalsAlwaysHaveCause == ContextSpec => RefusalsHaveCause
<1>1. ContextInv /\ [ContextNext]_contextVars =>
        [\A d \in Readers :
           /\ Refusing(d) => <<"admin">> \notin always[d] /\ <<"member">> \notin always[d]
           /\ Answering(d) =>
                \A t \in Tables \ seen'[d].permissions : RefusalHasCause(d, t)]_contextVars
  BY AnswerCauses, RefusalCauses
<1> QED
  BY <1>1, ContextInvariant, PTL DEF ContextSpec, RefusalsHaveCause

\* Without a change during the request, both bounds coincide with the rows.
LEMMA QuietAnswer ==
    ASSUME ContextInv, NEW d \in Readers, [ContextNext]_contextVars
    PROVE  AnswerIsExact(d)
<1> SUFFICES ASSUME ever[d] = always[d]
             PROVE  /\ Answering(d) => /\ MayEnter
                                       /\ seen'[d].permissions = {t \in Tables : MayAct(t)}
                    /\ Refusing(d) => ~MayEnter
  BY DEF AnswerIsExact
<1>1. at[d] \in Reading => ever[d] = Facts /\ always[d] = Facts
  BY DEF ContextInv, ContextTypeOK
<1>2. userRoles \in SUBSET Roles
  BY DEF ContextInv, ContextTypeOK, UpdateTypeOK, MetaTypeOK
<1>3. ASSUME NEW t \in Tables
      PROVE  GrantIn(Facts, t) <=> \E r \in userRoles : rolePermissions[r][t] = "yes"
  BY <1>2, FactsAre DEF GrantIn
<1>4. ASSUME Answering(d)
      PROVE  MayEnter /\ seen'[d].permissions = {t \in Tables : MayAct(t)}
  <2>1. at[d] \in Reading /\ ever[d] = Facts /\ always[d] = Facts
    BY <1>1, <1>4 DEF Answering
  <2>2. seen'[d].permissions \subseteq Tables
    BY <1>4, ReadType DEF Answering, ContextNext, contextVars, readVars, ContextInv,
                          ContextTypeOK
  <2>3. ASSUME NEW t \in Tables
        PROVE  t \in seen'[d].permissions <=> MayAct(t)
    <3>1. /\ <<"admin">> \in Facts <=> profileRole = "platform_admin"
          /\ <<"allow", t>> \in Facts <=> overrides[t] = "allow"
          /\ <<"deny", t>> \in Facts <=> overrides[t] = "deny"
      BY FactsAre
    <3>2. /\ t \in seen'[d].permissions => GrantHasCause(d, t)
          /\ t \notin seen'[d].permissions => RefusalHasCause(d, t)
      BY <1>4, AnswerCauses
    <3>3. t \in seen'[d].permissions => MayAct(t)
      BY <1>3, <2>1, <3>1, <3>2 DEF GrantHasCause, MayAct
    <3>4. t \notin seen'[d].permissions => ~MayAct(t)
      BY <1>3, <2>1, <3>1, <3>2 DEF RefusalHasCause, MayAct
    <3> QED
      BY <3>3, <3>4
  <2>4. MayEnter
    <3>1. at'[d] \notin Reading /\ SeenRole(d) /\ Entered(d)
      BY <1>4, <2>1 DEF Answering, ContextInv, SeenInv, Reading
    <3>2. <<"admin">> \in ever[d] \/ <<"member">> \in ever[d]
      BY <1>4, <2>1, <3>1, AnswerKnows
         DEF Answering, FullAccess, GetOverrides, AssertConnectionAccess, Step, Entered,
             SeenRole, ContextInv, ContextTypeOK
    <3> QED
      BY <2>1, <3>2, FactsAre DEF MayEnter
  <2> QED
    BY <2>2, <2>3, <2>4
<1>5. ASSUME Refusing(d) PROVE ~MayEnter
  BY <1>1, <1>5, RefusalCauses, FactsAre DEF Refusing, MayEnter
<1> QED
  BY <1>4, <1>5

\* A request that no change overlapped is answered by the rows of the moment.
THEOREM QuietReadsAreExact == ContextSpec => QuietReadIsExact
<1>1. ContextInv /\ [ContextNext]_contextVars =>
        [\A d \in Readers : AnswerIsExact(d)]_contextVars
  BY QuietAnswer
<1> QED
  BY <1>1, ContextInvariant, PTL DEF ContextSpec, QuietReadIsExact

=============================================================================
