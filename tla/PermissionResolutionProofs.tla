---------------------- MODULE PermissionResolutionProofs ----------------------
(***************************************************************************)
(* The loops of the permission resolution compute Permitted for any sets   *)
(* of tables, actions, roles and rows, and whatever the order of the rows. *)
(*                                                                         *)
(* The invariant says what the map holds halfway through a loop: what the  *)
(* rows met so far (those of the table minus rest) say.                    *)
(***************************************************************************)
EXTENDS PermissionResolution, TLAPS

\* What the rows of a set say, as Granted, Allowed and Denied do of them all.
GrantedBy(rows, t, a) == \E row \in rows : row.table_name = t /\ a \in row.can
AllowedBy(rows, t, a) == \E ov \in rows : ov.table_name = t /\ a \in ov.allow
DeniedBy(rows, t, a) == \E ov \in rows : ov.table_name = t /\ a \in ov.deny

Mentioned(rows) == {row.table_name : row \in rows}

AggregateLoop ==
    stage = "aggregate" =>
        /\ rest \subseteq rolePerms
        /\ DOMAIN permMap = Mentioned(rolePerms \ rest)
        /\ \A t \in Tables, a \in Actions :
             CanAccess(t, a) <=> GrantedBy(rolePerms \ rest, t, a)

OverrideLoop ==
    stage = "override" =>
        /\ rest \subseteq overrides
        /\ DOMAIN permMap = Mentioned(rolePerms \union (overrides \ rest))
        /\ \A t \in Tables, a \in Actions :
             CanAccess(t, a) <=>
                \/ AllowedBy(overrides \ rest, t, a)
                \/ Granted(t, a) /\ ~DeniedBy(overrides \ rest, t, a)

MemberLoops == stage \in {"aggregate", "override"} => platformRole = "member"

EmptyAtStart == stage = "start" => permMap = EmptyMap

LoopInv == /\ TypeOK
           /\ EmptyAtStart
           /\ MemberLoops
           /\ AggregateLoop
           /\ OverrideLoop
           /\ ResolvesAsPermitted
           /\ NamesTheTables

LEMMA InitLoopInv == Init => LoopInv
BY DEF Init, LoopInv, TypeOK, EmptyAtStart, MemberLoops, AggregateLoop,
       OverrideLoop, ResolvesAsPermitted, NamesTheTables, EmptyMap

\* A turn of a loop sets one entry of the map and keeps the others.
LEMMA SetEntryEffect ==
    ASSUME NEW t \in Tables, NEW perm \in SUBSET Actions,
           TypeOK, SetEntry(t, perm)
    PROVE  /\ DOMAIN permMap' = DOMAIN permMap \union {t}
           /\ \A x \in Tables, a \in Actions :
                CanAccess(x, a)' <=> IF x = t THEN a \in perm ELSE CanAccess(x, a)
           /\ \A x \in DOMAIN permMap' : permMap'[x] \subseteq Actions
BY DEF SetEntry, CanAccess, TypeOK

\* The entry of a table that is not there reads as all false.
LEMMA ExistingIsAccess ==
    ASSUME NEW t \in Tables, TypeOK
    PROVE  /\ Existing(t) \subseteq Actions
           /\ \A a \in Actions : a \in Existing(t) <=> CanAccess(t, a)
BY DEF Existing, CanAccess, TypeOK

LEMMA FullAccessStep == LoopInv /\ FullAccess => LoopInv'
BY DEF LoopInv, FullAccess, TypeOK, Inputs, inputs, EmptyAtStart, MemberLoops,
       AggregateLoop, OverrideLoop, ResolvesAsPermitted, NamesTheTables,
       CanAccess, Permitted

LEMMA StartAggregateStep == LoopInv /\ StartAggregate => LoopInv'
BY DEF LoopInv, StartAggregate, TypeOK, Inputs, inputs, EmptyAtStart, MemberLoops,
       AggregateLoop, OverrideLoop, ResolvesAsPermitted, NamesTheTables,
       CanAccess, GrantedBy, Mentioned, EmptyMap

LEMMA AggregateRowStep ==
    ASSUME NEW row \in rolePerms, LoopInv, AggregateRow(row)
    PROVE  LoopInv'
<1> DEFINE t0 == row.table_name
<1>1. row \in PermissionRow /\ t0 \in Tables /\ row.can \in SUBSET Actions
  BY DEF LoopInv, TypeOK, Inputs, PermissionRow
<1>2. TypeOK /\ stage = "aggregate" /\ row \in rest /\ rest \subseteq rolePerms
  BY DEF LoopInv, AggregateRow, AggregateLoop
<1>3. Existing(t0) \union row.can \in SUBSET Actions
  BY <1>1, <1>2, ExistingIsAccess
<1>4. /\ DOMAIN permMap' = DOMAIN permMap \union {t0}
      /\ \A x \in Tables, a \in Actions :
           CanAccess(x, a)' <=> IF x = t0 THEN a \in Existing(t0) \union row.can
                                ELSE CanAccess(x, a)
      /\ \A x \in DOMAIN permMap' : permMap'[x] \subseteq Actions
  BY <1>1, <1>2, <1>3, SetEntryEffect DEF AggregateRow
<1>5. rest' = rest \ {row} /\ UNCHANGED <<inputs, stage>>
  BY DEF AggregateRow
<1>6. rolePerms' \ rest' = (rolePerms \ rest) \union {row}
  BY <1>2, <1>5 DEF inputs
<1>7. TypeOK'
  BY <1>1, <1>2, <1>4, <1>5 DEF TypeOK, Inputs, inputs
<1>8. AggregateLoop'
  <2>1. DOMAIN permMap' = Mentioned(rolePerms' \ rest')
    BY <1>2, <1>4, <1>6 DEF LoopInv, AggregateLoop, Mentioned
  <2>2. ASSUME NEW x \in Tables, NEW a \in Actions
        PROVE  CanAccess(x, a)' <=> GrantedBy(rolePerms' \ rest', x, a)
    <3>1. GrantedBy(rolePerms' \ rest', x, a) <=>
             GrantedBy(rolePerms \ rest, x, a) \/ (x = t0 /\ a \in row.can)
      BY <1>6 DEF GrantedBy
    <3>2. CanAccess(x, a) <=> GrantedBy(rolePerms \ rest, x, a)
      BY <1>2 DEF LoopInv, AggregateLoop
    <3> QED
      BY <1>1, <1>2, <1>4, <3>1, <3>2, ExistingIsAccess
  <2> QED
    BY <1>2, <1>5, <2>1, <2>2 DEF AggregateLoop, GrantedBy, inputs
<1> QED
  BY <1>2, <1>5, <1>7, <1>8
     DEF LoopInv, EmptyAtStart, MemberLoops, OverrideLoop, ResolvesAsPermitted,
         NamesTheTables, inputs

LEMMA StartOverrideStep == LoopInv /\ StartOverride => LoopInv'
BY DEF LoopInv, StartOverride, TypeOK, Inputs, inputs, EmptyAtStart, MemberLoops,
       AggregateLoop, OverrideLoop, ResolvesAsPermitted, NamesTheTables,
       CanAccess, GrantedBy, AllowedBy, DeniedBy, Granted, Mentioned

LEMMA OverrideWithStep ==
    ASSUME NEW ov \in overrides, LoopInv, OverrideWith(ov)
    PROVE  LoopInv'
<1> DEFINE t0 == ov.table_name
           merged == MergePermissions(Existing(t0), ov)
<1>1. /\ t0 \in Tables /\ ov.allow \in SUBSET Actions
      /\ ov.allow \intersect ov.deny = {}
  BY DEF LoopInv, TypeOK, Inputs, OverrideRow
<1>2. TypeOK /\ stage = "override" /\ ov \in rest /\ rest \subseteq overrides
  BY DEF LoopInv, OverrideWith, OverrideLoop
<1>3. merged \in SUBSET Actions
  BY <1>1, <1>2, ExistingIsAccess DEF MergePermissions
<1>4. /\ DOMAIN permMap' = DOMAIN permMap \union {t0}
      /\ \A x \in Tables, a \in Actions :
           CanAccess(x, a)' <=> IF x = t0 THEN a \in merged ELSE CanAccess(x, a)
      /\ \A x \in DOMAIN permMap' : permMap'[x] \subseteq Actions
  BY <1>1, <1>2, <1>3, SetEntryEffect DEF OverrideWith
<1>5. rest' = rest \ {ov} /\ UNCHANGED <<inputs, stage>>
  BY DEF OverrideWith
<1>6. overrides' \ rest' = (overrides \ rest) \union {ov}
  BY <1>2, <1>5 DEF inputs
<1>7. TypeOK'
  BY <1>1, <1>2, <1>4, <1>5 DEF TypeOK, Inputs, inputs
\* No row met before is about this table.
<1>8. \A p \in overrides \ rest : p.table_name # t0
  BY <1>2 DEF TypeOK, Inputs, OnePerTable
<1>9. OverrideLoop'
  <2>1. DOMAIN permMap' = Mentioned(rolePerms' \union (overrides' \ rest'))
    BY <1>2, <1>4, <1>5, <1>6 DEF LoopInv, OverrideLoop, Mentioned, inputs
  <2>2. ASSUME NEW x \in Tables, NEW a \in Actions
        PROVE  CanAccess(x, a)' <=>
                 \/ AllowedBy(overrides' \ rest', x, a)
                 \/ Granted(x, a)' /\ ~DeniedBy(overrides' \ rest', x, a)
    <3>1. /\ AllowedBy(overrides' \ rest', x, a) <=>
               AllowedBy(overrides \ rest, x, a) \/ (x = t0 /\ a \in ov.allow)
          /\ DeniedBy(overrides' \ rest', x, a) <=>
               DeniedBy(overrides \ rest, x, a) \/ (x = t0 /\ a \in ov.deny)
      BY <1>6 DEF AllowedBy, DeniedBy
    <3>2. CanAccess(x, a) <=>
             \/ AllowedBy(overrides \ rest, x, a)
             \/ Granted(x, a) /\ ~DeniedBy(overrides \ rest, x, a)
      BY <1>2 DEF LoopInv, OverrideLoop
    <3>3. Granted(x, a)' <=> Granted(x, a)
      BY <1>5 DEF Granted, inputs
    <3>4. CASE x = t0
      <4>1. ~AllowedBy(overrides \ rest, x, a) /\ ~DeniedBy(overrides \ rest, x, a)
        BY <1>8, <3>4 DEF AllowedBy, DeniedBy
      <4>2. a \in merged <=> (CanAccess(x, a) /\ a \notin ov.deny) \/ a \in ov.allow
        BY <1>1, <1>2, <3>4, ExistingIsAccess DEF MergePermissions
      <4> QED
        BY <1>1, <1>4, <3>1, <3>2, <3>3, <3>4, <4>1, <4>2
    <3>5. CASE x # t0
      BY <1>4, <3>1, <3>2, <3>3, <3>5
    <3> QED
      BY <3>4, <3>5
  <2> QED
    BY <1>2, <1>5, <2>1, <2>2 DEF OverrideLoop, AllowedBy, DeniedBy, inputs
<1> QED
  BY <1>2, <1>5, <1>7, <1>9
     DEF LoopInv, EmptyAtStart, MemberLoops, AggregateLoop, ResolvesAsPermitted,
         NamesTheTables, inputs

LEMMA ReturnStep == LoopInv /\ Return => LoopInv'
BY DEF LoopInv, Return, TypeOK, Inputs, inputs, EmptyAtStart, MemberLoops,
       AggregateLoop, OverrideLoop, ResolvesAsPermitted, NamesTheTables,
       CanAccess, Permitted, Granted, AllowedBy, DeniedBy, Allowed, Denied, Mentioned

\* Every turn of every loop preserves the invariant.
LEMMA NextLoopInv == LoopInv /\ [Next]_vars => LoopInv'
<1> SUFFICES ASSUME LoopInv, [Next]_vars PROVE LoopInv'
  OBVIOUS
<1>1. CASE FullAccess
  BY <1>1, FullAccessStep
<1>2. CASE StartAggregate
  BY <1>2, StartAggregateStep
<1>3. ASSUME NEW row \in rolePerms, AggregateRow(row) PROVE LoopInv'
  BY <1>3, AggregateRowStep
<1>4. CASE StartOverride
  BY <1>4, StartOverrideStep
<1>5. ASSUME NEW ov \in overrides, OverrideWith(ov) PROVE LoopInv'
  BY <1>5, OverrideWithStep
<1>6. CASE Return
  BY <1>6, ReturnStep
<1>7. CASE UNCHANGED vars
  BY <1>7 DEF vars, LoopInv, TypeOK, Inputs, EmptyAtStart, MemberLoops, GrantedBy,
              AggregateLoop, OverrideLoop, ResolvesAsPermitted, NamesTheTables,
              CanAccess, Permitted, Granted, Allowed, Denied, AllowedBy, DeniedBy, Mentioned,
              OnePerRoleAndTable, OnePerTable
<1> QED
  BY <1>1, <1>2, <1>3, <1>4, <1>5, <1>6, <1>7 DEF Next

THEOREM ResolutionInvariant == Spec => []LoopInv
BY InitLoopInv, NextLoopInv, PTL DEF Spec

\* The map is a partial map from tables to sets of actions throughout.
THEOREM ResolutionTypeCorrect == Spec => []TypeOK
<1>1. LoopInv => TypeOK
  BY DEF LoopInv
<1> QED
  BY <1>1, ResolutionInvariant, PTL

\* The order in which the database returns rows never changes a permission:
\* the loops agree with Permitted on every table and action.
THEOREM ResolutionCorrect == Spec => []ResolvesAsPermitted
<1>1. LoopInv => ResolvesAsPermitted
  BY DEF LoopInv
<1> QED
  BY <1>1, ResolutionInvariant, PTL

\* The result mentions the tables that some row is about, and no others.
THEOREM ResolutionNamesTables == Spec => []NamesTheTables
<1>1. LoopInv => NamesTheTables
  BY DEF LoopInv
<1> QED
  BY <1>1, ResolutionInvariant, PTL

=============================================================================
