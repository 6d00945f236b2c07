---------------------------- MODULE TargetProofs ----------------------------
(*****************************************************************************)
(* Proofs about what the server keeps of a Target and does there: row level  *)
(* security, the cached schema and its foreign keys.                         *)
(*****************************************************************************)
EXTENDS Server, TLAPS

(* RLS: s1 is functions, s2 existing, s3 status, s4 rows, s5 policies, s6       *)
(* secured, s7 lost and s8 req.  A row in Meta has a request that brought it,   *)
(* and whose SQL, if it read the rows after that, has it; the Target loses no   *)
(* policy but with its table.                                                   *)

LEMMA RlsInitial == Rls!RlsInit => Rls!IInv
<1> SUFFICES ASSUME Rls!RlsInit PROVE Rls!IInv
  OBVIOUS
<1>1. \A q \in Requests : /\ s8[q] \in Rls!Records
                          /\ s8[q].at = "new" /\ s8[q].input = {} /\ s8[q].sql = {}
  <2> TAKE q \in Requests
  <2>1. PICK r \in RlsRoles :
          s8[q] = [at |-> "new", role |-> r, input |-> {}, save |-> FALSE,
                    sql |-> {}, mode |-> "none", read |-> FALSE]
    BY DEF Rls!RlsInit
  <2> QED
    BY <2>1 DEF Rls!Records, Rls!NotSaved
<1>2. s8 \in [Requests -> Rls!Records]
  BY <1>1 DEF Rls!RlsInit
<1> QED
  BY <1>1, <1>2
     DEF Rls!RlsInit, Rls!Init, Rls!IInv, Rls!TypeOK, Rls!Fresh, Rls!RowsWereSaved,
         Rls!SqlIsApplied,
     Rls!PoliciesComeFromSaves, Rls!Records

\* A right is granted if, and only if, a row of the SQL has it.
LEMMA Granting ==
    ASSUME NEW S \in SUBSET Rls!RowSet
    PROVE  /\ Rls!Grants(S) \subseteq RlsTables \X Actions
           /\ \A p \in Rls!Grants(S) : \E r \in S : p[1] = r.table /\ p[2] \in r.actions
           /\ \A r \in S : \A a \in r.actions : <<r.table, a>> \in Rls!Grants(S)
<1>1. \A r \in S : r.table \in RlsTables /\ r.actions \subseteq Actions
  BY DEF Rls!RowSet
<1> QED
  BY <1>1 DEF Rls!Grants

\* Request q moves on to r; what is stored may change, but no right is lost but
\* with its table, and none is there without a save.
LEMMA RequestMoves ==
    ASSUME Rls!IInv, NEW q \in Requests, NEW r \in Rls!Records,
           s8' = [s8 EXCEPT ![q] = r],
           UNCHANGED Rls!readinessVars, s7' = s7,
           s4' \subseteq Rls!RowSet, s5' \subseteq RlsTables \X Actions, s6' \subseteq s2,
           s5 \subseteq s5', s6 \subseteq s6',
           r.at # "new",
           s8[q].at = "new" \/ r.input = s8[q].input,
           s8[q].at \in Rls!NotSaved \/ r.at \notin Rls!NotSaved,
           \A x \in s4' : Rls!Brought(x, q)' \/ (x \in s4 /\ (Rls!Brought(x, q) => Rls!Brought(x, q)')),
           \A x \in r.sql :
             /\ x \in s8[q].sql \/ x \in s4
             /\ r.at = "synced" =>
                  \A a \in x.actions : <<x.table, a>> \in s5' \/ x.table \in s7,
           \A p \in s5' \ s5 :
             p[1] \in s6' /\ \E x \in s8[q].sql : p[1] = x.table /\ p[2] \in x.actions
    PROVE  Rls!IInv'
<1>1. /\ s8' \in [Requests -> Rls!Records] /\ s8'[q] = r
      /\ \A s \in Requests : s # q => s8'[s] = s8[s]
  BY DEF Rls!IInv, Rls!TypeOK, Rls!Records
<1>2. Rls!TypeOK' /\ Rls!Fresh'
  BY <1>1 DEF Rls!IInv, Rls!TypeOK, Rls!Fresh, Rls!Records, Rls!readinessVars
<1>3. \* What was saved stays so.
      \A s \in Requests : s8[s].input \subseteq s8'[s].input
  BY <1>1 DEF Rls!IInv, Rls!Fresh
<1>4. Rls!RowsWereSaved'
  <2> SUFFICES ASSUME NEW x \in s4' PROVE \E s \in Requests : Rls!Brought(x, s)'
    BY DEF Rls!RowsWereSaved
  <2>1. CASE Rls!Brought(x, q)'
    BY <2>1
  <2>2. CASE x \in s4 /\ (Rls!Brought(x, q) => Rls!Brought(x, q)')
    <3>1. PICK s \in Requests : Rls!Brought(x, s)
      BY <2>2 DEF Rls!IInv, Rls!RowsWereSaved
    <3>2. CASE s = q
      BY <2>2, <3>1, <3>2
    <3>3. CASE s # q
      BY <1>1, <3>1, <3>3 DEF Rls!Brought
    <3> QED
      BY <3>2, <3>3
  <2> QED
    BY <2>1, <2>2
<1>5. ASSUME NEW x, x \in s4 \/ \E s \in Requests : x \in s8[s].sql
      PROVE  \E s \in Requests : x \in s8'[s].input
  <2>1. \E s \in Requests : x \in s8[s].input
    BY <1>5 DEF Rls!IInv, Rls!RowsWereSaved, Rls!Brought, Rls!SqlIsApplied
  <2> QED
    BY <2>1, <1>3
<1>6. Rls!SqlIsApplied'
  <2> SUFFICES ASSUME NEW s \in Requests, NEW x \in s8'[s].sql
               PROVE  /\ \E z \in Requests : x \in s8'[z].input
                      /\ s8'[s].at = "synced" =>
                           \A a \in x.actions : <<x.table, a>> \in s5' \/ x.table \in s7'
    BY DEF Rls!SqlIsApplied
  <2>1. CASE s = q
    BY <1>1, <1>5, <2>1
  <2>2. CASE s # q
    BY <1>1, <1>5, <2>2 DEF Rls!IInv, Rls!SqlIsApplied
  <2> QED
    BY <2>1, <2>2
<1>7. Rls!PoliciesComeFromSaves'
  <2> SUFFICES ASSUME NEW p \in s5'
               PROVE  /\ p[1] \in s6'
                      /\ \E s \in Requests : \E x \in s8'[s].input : p[1] = x.table /\ p[2] \in x.actions
    BY DEF Rls!PoliciesComeFromSaves
  <2>1. CASE p \in s5
    BY <1>3, <2>1 DEF Rls!IInv, Rls!PoliciesComeFromSaves
  <2>2. CASE p \notin s5
    BY <1>5, <2>2
  <2> QED
    BY <2>1, <2>2
<1> QED
  BY <1>2, <1>4, <1>6, <1>7 DEF Rls!IInv

\* A request only goes on.
LEMMA RequestGoes ==
    ASSUME Rls!IInv, NEW q \in Requests, NEW at, Rls!Goes(q, at), at # "new",
           at \in Rls!NotSaved \union Rls!Syncing \union {"failed", "synced", "unsynced"},
           s8[q].at \in Rls!NotSaved \/ at \notin Rls!NotSaved,
           at \in Rls!Generated /\ s8[q].at \notin Rls!Generated => s8[q].sql = s4,
           at \in Rls!Generated => s8[q].at \in Rls!Generated,
           at = "synced" => s8[q].at = "synced",
           UNCHANGED <<Rls!readinessVars, s4, s5, s6, s7>>
    PROVE  Rls!IInv'
<1> DEFINE f == s8[q]
           r == [s8[q] EXCEPT !.at = at]
<1>1. f \in Rls!Records
  BY DEF Rls!IInv, Rls!TypeOK, Rls!Records
<1>2. /\ r \in Rls!Records /\ r.at = at /\ r.input = f.input /\ r.sql = f.sql /\ r.read = f.read
  BY <1>1 DEF Rls!Records
<1>3. s8' = [s8 EXCEPT ![q] = r] /\ s8'[q] = r
  BY DEF Rls!Goes, Rls!IInv, Rls!TypeOK
<1> HIDE DEF r
<1>4. \A x \in s4 : Rls!Brought(x, q) => Rls!Brought(x, q)'
  BY <1>2, <1>3 DEF Rls!Brought
<1>5. \A x \in r.sql : r.at = "synced" =>
         \A a \in x.actions : <<x.table, a>> \in s5' \/ x.table \in s7
  BY <1>2 DEF Rls!IInv, Rls!SqlIsApplied
<1>6. s4 \subseteq Rls!RowSet /\ s5 \subseteq RlsTables \X Actions /\ s6 \subseteq s2
  BY DEF Rls!IInv, Rls!TypeOK
<1> QED
  BY <1>2, <1>3, <1>4, <1>5, <1>6, RequestMoves

LEMMA SendRequestKeeps ==
    ASSUME Rls!IInv, NEW q \in Requests, Rls!Send(q)
    PROVE  Rls!IInv'
<1> DEFINE f == s8[q]
<1>1. f \in Rls!Records /\ f.at = "new"
  BY DEF Rls!Send, Rls!IInv, Rls!TypeOK, Rls!Records
<1>2. s4 \subseteq Rls!RowSet /\ s5 \subseteq RlsTables \X Actions /\ s6 \subseteq s2
  BY DEF Rls!IInv, Rls!TypeOK
<1>3. ASSUME NEW input \in Rls!Inputs(f.role),
             s8' = [s8 EXCEPT ![q].at = "delete", ![q].input = input, ![q].save = TRUE]
      PROVE  Rls!IInv'
  <2> DEFINE r == [s8[q] EXCEPT !.at = "delete", !.input = input, !.save = TRUE]
  <2>1. input \subseteq Rls!RowSet
    BY DEF Rls!Inputs
  <2>2. r \in Rls!Records /\ r.at = "delete" /\ r.input = input /\ r.sql = f.sql
    BY <1>1, <2>1 DEF Rls!Records, Rls!NotSaved
  <2>3. s8' = [s8 EXCEPT ![q] = r] /\ s8'[q] = r
    BY <1>3 DEF Rls!IInv, Rls!TypeOK
  <2>4. \A x : ~Rls!Brought(x, q)
    BY <1>1 DEF Rls!Brought, Rls!NotSaved
  <2> HIDE DEF r
  <2> QED
    BY <1>1, <1>2, <2>2, <2>3, <2>4, RequestMoves DEF Rls!Send, Rls!NotSaved
<1>4. CASE Rls!Goes(q, "credentials")
  <2>1. UNCHANGED <<Rls!readinessVars, s4, s5, s6, s7>>
    BY DEF Rls!Send
  <2> QED
    BY <1>1, <1>4, <2>1, RequestGoes DEF Rls!NotSaved, Rls!Syncing, Rls!Generated
<1> QED
  BY <1>3, <1>4 DEF Rls!Send

\* The rows change, and the request goes on to where nothing was generated yet.
LEMMA SaveMoves ==
    ASSUME Rls!IInv, NEW q \in Requests, NEW at \in {"insert", "credentials", "failed"},
           Rls!Goes(q, at),
           s8[q].at \in {"delete", "insert"},
           UNCHANGED <<Rls!readinessVars, s5, s6, s7>>,
           \/ s4' \subseteq s4
           \/ s4' = s4 \union s8[q].input /\ at # "insert"
    PROVE  Rls!IInv'
<1> DEFINE f == s8[q]
           r == [s8[q] EXCEPT !.at = at]
<1>1. f \in Rls!Records
  BY DEF Rls!IInv, Rls!TypeOK, Rls!Records
<1>2. r \in Rls!Records /\ r.at = at /\ r.input = f.input /\ r.sql = f.sql
  BY <1>1 DEF Rls!Records, Rls!NotSaved, Rls!Syncing
<1>3. s8' = [s8 EXCEPT ![q] = r] /\ s8'[q] = r
  BY DEF Rls!Goes, Rls!IInv, Rls!TypeOK
<1> HIDE DEF r
<1>4. \A x : ~Rls!Brought(x, q)
  BY DEF Rls!Brought, Rls!NotSaved
<1>5. \A x \in s4' : x \in s4 \/ Rls!Brought(x, q)'
  BY <1>2, <1>3 DEF Rls!Brought, Rls!NotSaved, Rls!Generated
<1>6. s4' \subseteq Rls!RowSet /\ s5 \subseteq RlsTables \X Actions /\ s6 \subseteq s2
  BY <1>1 DEF Rls!IInv, Rls!TypeOK, Rls!Records
<1>7. s8[q].at \in Rls!NotSaved /\ at \notin {"new", "synced"}
  BY DEF Rls!NotSaved
<1> QED
  BY <1>2, <1>3, <1>4, <1>5, <1>6, <1>7, RequestMoves

LEMMA PreviewKeeps ==
    ASSUME Rls!IInv, NEW q \in Requests, Rls!PreviewRlsSync(q)
    PROVE  Rls!IInv'
<1> DEFINE f == s8[q]
<1>1. f \in Rls!Records /\ f.at = "preview"
  BY DEF Rls!PreviewRlsSync, Rls!IInv, Rls!TypeOK, Rls!Records
<1>2. s4 \subseteq Rls!RowSet /\ s5 \subseteq RlsTables \X Actions /\ s6 \subseteq s2
  BY DEF Rls!IInv, Rls!TypeOK
<1>3. PICK sql \in SUBSET Rls!RowSet, read \in BOOLEAN :
        /\ Rls!Reads(q, sql, read) /\ sql \subseteq s4
        /\ read => sql = s4
  <2>1. CASE Rls!Reads(q, s4, TRUE)
    <3>1. s4 \in SUBSET Rls!RowSet /\ TRUE \in BOOLEAN /\ s4 \subseteq s4
      BY <1>2
    <3> QED
      BY <2>1, <3>1
  <2>2. CASE Rls!Reads(q, {}, FALSE)
    <3>1. {} \in SUBSET Rls!RowSet /\ FALSE \in BOOLEAN /\ {} \subseteq s4
      OBVIOUS
    <3> QED
      BY <2>2, <3>1
  <2> QED
    BY <2>1, <2>2 DEF Rls!PreviewRlsSync
<1> DEFINE r == [s8[q] EXCEPT !.at = "probe", !.sql = sql, !.read = read]
<1>4. /\ r \in Rls!Records /\ r.at = "probe" /\ r.input = f.input /\ r.sql = sql /\ r.read = read
  BY <1>1 DEF Rls!Records, Rls!Syncing
<1>5. s8' = [s8 EXCEPT ![q] = r] /\ s8'[q] = r
  BY <1>3 DEF Rls!Reads, Rls!IInv, Rls!TypeOK
<1> HIDE DEF r
<1>6. UNCHANGED <<Rls!readinessVars, s4, s5, s6, s7>>
  BY DEF Rls!PreviewRlsSync
<1>7. \A x \in s4 : Rls!Brought(x, q) => Rls!Brought(x, q)'
  BY <1>3, <1>4, <1>5 DEF Rls!Brought, Rls!NotSaved
<1>8. s8[q].at \notin Rls!NotSaved /\ r.at \notin Rls!NotSaved
  BY <1>1, <1>4 DEF Rls!NotSaved
<1> QED
  BY <1>1, <1>2, <1>3, <1>4, <1>5, <1>6, <1>7, <1>8, RequestMoves

LEMMA ProbeKeeps ==
    ASSUME Rls!IInv, NEW q \in Requests, Rls!ProbeTarget(q)
    PROVE  Rls!IInv'
<1> DEFINE f == s8[q]
<1>1. f \in Rls!Records /\ f.at \in {"probe", "legacy"}
  BY DEF Rls!ProbeTarget, Rls!IInv, Rls!TypeOK, Rls!Records
<1>2. s4 \subseteq Rls!RowSet /\ s5 \subseteq RlsTables \X Actions /\ s6 \subseteq s2
  BY DEF Rls!IInv, Rls!TypeOK
<1>3. UNCHANGED <<Rls!readinessVars, s4, s5, s6, s7>>
  BY DEF Rls!ProbeTarget
<1>4. ASSUME NEW at \in {"apply", "fallback"}, NEW mode \in {"supaadmin", "legacy"},
             Rls!Probed(q, at, mode)
      PROVE  Rls!IInv'
  <2> DEFINE r == [s8[q] EXCEPT !.at = at, !.mode = mode]
  <2>1. r \in Rls!Records /\ r.at = at /\ r.input = f.input /\ r.sql = f.sql /\ r.read = f.read
    BY <1>1 DEF Rls!Records, Rls!Syncing
  <2>2. s8' = [s8 EXCEPT ![q] = r] /\ s8'[q] = r
    BY <1>4 DEF Rls!Probed, Rls!IInv, Rls!TypeOK
  <2> HIDE DEF r
  <2>3. \A x \in s4 : Rls!Brought(x, q) => Rls!Brought(x, q)'
    BY <1>1, <2>1, <2>2 DEF Rls!Brought, Rls!NotSaved, Rls!Generated
  <2>4. s8[q].at \notin Rls!NotSaved /\ r.at \notin Rls!NotSaved
    BY <1>1, <2>1 DEF Rls!NotSaved
  <2> QED
    BY <1>2, <1>3, <2>1, <2>2, <2>3, <2>4, RequestMoves
<1>5. ASSUME NEW at \in {"legacy", "fallback"}, Rls!Goes(q, at)
      PROVE  Rls!IInv'
  BY <1>1, <1>3, <1>5, RequestGoes DEF Rls!NotSaved, Rls!Syncing, Rls!Generated
<1> QED
  BY <1>4, <1>5 DEF Rls!ProbeTarget

\* The SQL of a request is run.
LEMMA ApplySqlKeeps ==
    ASSUME Rls!IInv, NEW q \in Requests, s8[q].at \in {"apply", "fallback"},
           Rls!Apply(s8[q].sql),
           NEW at \in {"synced", "unsynced", "failed"}, Rls!Goes(q, at),
           UNCHANGED <<Rls!readinessVars, s4, s7>>
    PROVE  Rls!IInv'
<1> DEFINE f == s8[q]
           sql == f.sql
           r == [s8[q] EXCEPT !.at = at]
<1>1. f \in Rls!Records /\ sql \in SUBSET Rls!RowSet
  BY DEF Rls!IInv, Rls!TypeOK, Rls!Records
<1>2. r \in Rls!Records /\ r.at = at /\ r.input = f.input /\ r.sql = sql /\ r.read = f.read
  BY <1>1 DEF Rls!Records
<1>3. s8' = [s8 EXCEPT ![q] = r] /\ s8'[q] = r
  BY DEF Rls!Goes, Rls!IInv, Rls!TypeOK
<1> HIDE DEF r
<1>4. /\ Rls!Grants(sql) \subseteq RlsTables \X Actions
      /\ \A p \in Rls!Grants(sql) : \E x \in sql : p[1] = x.table /\ p[2] \in x.actions
      /\ \A x \in sql : \A a \in x.actions : <<x.table, a>> \in Rls!Grants(sql)
  BY <1>1, Granting
<1>5. /\ s5' = s5 \union Rls!Grants(sql)
      /\ s6' = s6 \union {x.table : x \in sql}
      /\ {x.table : x \in sql} \subseteq s2
  BY DEF Rls!Apply
<1>6. /\ s4 \subseteq Rls!RowSet /\ s5' \subseteq RlsTables \X Actions
      /\ s6' \subseteq s2
  BY <1>4, <1>5 DEF Rls!IInv, Rls!TypeOK
<1>7. \A x \in s4 : Rls!Brought(x, q) => Rls!Brought(x, q)'
  BY <1>2, <1>3 DEF Rls!Brought, Rls!NotSaved, Rls!Generated
<1>8. s8[q].at \notin Rls!NotSaved /\ r.at \notin Rls!NotSaved /\ r.at # "new"
  BY <1>2 DEF Rls!NotSaved
<1>9. \A x \in sql : \A a \in x.actions : <<x.table, a>> \in s5'
  BY <1>4, <1>5
<1>10. \A p \in s5' \ s5 :
             p[1] \in s6' /\ \E x \in sql : p[1] = x.table /\ p[2] \in x.actions
  BY <1>4, <1>5
<1> QED
  BY <1>2, <1>3, <1>5, <1>6, <1>7, <1>8, <1>9, <1>10, RequestMoves

LEMMA ElsewhereKeeps ==
    ASSUME Rls!IInv, Rls!Elsewhere
    PROVE  Rls!IInv'
<1>1. s2' \subseteq RlsTables
  BY DEF Rls!Elsewhere, Rls!Next, Rls!Install, Rls!MarkReady, Rls!DropTable,
         Rls!CreateTable, Rls!IInv, Rls!TypeOK
<1>2. /\ s5' = {p \in s5 : p[1] \in s2'}
      /\ s6' = s6 \cap s2'
      /\ s7' = s7 \union (s2 \ s2')
      /\ UNCHANGED <<s4, s8>>
  BY DEF Rls!Elsewhere
<1>3. Rls!TypeOK' /\ Rls!Fresh' /\ Rls!RowsWereSaved'
  BY <1>1, <1>2 DEF Rls!IInv, Rls!TypeOK, Rls!Fresh, Rls!RowsWereSaved, Rls!Brought
<1>4. \A p \in s5 : p \in s5' \/ p[1] \in s7'
  BY <1>2 DEF Rls!IInv, Rls!PoliciesComeFromSaves, Rls!TypeOK
<1>5. Rls!SqlIsApplied'
  <2>1. ASSUME NEW x, NEW a, <<x.table, a>> \in s5 \/ x.table \in s7
        PROVE  <<x.table, a>> \in s5' \/ x.table \in s7'
    BY <1>2, <1>4, <2>1
  <2> QED
    BY <1>2, <2>1 DEF Rls!IInv, Rls!SqlIsApplied
<1>6. Rls!PoliciesComeFromSaves'
  BY <1>2 DEF Rls!IInv, Rls!PoliciesComeFromSaves
<1> QED
  BY <1>3, <1>5, <1>6 DEF Rls!IInv

LEMMA RlsStep == Rls!IInv /\ [Rls!RlsNext]_(Rls!vars) => Rls!IInv'
<1> SUFFICES ASSUME Rls!IInv, [Rls!RlsNext]_(Rls!vars) PROVE Rls!IInv'
  OBVIOUS
<1>1. ASSUME NEW q \in Requests, Rls!RequestStep(q) PROVE Rls!IInv'
  <2>1. CASE Rls!DeleteRows(q)
    BY <2>1, SaveMoves DEF Rls!DeleteRows
  <2>2. CASE Rls!InsertRows(q)
    BY <2>2, SaveMoves DEF Rls!InsertRows
  <2>3. CASE Rls!SaveFails(q)
    BY <2>3, SaveMoves DEF Rls!SaveFails, Rls!SaveAwaits
  <2>4. CASE Rls!CheckReady(q)
    <3>1. PICK at \in {"assert", "preview", "failed", "unsynced"} : Rls!Goes(q, at)
      BY <2>4 DEF Rls!CheckReady, Rls!Unsynced
    <3> QED
      BY <2>4, <3>1, RequestGoes
         DEF Rls!CheckReady, Rls!NotSaved, Rls!Syncing, Rls!Generated
  <2>5. CASE Rls!ApplyRlsSql(q)
    <3>1. CASE Rls!Goes(q, "fallback") /\ UNCHANGED <<s5, s6>>
      BY <2>5, <3>1, RequestGoes
         DEF Rls!ApplyRlsSql, Rls!NotSaved, Rls!Syncing, Rls!Generated
    <3> QED
      BY <2>5, <3>1, ApplySqlKeeps DEF Rls!ApplyRlsSql, Rls!Run, Rls!Unsynced
  <2>6. CASE Rls!ExecSql(q)
    BY <2>6, ApplySqlKeeps DEF Rls!ExecSql, Rls!Run, Rls!Unsynced
  <2>7. CASE Rls!ApplyFails(q)
    <3>1. PICK at \in {"failed", "unsynced"} : Rls!Goes(q, at)
      BY <2>7 DEF Rls!ApplyFails, Rls!Unsynced
    <3> QED
      BY <2>7, <3>1, RequestGoes
         DEF Rls!ApplyFails, Rls!NotSaved, Rls!Syncing, Rls!Generated
  <2> QED
    BY <1>1, <2>1, <2>2, <2>3, <2>4, <2>5, <2>6, <2>7, SendRequestKeeps, PreviewKeeps,
       ProbeKeeps
       DEF Rls!RequestStep
<1>2. CASE UNCHANGED Rls!vars
  BY <1>2 DEF Rls!vars, Rls!readinessVars, Rls!rlsVars, Rls!IInv, Rls!TypeOK, Rls!Fresh,
              Rls!RowsWereSaved, Rls!Brought, Rls!SqlIsApplied,
     Rls!PoliciesComeFromSaves
<1> QED
  BY <1>1, <1>2, ElsewhereKeeps DEF Rls!RlsNext

\* What the invariant says of rights and policies.
LEMMA RlsTells == Rls!IInv => Rls!GrantsAreCovered /\ Rls!PoliciesComeFromSaves
<1> SUFFICES ASSUME Rls!IInv, NEW r \in s4, NEW a \in r.actions
             PROVE  <<r.table, a>> \in s5 \/ r.table \in s7 \/ Rls!Excused(r)
  BY DEF Rls!IInv, Rls!GrantsAreCovered
<1>1. PICK q \in Requests : Rls!Brought(r, q)
  BY DEF Rls!IInv, Rls!RowsWereSaved
<1>2. CASE s8[q].at = "synced" /\ s8[q].read
  <2>1. r \in s8[q].sql
    BY <1>1, <1>2 DEF Rls!Brought, Rls!Generated
  <2> QED
    BY <1>2, <2>1 DEF Rls!IInv, Rls!SqlIsApplied
<1>3. CASE ~(s8[q].at = "synced" /\ s8[q].read)
  BY <1>1, <1>3 DEF Rls!Excused, Rls!Brought
<1> QED
  BY <1>2, <1>3

\* Saves and synchronisations that overlap never undo one another on the Target:
\* a right in Meta is a policy there, or its save answered otherwise or read
\* nothing; and every policy is a saved right's, on a table that enforces it.
THEOREM PoliciesAlwaysFollow == ServerSpec => []PoliciesFollowSaves
<1> DEFINE Holds == part = "rls" => Rls!IInv
<1>1. ServerInit => Holds
  BY RlsInitial DEF ServerInit
<1>2. Holds /\ [ServerNext]_<<part, vars, state>> => Holds'
  BY RlsStep DEF ServerNext, state, Rls!vars, Rls!readinessVars, Rls!rlsVars
<1>3. Holds => PoliciesFollowSaves
  BY RlsTells DEF PoliciesFollowSaves
<1> QED
  BY <1>1, <1>2, <1>3, PTL DEF ServerSpec

-----------------------------------------------------------------------------
(* The schema cache: s1 is connections, s2 rows, s3 stamped, s4 ready, s5 call, *)
(* s6 used, s7 fetched and s8 torn.  A request that is about to replace tables  *)
(* holds a schema that was fetched; one that is alone finds nothing in its way. *)

LEMMA SchemaInit == Schema!Init => Schema!IInv
<1> SUFFICES ASSUME Schema!Init PROVE Schema!IInv
  OBVIOUS
<1>1. /\ s5 \in [Requests -> Schema!Records]
      /\ \A c \in Requests : s5[c].at = "error" /\ s5[c].id = Schema!Nobody /\ ~s5[c].quiet
  BY DEF Schema!Init, Schema!Records, Schema!Awaits
<1>2. Schema!SchemasStayWhole
  <2> SUFFICES ASSUME NEW i \in Ids PROVE Schema!Whole(i)
    BY DEF Schema!SchemasStayWhole
  <2>1. {} \in SUBSET s7[i] /\ s2[i] = UNION {}
    BY DEF Schema!Init
  <2> QED
    BY <2>1 DEF Schema!Whole
<1> QED
  BY <1>1, <1>2
     DEF Schema!Init, Schema!IInv, Schema!TypeOK, Schema!RowsAreOfConnections,
         Schema!CallFits, Schema!QuietFits, Schema!StampedHaveRows,
     Schema!QuietCallIsExact

\* Only one request is quiet, and then it is the only one.
LEMMA OtherCallsWait ==
    ASSUME Schema!IInv, NEW c \in Requests, NEW d \in Requests, c # d, Schema!Running(c)
    PROVE  ~s5[d].quiet
BY DEF Schema!IInv, Schema!QuietFits

\* Request c moves on to r.
LEMMA SchemaCallMoves ==
    ASSUME Schema!IInv, NEW c \in Requests, NEW r \in Schema!Records, Schema!Running(c),
           s5' = [s5 EXCEPT ![c] = r],
           s2' \in [Ids -> SUBSET SchemaTables], s7' \in [Ids -> SUBSET SUBSET SchemaTables],
           s6 \subseteq s6', s6' \subseteq Ids, s1' \subseteq s6',
           s3' \subseteq s1',
           Schema!RowsAreOfConnections', Schema!CallFits(c)',
           \A d \in Requests : d # c /\ s5[d].at \in {"clear", "insert"} =>
              s5[d].tables \in s7'[s5[d].id],
           r.quiet =>
             /\ s5[c].quiet
             /\ r.at = "insert" => s2'[r.id] = {}
             /\ r.at \in {"stamp", "bootstrap"} =>
                  s2'[r.id] = r.tables /\ r.tables # {} /\ r.id \in s1'
             /\ r.at = "bootstrap" => r.id \in s3'
             /\ r.at = "ok" => IF r.kind = "delete" THEN r.id \notin s1' /\ s2'[r.id] = {}
                               ELSE s2'[r.id] = r.tables /\ r.id \in s3' /\ s2'[r.id] # {},
           \A i \in Ids : \/ s2'[i] = s2[i] /\ s7[i] \subseteq s7'[i]
                          \/ s2'[i] = {}
                          \/ Schema!Whole(i)',
           \A i \in s1' :
              \/ Schema!Gap(i)'
              \/ /\ i \in s1 /\ s2'[i] = s2[i] /\ (i \in s8 => i \in s8')
                 /\ i \in s3' => i \in s3 \/ (s5[c].at = "stamp" /\ s5[c].id = i)
                 /\ ~(s5[c].at = "insert" /\ s5[c].id = i)
                 /\ ~(r.at = "stamp" /\ r.id = i)
              \/ /\ i \notin s3' /\ ~(r.at = "stamp" /\ r.id = i)
                 /\ i \notin s6
    PROVE  Schema!IInv'
<1>1. /\ s5' \in [Requests -> Schema!Records] /\ s5'[c] = r
      /\ \A d \in Requests : d # c => s5'[d] = s5[d]
  BY DEF Schema!IInv, Schema!TypeOK
<1>2. Schema!TypeOK'
  BY <1>1 DEF Schema!IInv, Schema!TypeOK
<1>3. ASSUME NEW d \in Requests PROVE Schema!CallFits(d)'
  <2>1. CASE d = c
    BY <2>1
  <2>2. CASE d # c
    <3>1. Schema!CallFits(d) /\ s5'[d] = s5[d]
      BY <1>1, <2>2 DEF Schema!IInv
    <3> QED
      BY <2>2, <3>1 DEF Schema!CallFits
  <2> QED
    BY <2>1, <2>2
<1>4. \A d \in Requests \ {c} : ~s5'[d].quiet
  BY <1>1, OtherCallsWait
<1>5. r.quiet => \A d \in Requests \ {c} : ~Schema!Running(d)'
  BY <1>1 DEF Schema!IInv, Schema!QuietFits, Schema!Running
<1>6. \A d \in Requests : Schema!QuietFits(d)'
  BY <1>1, <1>4, <1>5 DEF Schema!QuietFits
<1>7. Schema!QuietCallIsExact'
  BY <1>1, <1>4 DEF Schema!QuietCallIsExact
<1>8. Schema!SchemasStayWhole'
  <2> SUFFICES ASSUME NEW i \in Ids PROVE Schema!Whole(i)'
    BY DEF Schema!SchemasStayWhole
  <2>1. CASE s2'[i] = s2[i] /\ s7[i] \subseteq s7'[i]
    <3>1. PICK S \in SUBSET s7[i] :
            s2[i] = UNION S /\ \A A, B \in S : A = B \/ A \cap B = {}
      BY DEF Schema!IInv, Schema!SchemasStayWhole, Schema!Whole
    <3>2. S \in SUBSET s7'[i] /\ s2'[i] = UNION S
      BY <2>1, <3>1
    <3> QED
      BY <3>1, <3>2 DEF Schema!Whole
  <2>2. CASE s2'[i] = {}
    <3>1. {} \in SUBSET s7'[i] /\ s2'[i] = UNION {}
      BY <2>2
    <3> QED
      BY <3>1 DEF Schema!Whole
  <2> QED
    BY <2>1, <2>2
<1>9. Schema!StampedHaveRows'
  <2> SUFFICES ASSUME NEW i \in s1',
                      i \in s3' \/ \E d \in Requests : s5'[d].id = i /\ s5'[d].at = "stamp"
               PROVE  Schema!Gap(i)'
    BY DEF Schema!StampedHaveRows
  <2>1. CASE i \notin s3' /\ ~(r.at = "stamp" /\ r.id = i) /\ i \notin s6
    <3>1. PICK d \in Requests : s5'[d].id = i /\ s5'[d].at = "stamp"
      BY <2>1
    <3>2. d # c /\ s5[d].id = i /\ s5[d].at = "stamp"
      BY <1>1, <2>1, <3>1
    <3>3. Schema!CallFits(d)
      BY DEF Schema!IInv
    <3> QED
      BY <2>1, <3>2, <3>3 DEF Schema!CallFits
  <2>2. CASE /\ i \in s1 /\ s2'[i] = s2[i] /\ (i \in s8 => i \in s8')
             /\ i \in s3' => i \in s3 \/ (s5[c].at = "stamp" /\ s5[c].id = i)
             /\ ~(s5[c].at = "insert" /\ s5[c].id = i)
             /\ ~(r.at = "stamp" /\ r.id = i)
    <3>1. i \in s3 \/ \E d \in Requests : s5[d].id = i /\ s5[d].at = "stamp"
      BY <1>1, <2>2
    <3>2. Schema!Gap(i)
      BY <2>2, <3>1 DEF Schema!IInv, Schema!StampedHaveRows
    <3> QED
      BY <1>1, <2>2, <3>2 DEF Schema!Gap
  <2> QED
    BY <2>1, <2>2
<1> QED
  BY <1>2, <1>3, <1>6, <1>7, <1>8, <1>9 DEF Schema!IInv

\* Request c starts.
LEMMA StartKeeps ==
    ASSUME Schema!IInv, NEW c \in Requests, NEW kind \in {"create", "sync", "delete"},
           NEW id,
           (kind = "create" /\ id = Schema!Nobody) \/ (kind # "create" /\ id \in s6), Schema!Start(c, kind, id)
    PROVE  Schema!IInv'
<1> DEFINE at == CASE kind = "create" -> "fetch"
                   [] kind = "sync" -> "find"
                   [] kind = "delete" -> "delete"
           quiet == \A e \in Requests \ {c} : ~Schema!Running(e)
           r == [kind |-> kind, id |-> id, tables |-> {}, at |-> at, quiet |-> quiet]
<1>1. \/ at = "fetch" /\ kind = "create"
      \/ at = "find" /\ kind = "sync"
      \/ at = "delete" /\ kind = "delete"
  OBVIOUS
<1>2. quiet \in BOOLEAN
  <2>1. CASE quiet
    BY <2>1
  <2>2. CASE ~quiet
    BY <2>2
  <2> QED
    BY <2>1, <2>2
<1>3. s5' = [d \in Requests |-> IF d = c THEN r ELSE [s5[d] EXCEPT !.quiet = FALSE]]
  BY DEF Schema!Start
<1> HIDE DEF at, quiet
<1>4. /\ r \in Schema!Records /\ r.id = id /\ r.kind = kind /\ r.at = at /\ r.quiet = quiet
  BY <1>1, <1>2 DEF Schema!Records, Schema!Awaits, Schema!IInv, Schema!TypeOK
<1> HIDE DEF r
<1>5. ASSUME NEW d \in Requests, d # c
      PROVE  /\ s5'[d] \in Schema!Records /\ s5'[d].at = s5[d].at /\ s5'[d].id = s5[d].id
             /\ s5'[d].kind = s5[d].kind /\ s5'[d].tables = s5[d].tables /\ ~s5'[d].quiet
  <2>1. s5[d] \in Schema!Records /\ s5'[d] = [s5[d] EXCEPT !.quiet = FALSE]
    BY <1>3, <1>5 DEF Schema!IInv, Schema!TypeOK
  <2> QED
    BY <2>1 DEF Schema!Records
<1>6. s5'[c] = r /\ s5' \in [Requests -> Schema!Records]
  BY <1>3, <1>4, <1>5
<1>7. UNCHANGED <<Schema!metaVars, Schema!historyVars>> /\ s5[c].at \notin Schema!Awaits
  BY DEF Schema!Start, Schema!Running
<1>8. Schema!TypeOK' /\ Schema!RowsAreOfConnections' /\ Schema!SchemasStayWhole'
  BY <1>6, <1>7
     DEF Schema!IInv, Schema!TypeOK, Schema!RowsAreOfConnections,
         Schema!SchemasStayWhole, Schema!Whole, Schema!metaVars, Schema!historyVars
<1>9. ASSUME NEW d \in Requests PROVE Schema!CallFits(d)'
  <2>1. CASE d = c
    BY <1>1, <1>4, <1>6, <1>7, <2>1, SchemaAssumption
       DEF Schema!CallFits, Schema!historyVars, Schema!IInv, Schema!TypeOK
  <2>2. CASE d # c
    <3>1. Schema!CallFits(d)
      BY DEF Schema!IInv
    <3> QED
      BY <1>5, <1>7, <2>2, <3>1 DEF Schema!CallFits, Schema!historyVars
  <2> QED
    BY <2>1, <2>2
<1>10. ASSUME NEW d \in Requests PROVE Schema!QuietFits(d)'
  <2>1. CASE d = c
    <3>1. quiet => \A e \in Requests \ {c} : ~Schema!Running(e)'
      BY <1>5 DEF quiet, Schema!Running
    <3> QED
      BY <1>1, <1>4, <1>6, <2>1, <3>1 DEF Schema!QuietFits
  <2>2. CASE d # c
    BY <1>5, <2>2 DEF Schema!QuietFits
  <2> QED
    BY <2>1, <2>2
<1>11. Schema!QuietCallIsExact'
  BY <1>1, <1>4, <1>5, <1>6 DEF Schema!QuietCallIsExact
<1>12. Schema!StampedHaveRows'
  <2>1. \A d \in Requests : s5'[d].at = "stamp" => s5[d].at = "stamp" /\ s5'[d].id = s5[d].id
    BY <1>1, <1>4, <1>5, <1>6
  <2>2. \A d \in Requests : s5[d].at = "insert" => s5'[d].at = "insert" /\ s5'[d].id = s5[d].id
    BY <1>5, <1>7 DEF Schema!Awaits
  <2> QED
    BY <1>7, <2>1, <2>2
       DEF Schema!IInv, Schema!StampedHaveRows, Schema!Gap, Schema!metaVars,
           Schema!historyVars
<1> QED
  BY <1>8, <1>9, <1>10, <1>11, <1>12 DEF Schema!IInv

\* Request c moves on to r without a change of what is stored.
LEMMA Continues ==
    ASSUME Schema!IInv, NEW c \in Requests, NEW r \in Schema!Records, Schema!Running(c),
           s5' = [s5 EXCEPT ![c] = r],
           UNCHANGED <<Schema!metaVars, s6>>,
              s7' \in [Ids -> SUBSET SUBSET SchemaTables],
           \A i \in Ids : s7[i] \subseteq s7'[i],
           s8 \subseteq s8',
           s5[c].at = "insert" => s5[c].id \in s8' \/ s5[c].id \notin s1,
           Schema!CallFits(c)', r.at \notin {"insert", "stamp", "bootstrap", "ok"},
           r.quiet => s5[c].quiet
    PROVE  Schema!IInv'
<1>1. /\ s2' \in [Ids -> SUBSET SchemaTables] /\ s6 \subseteq s6' /\ s6' \subseteq Ids
      /\ s1' \subseteq s6' /\ s3' \subseteq s1' /\ Schema!RowsAreOfConnections'
      /\ s2' = s2 /\ s1' = s1 /\ s3' = s3
  BY DEF Schema!IInv, Schema!TypeOK, Schema!RowsAreOfConnections, Schema!metaVars
<1>2. ASSUME NEW d \in Requests, s5[d].at \in {"clear", "insert"}
      PROVE  s5[d].tables \in s7'[s5[d].id]
  <2>1. Schema!CallFits(d)
    BY DEF Schema!IInv
  <2>2. s5[d].tables \in s7[s5[d].id] /\ s5[d].id \in s6
    BY <1>2, <2>1 DEF Schema!CallFits
  <2> QED
    BY <1>1, <2>2
<1>3. \A i \in s1' : i \in s8' => Schema!Gap(i)'
  BY DEF Schema!Gap
<1> QED
  BY <1>1, <1>2, <1>3, SchemaCallMoves

LEMMA GiveUpKeeps ==
    ASSUME Schema!IInv, NEW c \in Requests, Schema!Running(c), Schema!GiveUp(c),
           UNCHANGED <<Schema!metaVars, s6, s7>>, s8 \subseteq s8',
           s5[c].at = "insert" => s5[c].id \in s8' \/ s5[c].id \notin s1
    PROVE  Schema!IInv'
<1> DEFINE r == [s5[c] EXCEPT !.at = "error", !.tables = {}, !.quiet = FALSE]
<1>1. s5[c] \in Schema!Records /\ Schema!CallFits(c)
  BY DEF Schema!IInv, Schema!TypeOK
<1>2. /\ r \in Schema!Records /\ r.at = "error" /\ r.id = s5[c].id /\ r.kind = s5[c].kind /\ ~r.quiet
  BY <1>1 DEF Schema!Records
<1>3. s5' = [s5 EXCEPT ![c] = r] /\ s5'[c] = r
  BY DEF Schema!GiveUp, Schema!IInv, Schema!TypeOK
<1> HIDE DEF r
<1>4. Schema!CallFits(c)'
  BY <1>1, <1>2, <1>3 DEF Schema!CallFits
<1>5. s7' \in [Ids -> SUBSET SUBSET SchemaTables] /\ s7' = s7
  BY DEF Schema!IInv, Schema!TypeOK
<1> QED
  BY <1>2, <1>3, <1>4, <1>5, Continues

LEMMA FindKeeps ==
    ASSUME Schema!IInv, NEW c \in Requests, Schema!Find(c)
    PROVE  Schema!IInv'
<1> DEFINE at == IF s5[c].id \in s1 THEN "fetch" ELSE "error"
           r == [s5[c] EXCEPT !.at = at]
<1>1. s5[c] \in Schema!Records /\ Schema!CallFits(c) /\ s5[c].at = "find" /\ Schema!Running(c)
  BY DEF Schema!Find, Schema!Running, Schema!Awaits, Schema!IInv, Schema!TypeOK
<1>2. at \in {"fetch", "error"}
  OBVIOUS
<1> HIDE DEF at
<1>3. /\ r \in Schema!Records /\ r.at = at /\ r.id = s5[c].id /\ r.kind = s5[c].kind
      /\ r.quiet = s5[c].quiet
  BY <1>1, <1>2 DEF Schema!Records, Schema!Awaits
<1>4. s5' = [s5 EXCEPT ![c] = r] /\ s5'[c] = r
  BY DEF Schema!Find, Schema!Goes, Schema!IInv, Schema!TypeOK, at
<1> HIDE DEF r
<1>5. Schema!CallFits(c)'
  BY <1>1, <1>2, <1>3, <1>4 DEF Schema!Find, Schema!historyVars, Schema!CallFits
<1>6. s7' \in [Ids -> SUBSET SUBSET SchemaTables] /\ s7' = s7
      /\ UNCHANGED <<Schema!metaVars, s6>> /\ s8' = s8
  BY DEF Schema!Find, Schema!IInv, Schema!TypeOK, Schema!historyVars
<1> QED
  BY <1>1, <1>2, <1>3, <1>4, <1>5, <1>6, Continues

LEMMA FetchKeeps ==
    ASSUME Schema!IInv, NEW c \in Requests, Schema!FetchSchemaViaRest(c)
    PROVE  Schema!IInv'
<1>1. s5[c] \in Schema!Records /\ Schema!CallFits(c) /\ s5[c].at = "fetch" /\ Schema!Running(c)
  BY DEF Schema!FetchSchemaViaRest, Schema!Running, Schema!Awaits, Schema!IInv,
         Schema!TypeOK
<1>2. UNCHANGED <<Schema!metaVars, s6, s8>>
  BY DEF Schema!FetchSchemaViaRest
<1>3. CASE Schema!GiveUp(c) /\ UNCHANGED s7
  BY <1>1, <1>2, <1>3, GiveUpKeeps
<1>4. ASSUME NEW tables \in SUBSET SchemaTables, tables # {},
             Schema!Fetched(c, IF s5[c].kind = "create" THEN "create" ELSE "clear", tables),
             s7' = IF s5[c].kind = "create" THEN s7
                        ELSE [s7 EXCEPT ![s5[c].id] = @ \union {tables}]
      PROVE  Schema!IInv'
  <2> DEFINE at == IF s5[c].kind = "create" THEN "create" ELSE "clear"
             r == [s5[c] EXCEPT !.at = at, !.tables = tables]
  <2>1. at \in {"create", "clear"} /\ (at = "create" <=> s5[c].kind = "create")
    OBVIOUS
  <2>2. s5' = [s5 EXCEPT ![c] = r] /\ s5'[c] = r
    BY <1>4 DEF Schema!Fetched, Schema!IInv, Schema!TypeOK
  <2> HIDE DEF at
  <2>3. /\ r \in Schema!Records /\ r.at = at /\ r.id = s5[c].id /\ r.kind = s5[c].kind
        /\ r.tables = tables /\ r.quiet = s5[c].quiet
    BY <1>1, <2>1 DEF Schema!Records, Schema!Awaits
  <2> HIDE DEF r
  <2>4. at = "clear" => s5[c].id \in Ids /\ s5[c].id # Schema!Nobody
    BY <1>1, <2>1 DEF Schema!CallFits, Schema!Records
  <2>5. /\ s7' \in [Ids -> SUBSET SUBSET SchemaTables]
        /\ \A i \in Ids : s7[i] \subseteq s7'[i]
        /\ at = "clear" => tables \in s7'[s5[c].id]
    <3>1. CASE at = "create"
      BY <1>4, <2>1, <3>1 DEF Schema!IInv, Schema!TypeOK
    <3>2. CASE at = "clear"
      <4>1. s7' = [s7 EXCEPT ![s5[c].id] = @ \union {tables}] /\ s5[c].id \in Ids
        BY <1>4, <2>1, <2>4, <3>2
      <4> QED
        BY <4>1, <3>2 DEF Schema!IInv, Schema!TypeOK
    <3> QED
      BY <2>1, <3>1, <3>2
  <2>6. Schema!CallFits(c)'
    BY <1>1, <1>2, <1>4, <2>1, <2>2, <2>3, <2>5 DEF Schema!CallFits
  <2> QED
    BY <1>1, <1>2, <2>1, <2>2, <2>3, <2>5, <2>6, Continues
<1> QED
  BY <1>3, <1>4 DEF Schema!FetchSchemaViaRest, Schema!PublicTables

LEMMA InsertConnectionKeeps ==
    ASSUME Schema!IInv, NEW c \in Requests, Schema!InsertConnection(c)
    PROVE  Schema!IInv'
<1>1. s5[c] \in Schema!Records /\ Schema!CallFits(c) /\ s5[c].at = "create" /\ Schema!Running(c)
  BY DEF Schema!InsertConnection, Schema!Running, Schema!Awaits, Schema!IInv,
         Schema!TypeOK
<1>2. PICK i \in Ids \ s6 :
        /\ s1' = s1 \union {i} /\ s6' = s6 \union {i}
        /\ s7' = [s7 EXCEPT ![i] = {s5[c].tables}]
        /\ \/ s5' = [s5 EXCEPT ![c].at = "clear", ![c].id = i]
           \/ s5' = [s5 EXCEPT ![c].at = "error", ![c].id = i, ![c].tables = {},
                                   ![c].quiet = FALSE]
  BY DEF Schema!InsertConnection
<1>3. UNCHANGED <<s2, s3, s4, s8>>
  BY DEF Schema!InsertConnection
<1>4. /\ s5[c].tables \in SUBSET SchemaTables /\ i # Schema!Nobody /\ s2[i] = {}
  BY <1>1, SchemaAssumption
     DEF Schema!Records, Schema!IInv, Schema!TypeOK, Schema!RowsAreOfConnections
<1>5. /\ s7' \in [Ids -> SUBSET SUBSET SchemaTables] /\ s7'[i] = {s5[c].tables}
      /\ \A j \in Ids : j # i => s7'[j] = s7[j]
  BY <1>2, <1>4 DEF Schema!IInv, Schema!TypeOK
<1>6. PICK r \in Schema!Records :
        /\ s5' = [s5 EXCEPT ![c] = r] /\ r.id = i /\ r.kind = s5[c].kind
        /\ \/ r.at = "clear" /\ r.tables = s5[c].tables /\ r.quiet = s5[c].quiet
           \/ r.at = "error" /\ ~r.quiet
  <2>1. CASE s5' = [s5 EXCEPT ![c].at = "clear", ![c].id = i]
    <3> DEFINE r == [s5[c] EXCEPT !.at = "clear", !.id = i]
    <3>1. /\ r \in Schema!Records /\ r.id = i /\ r.kind = s5[c].kind /\ r.at = "clear"
          /\ r.tables = s5[c].tables /\ r.quiet = s5[c].quiet
      BY <1>1 DEF Schema!Records, Schema!Awaits
    <3>2. s5' = [s5 EXCEPT ![c] = r]
      BY <2>1 DEF Schema!IInv, Schema!TypeOK
    <3> HIDE DEF r
    <3> QED
      BY <3>1, <3>2
  <2>2. CASE s5' = [s5 EXCEPT ![c].at = "error", ![c].id = i, ![c].tables = {}, ![c].quiet = FALSE]
    <3> DEFINE r == [s5[c] EXCEPT !.at = "error", !.id = i, !.tables = {}, !.quiet = FALSE]
    <3>1. /\ r \in Schema!Records /\ r.id = i /\ r.kind = s5[c].kind /\ r.at = "error" /\ ~r.quiet
      BY <1>1 DEF Schema!Records
    <3>2. s5' = [s5 EXCEPT ![c] = r]
      BY <2>2 DEF Schema!IInv, Schema!TypeOK
    <3> HIDE DEF r
    <3> QED
      BY <3>1, <3>2
  <2> QED
    BY <1>2, <2>1, <2>2
<1>7. s5'[c] = r
  BY <1>6 DEF Schema!IInv, Schema!TypeOK
<1>8. /\ s2' \in [Ids -> SUBSET SchemaTables] /\ s6 \subseteq s6' /\ s6' \subseteq Ids
      /\ s1' \subseteq s6' /\ s3' \subseteq s1' /\ Schema!RowsAreOfConnections'
  BY <1>2, <1>3 DEF Schema!IInv, Schema!TypeOK, Schema!RowsAreOfConnections
<1>9. Schema!CallFits(c)'
  BY <1>1, <1>2, <1>4, <1>5, <1>6, <1>7 DEF Schema!CallFits
<1>10. ASSUME NEW d \in Requests, d # c, s5[d].at \in {"clear", "insert"}
       PROVE  s5[d].tables \in s7'[s5[d].id]
  <2>1. Schema!CallFits(d)
    BY DEF Schema!IInv
  <2>2. s5[d].tables \in s7[s5[d].id] /\ s5[d].id \in s6
    BY <1>10, <2>1 DEF Schema!CallFits
  <2> QED
    BY <1>5, <2>2 DEF Schema!IInv, Schema!TypeOK
<1>11. \A j \in Ids : s2'[j] = s2[j] /\ (s7[j] \subseteq s7'[j] \/ s2'[j] = {})
  BY <1>3, <1>4, <1>5
<1>12. \A j \in s1' :
         \/ j \in s1 /\ s2'[j] = s2[j] /\ s8' = s8 /\ s3' = s3
         \/ j \notin s3' /\ j \notin s6
  BY <1>2, <1>3 DEF Schema!IInv, Schema!TypeOK
<1> QED
  BY <1>1, <1>6, <1>5, <1>8, <1>9, <1>10, <1>11, <1>12, SchemaCallMoves

\* A request goes on or gives up: where it may be then.
LEMMA Continued ==
    ASSUME Schema!IInv, NEW c \in Requests, NEW at \in Schema!Awaits \union {"ok"},
           Schema!Goes(c, at) \/ Schema!GiveUp(c)
    PROVE  \E r \in Schema!Records :
             /\ s5' = [s5 EXCEPT ![c] = r] /\ s5'[c] = r
             /\ r.id = s5[c].id /\ r.kind = s5[c].kind
             /\ \/ Schema!Goes(c, at) /\ r.at = at /\ r.tables = s5[c].tables /\ r.quiet = s5[c].quiet
                \/ Schema!GiveUp(c) /\ r.at = "error" /\ ~r.quiet
<1>1. s5[c] \in Schema!Records
  BY DEF Schema!IInv, Schema!TypeOK
<1>2. CASE Schema!Goes(c, at)
  <2> DEFINE r == [s5[c] EXCEPT !.at = at]
  <2>1. /\ r \in Schema!Records /\ r.id = s5[c].id /\ r.kind = s5[c].kind /\ r.at = at
        /\ r.tables = s5[c].tables /\ r.quiet = s5[c].quiet
    BY <1>1 DEF Schema!Records
  <2>2. s5' = [s5 EXCEPT ![c] = r] /\ s5'[c] = r
    BY <1>2 DEF Schema!Goes, Schema!IInv, Schema!TypeOK
  <2> HIDE DEF r
  <2> QED
    BY <1>2, <2>1, <2>2
<1>3. CASE Schema!GiveUp(c)
  <2> DEFINE r == [s5[c] EXCEPT !.at = "error", !.tables = {}, !.quiet = FALSE]
  <2>1. /\ r \in Schema!Records /\ r.id = s5[c].id /\ r.kind = s5[c].kind /\ r.at = "error" /\ ~r.quiet
    BY <1>1 DEF Schema!Records
  <2>2. s5' = [s5 EXCEPT ![c] = r] /\ s5'[c] = r
    BY <1>3 DEF Schema!GiveUp, Schema!IInv, Schema!TypeOK
  <2> HIDE DEF r
  <2> QED
    BY <1>3, <2>1, <2>2
<1> QED
  BY <1>2, <1>3

LEMMA ClearKeeps ==
    ASSUME Schema!IInv, NEW c \in Requests, Schema!ClearTables(c)
    PROVE  Schema!IInv'
<1>1. s5[c] \in Schema!Records /\ Schema!CallFits(c) /\ s5[c].at = "clear" /\ Schema!Running(c)
  BY DEF Schema!ClearTables, Schema!Running, Schema!Awaits, Schema!IInv, Schema!TypeOK
<1>2. PICK i \in s6 : i = s5[c].id
  BY <1>1 DEF Schema!CallFits
<1>3. PICK r \in Schema!Records :
             /\ s5' = [s5 EXCEPT ![c] = r] /\ s5'[c] = r
             /\ r.id = s5[c].id /\ r.kind = s5[c].kind
             /\ \/ Schema!Goes(c, "insert") /\ r.at = "insert" /\ r.tables = s5[c].tables
                   /\ r.quiet = s5[c].quiet
                \/ Schema!GiveUp(c) /\ r.at = "error" /\ ~r.quiet
  BY Continued DEF Schema!ClearTables, Schema!Awaits
<1>4. /\ s2' = [s2 EXCEPT ![i] = {}] /\ s7' = [s7 EXCEPT ![i] = Schema!Held(i)]
      /\ UNCHANGED <<s1, s3, s4, s6>>
      /\ \/ Schema!Goes(c, "insert") /\ s8' = s8
         \/ Schema!GiveUp(c) /\ s8' = s8 \union {i}
  BY <1>2 DEF Schema!ClearTables
<1>5. Schema!Held(i) \in SUBSET SUBSET SchemaTables
  BY DEF Schema!Held, Schema!IInv, Schema!TypeOK, Schema!Records
<1>6. /\ s2' \in [Ids -> SUBSET SchemaTables] /\ s2'[i] = {}
      /\ \A j \in Ids : j # i => s2'[j] = s2[j]
      /\ s7' \in [Ids -> SUBSET SUBSET SchemaTables] /\ s7'[i] = Schema!Held(i)
      /\ \A j \in Ids : j # i => s7'[j] = s7[j]
  BY <1>4, <1>5 DEF Schema!IInv, Schema!TypeOK
<1>7. /\ s6 \subseteq s6' /\ s6' \subseteq Ids
      /\ s1' \subseteq s6' /\ s3' \subseteq s1' /\ Schema!RowsAreOfConnections'
  BY <1>4, <1>6 DEF Schema!IInv, Schema!TypeOK, Schema!RowsAreOfConnections
<1>8. ASSUME NEW d \in Requests, s5[d].at \in {"clear", "insert"}
      PROVE  s5[d].tables \in s7'[s5[d].id]
  <2>1. Schema!CallFits(d)
    BY DEF Schema!IInv
  <2>2. s5[d].tables \in s7[s5[d].id] /\ s5[d].id \in s6
    BY <1>8, <2>1 DEF Schema!CallFits
  <2>3. CASE s5[d].id = i
    BY <1>6, <1>8, <2>3 DEF Schema!Held
  <2>4. CASE s5[d].id # i
    BY <1>6, <2>2, <2>4 DEF Schema!IInv, Schema!TypeOK
  <2> QED
    BY <2>3, <2>4
<1>9. Schema!CallFits(c)'
  <2>1. s5[c].tables \in s7'[i]
    BY <1>1, <1>2, <1>8
  <2> QED
    BY <1>1, <1>2, <1>3, <1>4, <2>1 DEF Schema!CallFits
<1>10. r.quiet => s5[c].quiet /\ r.at = "insert" /\ s2'[r.id] = {}
  BY <1>2, <1>3, <1>6
<1>11. Schema!Gap(i)'
  <2>1. CASE r.at = "insert"
    BY <1>2, <1>3, <2>1 DEF Schema!Gap
  <2>2. CASE r.at = "error"
    <3>1. Schema!GiveUp(c) /\ s8' = s8 \union {i}
      <4>1. ~Schema!Goes(c, "insert")
        BY <1>3, <2>2, <1>1 DEF Schema!Goes, Schema!IInv, Schema!TypeOK, Schema!Records
      <4> QED
        BY <1>4, <4>1
    <3> QED
      BY <3>1 DEF Schema!Gap
  <2> QED
    BY <1>3, <2>1, <2>2
<1>12. \A j \in s1' : j # i =>
         /\ j \in s1 /\ s2'[j] = s2[j] /\ (j \in s8 => j \in s8')
         /\ (j \in s3' => j \in s3) /\ s5[c].id # j
  BY <1>2, <1>4, <1>6 DEF Schema!IInv, Schema!TypeOK
<1>13. \A j \in Ids : s2'[j] = {} \/ (s2'[j] = s2[j] /\ s7[j] \subseteq s7'[j])
  BY <1>6
<1>14. r.at \notin {"stamp", "bootstrap", "ok"}
  BY <1>3
<1> QED
  BY <1>1, <1>3, <1>6, <1>7, <1>8, <1>9, <1>10, <1>11, <1>12, <1>13, <1>14,
     SchemaCallMoves

LEMMA InsertKeeps ==
    ASSUME Schema!IInv, NEW c \in Requests, Schema!InsertTables(c)
    PROVE  Schema!IInv'
<1>1. /\ s5[c] \in Schema!Records /\ Schema!CallFits(c) /\ Schema!QuietFits(c)
      /\ s5[c].at = "insert" /\ Schema!Running(c)
  BY DEF Schema!InsertTables, Schema!Running, Schema!Awaits, Schema!IInv, Schema!TypeOK
<1>2. PICK i \in s6, T \in SUBSET SchemaTables : i = s5[c].id /\ T = s5[c].tables
  BY <1>1 DEF Schema!CallFits, Schema!Records
<1>3. PICK r \in Schema!Records :
             /\ s5' = [s5 EXCEPT ![c] = r] /\ s5'[c] = r
             /\ r.id = s5[c].id /\ r.kind = s5[c].kind
             /\ \/ Schema!Goes(c, "stamp") /\ r.at = "stamp" /\ r.tables = s5[c].tables
                   /\ r.quiet = s5[c].quiet
                \/ Schema!GiveUp(c) /\ r.at = "error" /\ ~r.quiet
  BY Continued DEF Schema!InsertTables, Schema!Awaits
<1>4. /\ s2' = [s2 EXCEPT ![i] = @ \union T] /\ s2[i] \cap T = {} /\ i \in s1
      /\ UNCHANGED <<s1, s3, s4, s6, s7>> /\ s8' = s8 \ {i}
  BY <1>2 DEF Schema!InsertTables
<1>5. i \in Ids /\ T # {} /\ T \in s7[i]
  BY <1>1, <1>2 DEF Schema!CallFits, Schema!IInv, Schema!TypeOK
<1>6. /\ s2' \in [Ids -> SUBSET SchemaTables] /\ s2'[i] = s2[i] \union T
      /\ \A j \in Ids : j # i => s2'[j] = s2[j]
  BY <1>4, <1>5 DEF Schema!IInv, Schema!TypeOK
<1>7. /\ s6 \subseteq s6' /\ s6' \subseteq Ids
      /\ s1' \subseteq s6' /\ s3' \subseteq s1' /\ Schema!RowsAreOfConnections'
      /\ s7' \in [Ids -> SUBSET SUBSET SchemaTables] /\ s7' = s7
  BY <1>4, <1>6 DEF Schema!IInv, Schema!TypeOK, Schema!RowsAreOfConnections
<1>8. ASSUME NEW d \in Requests, s5[d].at \in {"clear", "insert"}
      PROVE  s5[d].tables \in s7'[s5[d].id]
  BY <1>7, <1>8 DEF Schema!IInv, Schema!CallFits
<1>9. Schema!CallFits(c)'
  BY <1>1, <1>2, <1>3, <1>4 DEF Schema!CallFits
<1>10. r.quiet => /\ s5[c].quiet /\ r.at = "stamp"
                  /\ s2'[r.id] = r.tables /\ r.tables # {} /\ r.id \in s1'
  BY <1>1, <1>2, <1>3, <1>4, <1>5, <1>6 DEF Schema!QuietFits
<1>11. Schema!Whole(i)'
  <2>1. PICK S \in SUBSET s7[i] :
          s2[i] = UNION S /\ \A A, B \in S : A = B \/ A \cap B = {}
    BY <1>5 DEF Schema!IInv, Schema!SchemasStayWhole, Schema!Whole
  <2> DEFINE R == S \union {T}
  <2>2. R \in SUBSET s7'[i] /\ s2'[i] = UNION R
    BY <1>5, <1>6, <1>7, <2>1
  <2>3. ASSUME NEW A \in R, NEW B \in R, A # B PROVE A \cap B = {}
    <3>1. \A C \in S : C \cap T = {}
      BY <1>4, <2>1
    <3> QED
      BY <2>1, <2>3, <3>1
  <2> HIDE DEF R
  <2> QED
    BY <2>2, <2>3 DEF Schema!Whole
<1>12. Schema!Gap(i)'
  BY <1>5, <1>6 DEF Schema!Gap
<1>13. \A j \in s1' : j # i =>
         /\ j \in s1 /\ s2'[j] = s2[j] /\ (j \in s8 => j \in s8')
         /\ (j \in s3' => j \in s3) /\ s5[c].id # j /\ r.id # j
  BY <1>2, <1>3, <1>4, <1>6 DEF Schema!IInv, Schema!TypeOK
<1>14. \A j \in Ids : \/ s2'[j] = s2[j] /\ s7[j] \subseteq s7'[j]
                      \/ Schema!Whole(j)'
  BY <1>6, <1>7, <1>11
<1>15. r.at \in {"stamp", "error"}
  BY <1>3
<1> QED
  BY <1>1, <1>3, <1>6, <1>7, <1>8, <1>9, <1>10, <1>12, <1>13, <1>14, <1>15,
     SchemaCallMoves

LEMMA StampKeeps ==
    ASSUME Schema!IInv, NEW c \in Requests, Schema!UpdateSchemaCachedAt(c)
    PROVE  Schema!IInv'
<1>1. /\ s5[c] \in Schema!Records /\ Schema!CallFits(c) /\ Schema!QuietFits(c)
      /\ s5[c].at = "stamp" /\ Schema!Running(c) /\ s5[c].kind # "delete"
  BY DEF Schema!UpdateSchemaCachedAt, Schema!Running, Schema!Awaits, Schema!IInv,
         Schema!TypeOK, Schema!CallFits
<1>2. PICK i \in s6 : i = s5[c].id
  BY <1>1 DEF Schema!CallFits
<1>3. PICK at \in {"bootstrap", "ok"} :
        /\ Schema!Goes(c, at) \/ Schema!GiveUp(c)
        /\ at = "bootstrap" <=> s5[c].kind = "create"
  BY DEF Schema!UpdateSchemaCachedAt
<1>4. PICK r \in Schema!Records :
             /\ s5' = [s5 EXCEPT ![c] = r] /\ s5'[c] = r
             /\ r.id = s5[c].id /\ r.kind = s5[c].kind
             /\ \/ Schema!Goes(c, at) /\ r.at = at /\ r.tables = s5[c].tables /\ r.quiet = s5[c].quiet
                \/ Schema!GiveUp(c) /\ r.at = "error" /\ ~r.quiet
  BY <1>3, Continued DEF Schema!Awaits
<1>5. /\ s3' = s3 \union ({i} \cap s1)
      /\ UNCHANGED <<s1, s2, s4, s6, s7, s8>>
  BY <1>2 DEF Schema!UpdateSchemaCachedAt, Schema!historyVars
<1>6. /\ s2' \in [Ids -> SUBSET SchemaTables] /\ s6 \subseteq s6' /\ s6' \subseteq Ids
      /\ s1' \subseteq s6' /\ s3' \subseteq s1' /\ Schema!RowsAreOfConnections'
      /\ s7' \in [Ids -> SUBSET SUBSET SchemaTables] /\ s7' = s7
  BY <1>5 DEF Schema!IInv, Schema!TypeOK, Schema!RowsAreOfConnections
<1>7. ASSUME NEW d \in Requests, s5[d].at \in {"clear", "insert"}
      PROVE  s5[d].tables \in s7'[s5[d].id]
  BY <1>6, <1>7 DEF Schema!IInv, Schema!CallFits
<1>8. Schema!CallFits(c)'
  BY <1>1, <1>3, <1>4, <1>5 DEF Schema!CallFits
<1>9. r.quiet => /\ s5[c].quiet /\ r.at \in {"bootstrap", "ok"}
                 /\ s2'[r.id] = r.tables /\ r.tables # {} /\ r.id \in s1'
                 /\ r.id \in s3'
  BY <1>1, <1>2, <1>3, <1>4, <1>5 DEF Schema!QuietFits
<1>10. \A j \in s1' :
         /\ j \in s1 /\ s2'[j] = s2[j] /\ (j \in s8 => j \in s8')
         /\ (j \in s3' => j \in s3 \/ s5[c].id = j)
  BY <1>2, <1>5
<1>11. \A j \in Ids : s2'[j] = s2[j] /\ s7[j] \subseteq s7'[j]
  BY <1>5
<1>12. r.at \in {"bootstrap", "ok", "error"} /\ r.kind # "delete"
  BY <1>1, <1>3, <1>4
<1> QED
  BY <1>1, <1>4, <1>6, <1>7, <1>8, <1>9, <1>10, <1>11, <1>12, SchemaCallMoves

LEMMA BootstrapKeeps ==
    ASSUME Schema!IInv, NEW c \in Requests, Schema!Bootstrap(c)
    PROVE  Schema!IInv'
<1>1. /\ s5[c] \in Schema!Records /\ Schema!CallFits(c) /\ Schema!QuietFits(c)
      /\ s5[c].at = "bootstrap" /\ Schema!Running(c) /\ s5[c].kind = "create"
  BY DEF Schema!Bootstrap, Schema!Running, Schema!Awaits, Schema!IInv, Schema!TypeOK,
         Schema!CallFits
<1>2. PICK r \in Schema!Records :
             /\ s5' = [s5 EXCEPT ![c] = r] /\ s5'[c] = r
             /\ r.id = s5[c].id /\ r.kind = s5[c].kind
             /\ \/ Schema!Goes(c, "ok") /\ r.at = "ok" /\ r.tables = s5[c].tables /\ r.quiet = s5[c].quiet
                \/ Schema!GiveUp(c) /\ r.at = "error" /\ ~r.quiet
  BY Continued DEF Schema!Bootstrap
<1>3. UNCHANGED <<s1, s2, s3, s6, s7, s8>>
  BY DEF Schema!Bootstrap, Schema!historyVars
<1>4. /\ s2' \in [Ids -> SUBSET SchemaTables] /\ s6 \subseteq s6' /\ s6' \subseteq Ids
      /\ s1' \subseteq s6' /\ s3' \subseteq s1' /\ Schema!RowsAreOfConnections'
      /\ s7' \in [Ids -> SUBSET SUBSET SchemaTables] /\ s7' = s7
  BY <1>3 DEF Schema!IInv, Schema!TypeOK, Schema!RowsAreOfConnections
<1>5. ASSUME NEW d \in Requests, s5[d].at \in {"clear", "insert"}
      PROVE  s5[d].tables \in s7'[s5[d].id]
  BY <1>4, <1>5 DEF Schema!IInv, Schema!CallFits
<1>6. Schema!CallFits(c)'
  BY <1>1, <1>2, <1>3 DEF Schema!CallFits
<1>7. r.quiet => /\ s5[c].quiet /\ r.at = "ok"
                 /\ s2'[r.id] = r.tables /\ r.tables # {} /\ r.id \in s3'
  BY <1>1, <1>2, <1>3 DEF Schema!QuietFits
<1>8. r.at \in {"ok", "error"} /\ r.kind # "delete"
  BY <1>1, <1>2
<1> QED
  BY <1>1, <1>2, <1>3, <1>4, <1>5, <1>6, <1>7, <1>8, SchemaCallMoves

LEMMA DeleteKeeps ==
    ASSUME Schema!IInv, NEW c \in Requests, Schema!DeleteRow(c)
    PROVE  Schema!IInv'
<1>1. /\ s5[c] \in Schema!Records /\ Schema!CallFits(c) /\ s5[c].at = "delete" /\ Schema!Running(c)
      /\ s5[c].kind = "delete"
  BY DEF Schema!DeleteRow, Schema!Running, Schema!Awaits, Schema!IInv, Schema!TypeOK,
         Schema!CallFits
<1>2. PICK i \in s6 : i = s5[c].id
  BY <1>1 DEF Schema!CallFits
<1>3. PICK r \in Schema!Records :
             /\ s5' = [s5 EXCEPT ![c] = r] /\ s5'[c] = r
             /\ r.id = s5[c].id /\ r.kind = s5[c].kind
             /\ \/ Schema!Goes(c, "ok") /\ r.at = "ok" /\ r.tables = s5[c].tables /\ r.quiet = s5[c].quiet
                \/ Schema!GiveUp(c) /\ r.at = "error" /\ ~r.quiet
  BY Continued DEF Schema!DeleteRow
<1>4. /\ s1' = s1 \ {i} /\ s2' = [s2 EXCEPT ![i] = {}]
      /\ s3' = s3 \ {i} /\ s8' = s8 \ {i} /\ UNCHANGED <<s6, s7>>
  BY <1>2 DEF Schema!DeleteRow
<1>5. /\ s2' \in [Ids -> SUBSET SchemaTables] /\ s2'[i] = {}
      /\ \A j \in Ids : j # i => s2'[j] = s2[j]
  BY <1>4 DEF Schema!IInv, Schema!TypeOK
<1>6. /\ s6 \subseteq s6' /\ s6' \subseteq Ids
      /\ s1' \subseteq s6' /\ s3' \subseteq s1' /\ Schema!RowsAreOfConnections'
      /\ s7' \in [Ids -> SUBSET SUBSET SchemaTables] /\ s7' = s7
  BY <1>4, <1>5 DEF Schema!IInv, Schema!TypeOK, Schema!RowsAreOfConnections
<1>7. ASSUME NEW d \in Requests, s5[d].at \in {"clear", "insert"}
      PROVE  s5[d].tables \in s7'[s5[d].id]
  BY <1>6, <1>7 DEF Schema!IInv, Schema!CallFits
<1>8. Schema!CallFits(c)'
  BY <1>1, <1>3, <1>4 DEF Schema!CallFits
<1>9. r.quiet => s5[c].quiet /\ r.at = "ok" /\ r.id \notin s1' /\ s2'[r.id] = {}
  BY <1>2, <1>3, <1>4, <1>5
<1>10. \A j \in s1' :
         /\ j \in s1 /\ s2'[j] = s2[j] /\ (j \in s8 => j \in s8')
         /\ (j \in s3' => j \in s3)
  BY <1>4, <1>5 DEF Schema!IInv, Schema!TypeOK
<1>11. \A j \in Ids : s2'[j] = {} \/ (s2'[j] = s2[j] /\ s7[j] \subseteq s7'[j])
  BY <1>5, <1>6
<1>12. r.at \in {"ok", "error"} /\ r.kind = "delete"
  BY <1>1, <1>3
<1> QED
  BY <1>1, <1>3, <1>5, <1>6, <1>7, <1>8, <1>9, <1>10, <1>11, <1>12, SchemaCallMoves

LEMMA FailsKeeps ==
    ASSUME Schema!IInv, NEW c \in Requests, Schema!Fails(c)
    PROVE  Schema!IInv'
<1>1. /\ Schema!Running(c) /\ Schema!GiveUp(c) /\ UNCHANGED <<Schema!metaVars, s6, s7>> /\ s8 \subseteq s8'
      /\ s5[c].at = "insert" => s5[c].id \in s8' \/ s5[c].id \notin s1
  BY DEF Schema!Fails
<1> QED
  BY <1>1, GiveUpKeeps

LEMMA SchemaStep == Schema!IInv /\ [Schema!Next]_(Schema!vars) => Schema!IInv'
<1> SUFFICES ASSUME Schema!IInv, [Schema!Next]_(Schema!vars) PROVE Schema!IInv'
  OBVIOUS
<1>1. ASSUME NEW c \in Requests, Schema!Request(c) PROVE Schema!IInv'
  <2>1. CASE Schema!CreateConnection(c)
    BY <2>1, StartKeeps DEF Schema!CreateConnection
  <2>2. CASE Schema!SyncConnectionSchema(c)
    BY <2>2, StartKeeps DEF Schema!SyncConnectionSchema
  <2>3. CASE Schema!DeleteConnection(c)
    BY <2>3, StartKeeps DEF Schema!DeleteConnection
  <2> QED
    BY <1>1, <2>1, <2>2, <2>3 DEF Schema!Request
<1>2. ASSUME NEW c \in Requests, Schema!Step(c) PROVE Schema!IInv'
  BY <1>2, FindKeeps, FetchKeeps, InsertConnectionKeeps, ClearKeeps, InsertKeeps,
     StampKeeps,
     BootstrapKeeps, DeleteKeeps, FailsKeeps DEF Schema!Step
<1>3. CASE UNCHANGED Schema!vars
  BY <1>3 DEF Schema!vars, Schema!metaVars, Schema!historyVars, Schema!IInv,
              Schema!TypeOK, Schema!RowsAreOfConnections, Schema!CallFits,
                 Schema!QuietFits,
     Schema!Running, Schema!StampedHaveRows, Schema!Gap, Schema!SchemasStayWhole,
        Schema!Whole, Schema!QuietCallIsExact
<1> QED
  BY <1>1, <1>2, <1>3 DEF Schema!Next

LEMMA SchemaTells == Schema!IInv => Schema!SchemasStayWhole /\ Schema!EmptyHasCause /\ Schema!QuietCallIsExact
BY DEF Schema!IInv, Schema!TypeOK, Schema!EmptyHasCause, Schema!StampedHaveRows,
       Schema!Gap

\* replaceTables deletes and inserts in transactions apart: overlapping syncs, a
\* deletion or a failure leave whole schemas, a gap with a cause, or exactly what
\* an undisturbed request found.
THEOREM CacheAlwaysSound == ServerSpec => []CachedSchemaIsSound
<1> DEFINE Holds == part = "schema" => Schema!IInv
<1>1. ServerInit => Holds
  BY SchemaInit DEF ServerInit
<1>2. Holds /\ [ServerNext]_<<part, vars, state>> => Holds'
  BY SchemaStep DEF ServerNext, state, Schema!vars, Schema!metaVars, Schema!historyVars
<1>3. Holds => CachedSchemaIsSound
  BY SchemaTells DEF CachedSchemaIsSound
<1> QED
  BY <1>1, <1>2, <1>3, PTL DEF ServerSpec

-----------------------------------------------------------------------------
(* The columns in the browser: s1 is target, s2 cache, s3 readable, s4 page, s5 *)
(* inSync and s6 fresh.                                                         *)

\* What is read and given out stays as it is as long as its source does.
LEMMA MetaStep == (Meta!Init => Meta!IInv) /\ (Meta!IInv /\ [Meta!Next]_(Meta!vars) => Meta!IInv')
<1>1. Meta!Init => Meta!IInv
  BY DEF Meta!Init, Meta!IInv
<1>2. ASSUME Meta!IInv, Meta!Next PROVE Meta!IInv'
  <2>1. CASE Meta!Migrate
    BY <1>2, <2>1 DEF Meta!Migrate, Meta!IInv, Meta!getAccessible
  <2>2. CASE Meta!Sync
    BY <1>2, <2>2 DEF Meta!Sync, Meta!IInv, Meta!getAccessible, Meta!fetchSchemaViaRest
  <2>3. CASE Meta!PermissionsChange
    BY <1>2, <2>3
       DEF Meta!PermissionsChange, Meta!IInv, Meta!getAccessible,
           Meta!fetchSchemaViaRest
  <2>4. ASSUME NEW t \in MetaTables, Meta!OpenTable(t) PROVE Meta!IInv'
    BY <1>2, <2>4
       DEF Meta!OpenTable, Meta!IInv, Meta!getAccessible, Meta!fetchSchemaViaRest
  <2>5. CASE Meta!Leave
    BY <1>2, <2>5 DEF Meta!Leave, Meta!IInv, Meta!getAccessible, Meta!fetchSchemaViaRest
  <2> QED
    BY <1>2, <2>1, <2>2, <2>3, <2>4, <2>5 DEF Meta!Next, Meta!FollowBanner
<1>3. ASSUME Meta!IInv, UNCHANGED Meta!vars PROVE Meta!IInv'
  BY <1>3 DEF Meta!IInv, Meta!vars, Meta!getAccessible, Meta!fetchSchemaViaRest
<1> QED
  BY <1>1, <1>2, <1>3

\* What the invariant says of keys and of columns.
LEMMA MetaTells == Meta!IInv => Meta!CachedKeysAreReal /\ Meta!PageHasTheColumns
<1> SUFFICES ASSUME Meta!IInv, s5 PROVE Meta!CachedKeysAreReal /\ Meta!PageHasTheColumns
  BY DEF Meta!CachedKeysAreReal, Meta!PageHasTheColumns
<1>1. /\ DOMAIN s2 = MetaTables \ HiddenMeta
      /\ \A t \in MetaTables \ HiddenMeta : s2[t] = {Meta!Cached(col) : col \in s1[t]}
  BY DEF Meta!IInv, Meta!fetchSchemaViaRest
<1>2. Meta!CachedKeysAreReal
  <2>1. ASSUME NEW col, col.fk # "none" PROVE Meta!Cached(col).foreign_key = {col.fk}
    BY <2>1 DEF Meta!Cached, Meta!parseForeignKey
  <2> QED
    BY <1>1, <2>1 DEF Meta!CachedKeysAreReal
<1>3. Meta!PageHasTheColumns
  <2> SUFFICES ASSUME s6, NEW p \in s4, NEW t \in MetaTables \ HiddenMeta
               PROVE  {<<col.name, col.data_type>> : col \in p.tables[t]}
                        = {<<col.name, col.data_type>> : col \in s1[t]}
    BY DEF Meta!PageHasTheColumns
  <2>1. p.tables[t] = {Meta!columnMeta(col) : col \in s2[t]}
    BY <1>1 DEF Meta!IInv, Meta!getAccessible
  <2>2. ASSUME NEW col
        PROVE  /\ Meta!Cached(col).name = col.name /\ Meta!Cached(col).data_type = col.data_type
               /\ Meta!columnMeta(col).name = col.name /\ Meta!columnMeta(col).data_type = col.data_type
    BY DEF Meta!Cached, Meta!columnMeta
  <2>3. {<<col.name, col.data_type>> : col \in p.tables[t]}
          = {<<col.name, col.data_type>> : col \in s2[t]}
    BY <2>1, <2>2
  <2>4. {<<col.name, col.data_type>> : col \in s2[t]}
          = {<<col.name, col.data_type>> : col \in s1[t]}
    BY <1>1, <2>2
  <2> QED
    BY <2>3, <2>4
<1> QED
  BY <1>2, <1>3

\* The introspection takes a column's tag before its comment, the contract drops
\* foreign keys and keeps names and types: what is cached and shown is real.
THEOREM MetaAlwaysReal == ServerSpec => []MetaIsReal
<1> DEFINE Holds == part = "keys" => Meta!IInv
<1>1. ServerInit => Holds
  BY MetaStep DEF ServerInit
<1>2. Holds /\ [ServerNext]_<<part, vars, state>> => Holds'
  BY MetaStep DEF ServerNext, state, Meta!vars
<1>3. Holds => MetaIsReal
  BY MetaTells DEF MetaIsReal
<1> QED
  BY <1>1, <1>2, <1>3, PTL DEF ServerSpec

=============================================================================
