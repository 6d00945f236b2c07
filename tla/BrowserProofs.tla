----------------------------- MODULE BrowserProofs -----------------------------
(*****************************************************************************)
(* Proofs about the pages and dialogs of the browser, for every value of the *)
(* constants.  Each part is an instance that keeps its variables in s1 to    *)
(* s15; its inductive invariant is stated in its own module, where TLC       *)
(* checks it.  A behaviour of Browser is one of a single part, so that the   *)
(* part's invariant holds of it as long as the others leave it alone.        *)
(*****************************************************************************)
EXTENDS Browser, FiniteSetTheorems, TLAPS

\* A query that was not cancelled is told by what it is of.
LEMMA SameQuery ==
    ASSUME NEW S, NEW f \in [of : S, cancelled : BOOLEAN], NEW g \in [of : S, cancelled : BOOLEAN],
           f.of = g.of, ~f.cancelled, ~g.cancelled
    PROVE  f = g
OBVIOUS

-----------------------------------------------------------------------------
(* The list of connections and its dialogs: s4 is active, s5 rls, s6 setup,  *)
(* s7 secret, s8 pending and s9 overlapped.                                  *)

LEMMA ListInit == ASSUME L!Init PROVE L!IInv
BY DEF L!Init, L!IInv, L!Ids, L!PatientAppliesShown, L!SecretGoesWithDialog

LEMMA ListCloses == ASSUME L!Closed PROVE L!IInv'
BY DEF L!Closed, L!IInv, L!Ids, L!PatientAppliesShown, L!SecretGoesWithDialog

\* A button sends one more request, and only one who does not wait a second one.
LEMMA ListSends ==
    ASSUME L!IInv, NEW kind, NEW c, L!Send(kind, c), UNCHANGED <<s5, s7>>,
           kind \in {"reveal", "rotate"} => c \in Connections,
           kind \in L!SetupRequests => ~s6.loading,
           c \in L!Ids, s4' \in L!Ids, s6' \in [open : BOOLEAN, loading : BOOLEAN, sql : L!Ids],
           s6'.loading <=> s6.loading \/ kind \in L!SetupRequests,
           s4' = s4 \/ ~s5.open, kind = "preview" => s4' = c
    PROVE  L!IInv'
<1> DEFINE r == [kind |-> kind, id |-> c]
<1>1. s8' = s8 \union {r} /\ s9' = (s9 \/ s8 # {})
  BY DEF L!Send
<1>2. r.kind = kind /\ r.id = c
  OBVIOUS
<1> HIDE DEF r
<1>3. \A p, o \in {p \in s8' : p.kind \in L!SetupRequests} : p = o
  BY <1>1, <1>2 DEF L!IInv
<1>4. s6'.loading <=> \E p \in s8' : p.kind \in L!SetupRequests
  BY <1>1, <1>2 DEF L!IInv
<1>5. ~s9' => s8' = {r}
  BY <1>1
<1>6. L!PatientAppliesShown' /\ L!SecretGoesWithDialog'
  BY <1>1 DEF L!IInv, L!PatientAppliesShown, L!SecretGoesWithDialog
<1> QED
  BY <1>1, <1>2, <1>3, <1>4, <1>5, <1>6 DEF L!IInv

\* An answer takes its request away; the one for setup ends the loading.
LEMMA ListReceives ==
    ASSUME L!IInv, NEW r \in s8, L!Received(r), UNCHANGED s4,
           s5' \in [open : BOOLEAN, sql : L!Ids],
           s6' \in [open : BOOLEAN, loading : BOOLEAN, sql : L!Ids],
           s6'.loading <=> s6.loading /\ r.kind \notin L!SetupRequests,
           L!PatientAppliesShown', L!SecretGoesWithDialog'
    PROVE  L!IInv'
<1>1. s8' = s8 \ {r} /\ UNCHANGED s9
  BY DEF L!Received
<1>2. s6'.loading <=> \E p \in s8' : p.kind \in L!SetupRequests
  BY <1>1 DEF L!IInv
<1> QED
  BY <1>1, <1>2 DEF L!IInv

LEMMA ListStep == ASSUME L!IInv, L!Next \/ UNCHANGED L!vars PROVE L!IInv'
<1>1. CASE L!Elsewhere \/ L!Open \/ L!CollectGarbage \/ UNCHANGED L!vars
  <2>1. UNCHANGED <<s4, s5, s6, s7, s8, s9>>
    BY <1>1 DEF L!Elsewhere, L!Open, L!CollectGarbage, L!vars, L!dialogs
  <2> QED
    BY <2>1 DEF L!IInv, L!PatientAppliesShown, L!SecretGoesWithDialog
<1>2. CASE L!Leave \/ L!Reload
  BY <1>2, ListCloses DEF L!Leave, L!Reload
<1>3. ASSUME NEW c \in Connections, NEW kind \in {"sync", "delete", "reveal", "rotate"},
             L!Press(kind, c)
      PROVE  L!IInv'
  <2>1. L!Send(kind, c) /\ UNCHANGED <<s4, s5, s6, s7>>
    BY <1>3 DEF L!Press, L!dialogs
  <2>2. kind \notin L!SetupRequests /\ kind # "preview" /\ c \in L!Ids
    BY DEF L!SetupRequests, L!Ids
  <2> QED
    BY <2>1, <2>2, ListSends DEF L!IInv
<1>4. ASSUME NEW c \in Connections, L!PreviewRls(c) PROVE L!IInv'
  <2>1. L!Send("preview", c) /\ UNCHANGED <<s5, s6, s7>> /\ s4' = c /\ ~s5.open
    BY <1>4 DEF L!PreviewRls, L!Listed, L!Modal
  <2>2. "preview" \notin L!SetupRequests /\ c \in L!Ids
    BY DEF L!SetupRequests, L!Ids
  <2> QED
    BY <2>1, <2>2, ListSends DEF L!IInv
<1>5. ASSUME NEW c \in Connections, L!OpenSetup(c) PROVE L!IInv'
  <2>1. /\ UNCHANGED <<s5, s7, s8>> /\ s4' = c /\ ~s5.open
        /\ s6' = [s6 EXCEPT !.open = TRUE] /\ s9' = (s9 \/ s8 # {})
        /\ s4' \in L!Ids
    BY <1>5 DEF L!OpenSetup, L!Listed, L!Modal, L!Ids
  <2>2. s6' \in [open : BOOLEAN, loading : BOOLEAN, sql : L!Ids] /\ s6'.loading = s6.loading
    BY <2>1 DEF L!IInv
  <2> QED
    BY <2>1, <2>2 DEF L!IInv, L!PatientAppliesShown, L!SecretGoesWithDialog
<1>6. CASE L!ApplyRls
  <2>1. L!Send("apply", s4) /\ UNCHANGED <<s4, s5, s6, s7>>
    BY <1>6 DEF L!ApplyRls, L!dialogs
  <2>2. "apply" \notin L!SetupRequests
    BY DEF L!SetupRequests
  <2> QED
    BY <2>1, <2>2, ListSends DEF L!IInv
<1>7. ASSUME NEW kind \in L!SetupRequests, L!PressInSetup(kind) PROVE L!IInv'
  <2>1. /\ L!Send(kind, s4) /\ UNCHANGED <<s4, s5, s7>> /\ ~s6.loading
        /\ s6' = [s6 EXCEPT !.loading = TRUE]
    BY <1>7 DEF L!PressInSetup
  <2>2. kind \notin {"reveal", "rotate", "preview"}
    BY DEF L!SetupRequests
  <2>3. s6' \in [open : BOOLEAN, loading : BOOLEAN, sql : L!Ids] /\ s6'.loading
    BY <2>1 DEF L!IInv
  <2> QED
    BY <2>1, <2>2, <2>3, ListSends DEF L!IInv
<1>8. CASE L!CloseDialog
  <2>1. UNCHANGED <<s4, s8, s9>>
    BY <1>8 DEF L!CloseDialog
  <2>2. CASE s5' = [s5 EXCEPT !.open = FALSE] /\ UNCHANGED <<s6, s7>>
    <3>1. s5' \in [open : BOOLEAN, sql : L!Ids] /\ ~s5'.open
      BY <2>2 DEF L!IInv
    <3> QED
      BY <2>1, <2>2, <3>1 DEF L!IInv, L!PatientAppliesShown, L!SecretGoesWithDialog
  <2>3. CASE s6' = [s6 EXCEPT !.open = FALSE] /\ UNCHANGED <<s5, s7>>
    <3>1. /\ s6' \in [open : BOOLEAN, loading : BOOLEAN, sql : L!Ids]
          /\ s6'.loading = s6.loading
      BY <2>3 DEF L!IInv
    <3> QED
      BY <2>1, <2>3, <3>1 DEF L!IInv, L!PatientAppliesShown, L!SecretGoesWithDialog
  <2>4. CASE s7' = [open |-> FALSE, value |-> L!None] /\ UNCHANGED <<s5, s6>>
    BY <2>1, <2>4 DEF L!IInv, L!PatientAppliesShown, L!SecretGoesWithDialog
  <2> QED
    BY <1>8, <2>2, <2>3, <2>4 DEF L!CloseDialog
<1>9. ASSUME NEW r \in s8, L!Answer(r) PROVE L!IInv'
  <2>1. L!Received(r) /\ r.kind \notin L!SetupRequests /\ UNCHANGED <<s4, s6>>
    BY <1>9 DEF L!Answer, L!dialogs, L!SetupRequests
  <2>2. CASE UNCHANGED <<s5, s7>>
    <3>1. L!PatientAppliesShown' /\ L!SecretGoesWithDialog'
      BY <2>1, <2>2
         DEF L!Received, L!IInv, L!PatientAppliesShown, L!SecretGoesWithDialog
    <3> QED
      BY <2>1, <2>2, <3>1, ListReceives DEF L!IInv
  <2>3. CASE r.kind = "preview" /\ s5' = [open |-> TRUE, sql |-> r.id] /\ UNCHANGED s7
    <3>1. s5' \in [open : BOOLEAN, sql : L!Ids] /\ s5'.sql = r.id
      BY <2>3 DEF L!IInv
    <3>2. L!PatientAppliesShown' /\ L!SecretGoesWithDialog'
      BY <2>1, <2>3, <3>1
         DEF L!Received, L!IInv, L!PatientAppliesShown, L!SecretGoesWithDialog
    <3> QED
      BY <2>1, <3>1, <3>2, ListReceives DEF L!IInv
  <2>4. CASE s5' = [s5 EXCEPT !.open = FALSE] /\ UNCHANGED s7
    <3>1. s5' \in [open : BOOLEAN, sql : L!Ids] /\ ~s5'.open
      BY <2>4 DEF L!IInv
    <3>2. L!PatientAppliesShown' /\ L!SecretGoesWithDialog'
      BY <2>1, <2>4, <3>1 DEF L!IInv, L!PatientAppliesShown, L!SecretGoesWithDialog
    <3> QED
      BY <2>1, <3>1, <3>2, ListReceives DEF L!IInv
  <2>5. CASE /\ r.kind \in {"reveal", "rotate"} /\ UNCHANGED s5
             /\ s7' = [open |-> TRUE, value |-> r.id]
    <3>1. r.id # L!None
      BY <2>5, ListAssumption DEF L!IInv, L!None
    <3>2. L!PatientAppliesShown' /\ L!SecretGoesWithDialog'
      BY <2>1, <2>5, <3>1
         DEF L!Received, L!IInv, L!PatientAppliesShown, L!SecretGoesWithDialog
    <3> QED
      BY <2>1, <2>5, <3>2, ListReceives DEF L!IInv
  <2> QED
    BY <1>9, <2>2, <2>3, <2>4, <2>5 DEF L!Answer, L!dialogs
<1>10. ASSUME NEW r \in s8, L!ProbeAnswer(r) PROVE L!IInv'
  <2>1. L!Received(r) /\ r.kind \in L!SetupRequests /\ UNCHANGED <<s4, s5, s7>>
    BY <1>10 DEF L!ProbeAnswer, L!SetupRequests
  <2>2. s6' \in [open : BOOLEAN, loading : BOOLEAN, sql : L!Ids] /\ ~s6'.loading
    BY <1>10 DEF L!ProbeAnswer, L!IInv
  <2>3. L!PatientAppliesShown' /\ L!SecretGoesWithDialog'
    BY <2>1 DEF L!Received, L!IInv, L!PatientAppliesShown, L!SecretGoesWithDialog
  <2> QED
    BY <2>1, <2>2, <2>3, ListReceives DEF L!IInv
<1>11. ASSUME NEW r \in s8, L!VerifyAnswer(r) PROVE L!IInv'
  BY <1>11, ListCloses DEF L!VerifyAnswer
<1>12. ASSUME NEW r \in s8, L!AnswerFails(r) PROVE L!IInv'
  <2>1. /\ L!Received(r) /\ UNCHANGED <<s4, s5, s7>>
        /\ s6'.loading <=> s6.loading /\ r.kind \notin L!SetupRequests
        /\ s6' \in [open : BOOLEAN, loading : BOOLEAN, sql : L!Ids]
    BY <1>12 DEF L!AnswerFails, L!IInv
  <2>2. L!PatientAppliesShown' /\ L!SecretGoesWithDialog'
    BY <2>1 DEF L!Received, L!IInv, L!PatientAppliesShown, L!SecretGoesWithDialog
  <2> QED
    BY <2>1, <2>2, ListReceives DEF L!IInv
<1> QED
  BY <1>1, <1>2, <1>3, <1>4, <1>5, <1>6, <1>7, <1>8, <1>9, <1>10, <1>11, <1>12
     DEF L!Next, L!User, L!Answers

\* A set without two members has one or none.
LEMMA OneOrNone ==
    ASSUME NEW S, \A a, b \in S : a = b
    PROVE  Cardinality(S) = IF S = {} THEN 0 ELSE 1
<1>1. CASE S = {}
  BY <1>1, FS_EmptySet
<1>2. CASE S # {}
  <2>1. PICK a : S = {a}
    BY <1>2
  <2> QED
    BY <1>2, <2>1, FS_Singleton
<1> QED
  BY <1>1, <1>2

LEMMA ListTells ==
    ASSUME L!IInv
    PROVE  L!PatientAppliesShown /\ L!SecretGoesWithDialog /\ L!LoadingIsOneRequest
<1> DEFINE asked == {r \in s8 : r.kind \in L!SetupRequests}
<1>1. \A r, o \in asked : r = o
  BY DEF L!IInv
<1>2. Cardinality(asked) = IF asked = {} THEN 0 ELSE 1
  BY <1>1, OneOrNone
<1>3. asked = {} <=> ~s6.loading
  BY DEF L!IInv
<1> QED
  <2>1. \A S : L!Cardinality(S) = Cardinality(S)
    BY DEF L!Cardinality, Cardinality
  <2> QED
    BY <1>2, <1>3, <2>1 DEF L!IInv, L!LoadingIsOneRequest

\* The dialogs of the list: whoever waits for each answer applies the SQL that he
\* is shown, a secret is held while its dialog is open and no longer, and setup has
\* the one request under way that it says it has.
THEOREM DialogsAlwaysApart == Spec => []DialogsKeepApart
<1> DEFINE Holds == part = "list" => L!IInv
<1>1. Init => Holds
  BY ListInit DEF Init
<1>2. Holds /\ [Next]_<<part, state>> => Holds'
  BY ListStep DEF Next, state, L!vars, L!dialogs
<1>3. Holds => DialogsKeepApart
  BY ListTells DEF DialogsKeepApart
<1> QED
  BY <1>1, <1>2, <1>3, PTL DEF Spec

-----------------------------------------------------------------------------
(* The table of a Target: s1 is table, s2 mounted, s3 view, s4 shown,        *)
(* s6 loads, s7 form, s8 confirm, s9 statements and s10 overlapped.          *)

\* Two queries are the same up to the filter.
LEMMA SameIs ==
    ASSUME NEW q \in T!Queries, NEW r \in T!Queries
    PROVE  T!Same(q, r) <=> q.page = r.page /\ q.search = r.search /\ q.order = r.order
BY DEF T!Same, T!Queries

LEMMA ChangedIs ==
    ASSUME NEW q \in T!Queries
    PROVE  /\ \A f \in BOOLEAN : [q EXCEPT !.filter = f] \in T!Queries /\ T!Same([q EXCEPT !.filter = f], q)
           /\ [q EXCEPT !.search = ~@, !.page = 0] \in T!Queries
           /\ \A o \in {"asc", "desc"} : [q EXCEPT !.order = o, !.page = 0] \in T!Queries
           /\ [q EXCEPT !.page = @ + 1] \in T!Queries
           /\ q.page # 0 => [q EXCEPT !.page = @ - 1] \in T!Queries
<1>1. \A f \in BOOLEAN : [q EXCEPT !.filter = f] \in T!Queries /\ T!Same([q EXCEPT !.filter = f], q)
  BY DEF T!Queries, T!Same
<1>2. [q EXCEPT !.search = ~@, !.page = 0] \in T!Queries
  BY DEF T!Queries
<1>3. \A o \in {"asc", "desc"} : [q EXCEPT !.order = o, !.page = 0] \in T!Queries
  BY DEF T!Queries
<1>4. [q EXCEPT !.page = @ + 1] \in T!Queries /\ (q.page # 0 => [q EXCEPT !.page = @ - 1] \in T!Queries)
  BY DEF T!Queries
<1> QED
  BY <1>1, <1>2, <1>3, <1>4

LEMMA FirstIs == T!FirstQuery \in T!Queries
BY DEF T!FirstQuery, T!Queries

LEMMA TableInit == ASSUME T!Init PROVE T!IInv
<1>1. s4.query = T!FirstQuery /\ DOMAIN s4 = DOMAIN T!Mounted
  BY DEF T!Init, T!Mounted
<1> QED
  BY <1>1, FirstIs DEF T!Init, T!IInv, T!NoForm, T!Modal, T!Quiet

\* A page is of rows that the table has.
LEMMA PageExists == ASSUME NEW q PROVE T!Page(q) \subseteq s1
BY DEF T!Page, T!Found

LEMMA TableShows ==
    ASSUME T!IInv, NEW q \in T!Queries, T!Show(q) PROVE T!IInv'
<1>1. /\ s2 /\ UNCHANGED <<s1, s2, s4, s7, s8, s9, s11>>
      /\ s3' = q /\ s6' = s6 \union {q} /\ s10' = (s10 \/ ~T!Quiet)
  BY DEF T!Show, T!Load
<1>2. T!Same(q, q)
  BY SameIs
<1> QED
  BY <1>1, <1>2 DEF T!IInv, T!Quiet

\* A statement is begun with the query of the moment.
LEMMA TableBegins ==
    ASSUME T!IInv, NEW kind, NEW row, T!Begin(kind, row), T!Modal PROVE T!IInv'
<1> DEFINE s == [kind |-> kind, row |-> row, query |-> s3]
<1>1. /\ UNCHANGED <<s1, s2, s3, s7, s8, s4, s6, s11>>
      /\ s9' = s9 \union {s} /\ s10' = (s10 \/ ~T!Quiet)
  BY DEF T!Begin, T!controls
<1>2. s.query = s3 /\ T!Same(s3, s3)
  BY SameIs DEF T!IInv
<1> HIDE DEF s
<1> QED
  BY <1>1, <1>2 DEF T!IInv, T!Quiet

LEMMA TableStep == ASSUME T!IInv, T!Next \/ UNCHANGED T!vars PROVE T!IInv'
<1>1. CASE T!Mount
  <2>1. PICK filter \in Filters : s3' = [T!FirstQuery EXCEPT !.filter = filter] /\ T!Load(s3')
    BY <1>1 DEF T!Mount
  <2>2. s3' \in T!Queries /\ T!Same(s3', s3')
    BY <2>1, FirstIs, ChangedIs, SameIs, TableAssumption
  <2>3. s6' = {s3'} /\ s9 = {} /\ s2'
        /\ UNCHANGED <<s1, s4, s7, s8, s9, s10, s11>>
    BY <1>1, <2>1 DEF T!Mount, T!Load, T!IInv, T!Quiet
  <2> QED
    BY <2>2, <2>3 DEF T!IInv
<1>2. CASE T!Unmount
  <2>1. s4'.query = T!FirstQuery /\ DOMAIN s4' = DOMAIN T!Mounted
    BY <1>2 DEF T!Unmount, T!Mounted
  <2> QED
    BY <1>2, <2>1, FirstIs DEF T!Unmount, T!IInv, T!NoForm, T!Modal, T!Quiet
<1>3. CASE T!ChangeFilter
  <2>1. PICK filter \in Filters \ {s3.filter} : s3' = [s3 EXCEPT !.filter = filter]
    BY <1>3 DEF T!ChangeFilter
  <2>2. s3' \in T!Queries /\ T!Same(s3', s3)
    BY <2>1, ChangedIs, TableAssumption DEF T!IInv
  <2>3. \A q \in T!Queries : T!Same(q, s3) => T!Same(q, s3')
    BY <2>2, SameIs DEF T!IInv
  <2>4. s2 /\ UNCHANGED <<s1, s2, s4, s6, s7, s8, s9, s10, s11>>
    BY <1>3 DEF T!ChangeFilter
  <2> QED
    BY <2>2, <2>3, <2>4 DEF T!IInv
<1>4. CASE T!Others
  <2>1. s11' \in Nat /\ s11' # 0
        /\ UNCHANGED <<s2, s3, s7, s8, s4, s6, s9, s10>>
    BY <1>4 DEF T!Others, T!controls, T!IInv
  <2> QED
    BY <2>1 DEF T!IInv, T!Modal, T!Quiet
<1>5. CASE T!Search
  BY <1>5, TableShows, ChangedIs DEF T!Search, T!IInv
<1>6. CASE T!ToggleSort
  <2>1. PICK o \in (IF s3.order = "asc" THEN Orders ELSE {"asc"}) :
          T!Show([s3 EXCEPT !.order = o, !.page = 0])
    BY <1>6 DEF T!ToggleSort
  <2>2. o \in {"asc", "desc"}
    BY TableAssumption
  <2> QED
    BY <2>1, <2>2, TableShows, ChangedIs DEF T!IInv
<1>7. CASE T!PreviousPage \/ T!NextPage
  BY <1>7, TableShows, ChangedIs DEF T!PreviousPage, T!NextPage, T!IInv
<1>8. CASE T!OpenForm \/ T!CloseForm \/ T!OpenConfirm \/ T!CloseConfirm
  <2>1. UNCHANGED <<s1, s2, s3, s4, s6, s9, s10, s11>>
    BY <1>8 DEF T!OpenForm, T!CloseForm, T!OpenConfirm, T!CloseConfirm
  <2>2. s2
    BY <1>8 DEF T!OpenForm, T!CloseForm, T!OpenConfirm, T!CloseConfirm, T!RowShown,
                T!IInv, T!Modal
  <2> QED
    BY <2>1, <2>2 DEF T!IInv
<1>9. CASE T!Save
  BY <1>9, TableBegins DEF T!Save, T!Modal
<1>10. CASE T!Delete
  BY <1>10, TableBegins DEF T!Delete, T!Modal
<1>11. ASSUME NEW s \in s9, T!StatementDone(s) PROVE T!IInv'
  <2>1. s2 /\ s6' = s6 \union {s.query} /\ s9' = s9 \ {s}
        /\ UNCHANGED <<s2, s3, s4, s10, s11>>
    BY <1>11 DEF T!StatementDone, T!Load, T!IInv, T!Quiet
  <2> QED
    BY <2>1 DEF T!IInv
<1>12. ASSUME NEW s \in s9, T!StatementFails(s) PROVE T!IInv'
  <2>1. s2 /\ s9' = s9 \ {s}
        /\ UNCHANGED <<s1, s2, s3, s4, s6, s10, s11>>
    BY <1>12 DEF T!StatementFails, T!controls, T!IInv, T!Quiet
  <2> QED
    BY <2>1 DEF T!IInv
<1>13. ASSUME NEW q \in s6, T!Loaded(q) PROVE T!IInv'
  <2>1. s2 /\ s6' = s6 \ {q} /\ s4'.query = q /\ s4'.rows \subseteq s1
        /\ UNCHANGED <<s1, s2, s3, s9, s10, s11>>
    BY <1>13, PageExists DEF T!Loaded, T!controls, T!IInv, T!Quiet
  <2>2. DOMAIN s4' = DOMAIN T!Mounted
    BY <1>13 DEF T!Loaded, T!Mounted
  <2> QED
    BY <2>1, <2>2 DEF T!IInv
<1>14. ASSUME NEW q \in s6, T!LoadFails(q) PROVE T!IInv'
  <2>1. s2 /\ s6' = s6 \ {q} /\ s4' = [s4 EXCEPT !.failed = TRUE]
        /\ UNCHANGED <<s1, s2, s3, s9, s10, s11>>
    BY <1>14 DEF T!LoadFails, T!controls, T!IInv, T!Quiet
  <2>2. DOMAIN s4' = DOMAIN T!Mounted /\ s4'.failed /\ s4'.query = s4.query
    BY <2>1 DEF T!IInv, T!Mounted
  <2> QED
    BY <2>1, <2>2 DEF T!IInv
<1>15. CASE UNCHANGED T!vars
  BY <1>15 DEF T!vars, T!controls, T!IInv, T!Modal, T!Quiet
<1> QED
  BY <1>1, <1>2, <1>3, <1>4, <1>5, <1>6, <1>7, <1>8, <1>9, <1>10, <1>11, <1>12, <1>13,
     <1>14, <1>15
     DEF T!Next, T!LoadAnswer, T!StatementAnswer

LEMMA TableTells == ASSUME T!IInv
                    PROVE  T!PatientSeesHisPage /\ T!PatientSeesRowsThatExist
BY DEF T!IInv, T!PatientSeesHisPage, T!PatientSeesRowsThatExist, T!Quiet, T!Same

\* Whoever waits for each answer sees the page of the table that his controls show,
\* and no row that is not there, however many rows and pages there are.
THEOREM TableAlwaysSeen == Spec => []PatientSeesTheTable
<1> DEFINE Holds == part = "table" => T!IInv
<1>1. Init => Holds
  BY TableInit DEF Init
<1>2. Holds /\ [Next]_<<part, state>> => Holds'
  BY TableStep DEF Next, state, T!vars, T!controls
<1>3. Holds => PatientSeesTheTable
  BY TableTells DEF PatientSeesTheTable
<1> QED
  BY <1>1, <1>2, <1>3, PTL DEF Spec

-----------------------------------------------------------------------------
(* The field of a foreign key: s1 is table, s3 value, s4 selectedRow,        *)
(* s5 fetches, s7 view, s8 shown, s10 loads and s11 overlapped.              *)

LEMMA AskedIs ==
    ASSUME NEW v \in K!Values
    PROVE  /\ K!Asked(v) \subseteq [of : K!Values, cancelled : BOOLEAN]
           /\ \A f \in K!Asked(v) : f.of = v /\ ~f.cancelled
<1> DEFINE a == [of |-> v, cancelled |-> FALSE]
<1>1. a \in [of : K!Values, cancelled : BOOLEAN] /\ a.of = v /\ ~a.cancelled
  OBVIOUS
<1>2. K!Asked(v) \subseteq {a}
  BY DEF K!Asked
<1> QED
  BY <1>1, <1>2

LEMMA FieldInit == ASSUME K!Init PROVE K!IInv
<1>1. s3 \in K!Values /\ s5 = K!Asked(s3) /\ s4 = {} /\ s10 = {}
      /\ s8 = K!Nothing /\ s7 = K!FirstQuery /\ s1 \subseteq FieldRows
  BY DEF K!Init
<1>2. K!AsksForValue /\ K!LabelIsOfValue /\ s5 \subseteq [of : K!Values, cancelled : BOOLEAN]
  BY <1>1, AskedIs DEF K!AsksForValue, K!LabelIsOfValue, K!Active
<1>3. s8.rows = {} /\ s8.query = K!FirstQuery
  BY <1>1 DEF K!Nothing
<1> QED
  BY <1>1, <1>2, <1>3 DEF K!IInv

\* The effect on the value: what was asked before no longer counts.
LEMMA FieldChange ==
    ASSUME K!IInv, NEW v \in K!Values, K!Change(v)
    PROVE  /\ s5' \subseteq [of : K!Values, cancelled : BOOLEAN] /\ s3' \in K!Values
           /\ K!AsksForValue' /\ K!LabelIsOfValue'
<1>1. CASE v = s3
  BY <1>1 DEF K!Change, K!IInv, K!AsksForValue, K!LabelIsOfValue, K!Active
<1>2. CASE v # s3
  <2> DEFINE dropped == [of : {f.of : f \in s5}, cancelled : {TRUE}]
  <2>1. dropped \subseteq [of : K!Values, cancelled : BOOLEAN] /\ \A f \in dropped : f.cancelled
    BY DEF K!IInv
  <2>2. K!Asked(v) \subseteq [of : K!Values, cancelled : BOOLEAN]
        /\ \A f \in K!Asked(v) : f.of = v /\ ~f.cancelled
    BY AskedIs
  <2>3. /\ s5' = dropped \union K!Asked(v) /\ s3' = v
        /\ K!Asked(v) = {} => s4' = {}
    BY <1>2 DEF K!Change
  <2> HIDE DEF dropped
  <2>4. K!Active' = K!Asked(v)
    BY <2>1, <2>2, <2>3 DEF K!Active
  <2> QED
    BY <2>1, <2>2, <2>3, <2>4 DEF K!AsksForValue, K!LabelIsOfValue
<1> QED
  BY <1>1, <1>2

LEMMA FieldSends ==
    ASSUME K!IInv, NEW q, K!Load(q) PROVE K!IInv'
<1>1. /\ s10' = s10 \union {q} /\ s7' = q /\ s11' = (s11 \/ s10 # {})
      /\ UNCHANGED <<s1, s3, s4, s5, s8>>
  BY DEF K!Load, K!Send
<1> QED
  BY <1>1 DEF K!IInv, K!AsksForValue, K!LabelIsOfValue, K!Active

LEMMA FieldStep == ASSUME K!IInv, K!Next \/ UNCHANGED K!vars PROVE K!IInv'
<1>1. CASE K!Type
  <2>1. PICK v \in K!Values : K!Change(v)
    BY <1>1 DEF K!Type
  <2> QED
    BY <1>1, <2>1, FieldChange DEF K!Type, K!dialog, K!IInv
<1>2. CASE K!Clear
  <2>1. K!Empty \in K!Values
    BY DEF K!Values
  <2> QED
    BY <1>2, <2>1, FieldChange DEF K!Clear, K!dialog, K!IInv
<1>3. CASE K!Others
  BY <1>3 DEF K!Others, K!dialog, K!IInv, K!AsksForValue, K!LabelIsOfValue, K!Active
<1>4. CASE K!OpenSelector \/ K!Search \/ K!PreviousPage \/ K!NextPage
  BY <1>4, FieldSends DEF K!OpenSelector, K!Search, K!PreviousPage, K!NextPage
<1>5. CASE K!CloseSelector
  BY <1>5 DEF K!CloseSelector, K!dialog, K!IInv, K!AsksForValue, K!LabelIsOfValue,
              K!Active
<1>6. ASSUME NEW r \in FieldRows, K!Select(r) PROVE K!IInv'
  <2>1. r \in K!Values
    BY DEF K!Values
  <2> QED
    BY <1>6, <2>1, FieldChange DEF K!Select, K!dialog, K!IInv
<1>7. ASSUME NEW f \in s5, K!Fetched(f) PROVE K!IInv'
  <2>1. /\ UNCHANGED <<s1, s3, s7, s8, s10, s11>> /\ s5' = s5 \ {f}
        /\ s5' \subseteq [of : K!Values, cancelled : BOOLEAN]
    BY <1>7 DEF K!Fetched, K!dialog, K!IInv
  <2>2. K!AsksForValue'
    BY <2>1 DEF K!IInv, K!AsksForValue, K!Active
  <2>3. K!LabelIsOfValue'
    <3>1. CASE f.cancelled
      BY <1>7, <2>1, <3>1 DEF K!Fetched, K!IInv, K!LabelIsOfValue, K!Active
    <3>2. CASE ~f.cancelled
      <4>1. f.of = s3
        BY <3>2 DEF K!IInv, K!AsksForValue, K!Active
      <4> QED
        BY <1>7, <2>1, <3>2, <4>1 DEF K!Fetched, K!LabelIsOfValue
    <3> QED
      BY <3>1, <3>2
  <2> QED
    BY <2>1, <2>2, <2>3 DEF K!IInv
<1>8. ASSUME NEW q \in s10, K!Loaded(q) \/ K!LoadFails(q) PROVE K!IInv'
  <2>1. /\ UNCHANGED <<s1, s3, s4, s5, s7, s11>>
        /\ s10' = s10 \ {q} /\ s8'.query = q /\ s8'.rows \subseteq FieldRows
    <3>1. CASE K!Loaded(q)
      <4>1. K!Page(q) \subseteq FieldRows
        BY DEF K!Page, K!Found, K!IInv
      <4> QED
        BY <3>1, <4>1 DEF K!Loaded
    <3>2. CASE K!LoadFails(q)
      BY <3>2 DEF K!LoadFails, K!Nothing
    <3> QED
      BY <1>8, <3>1, <3>2
  <2> QED
    BY <2>1 DEF K!IInv, K!AsksForValue, K!LabelIsOfValue, K!Active
<1>9. CASE UNCHANGED K!vars
  BY <1>9 DEF K!vars, K!dialog, K!IInv, K!AsksForValue, K!LabelIsOfValue, K!Active
<1> QED
  BY <1>1, <1>2, <1>3, <1>4, <1>5, <1>6, <1>7, <1>8, <1>9
     DEF K!Next, K!FetchAnswer, K!LoadAnswer, K!SelectSome

LEMMA FieldTells ==
    ASSUME K!IInv PROVE K!LabelIsOfValue /\ K!AsksForValue /\ K!PatientSeesHisRows
BY DEF K!IInv, K!PatientSeesHisRows

\* The label beside a foreign key is of its value once its query is answered, in
\* whatever order the queries for earlier values are.
THEOREM FieldAlwaysShowsItsValue == Spec => []FieldShowsItsValue
<1> DEFINE Holds == part = "field" => K!IInv
<1>1. Init => Holds
  BY FieldInit DEF Init
<1>2. Holds /\ [Next]_<<part, state>> => Holds'
  BY FieldStep DEF Next, state, K!vars, K!dialog
<1>3. Holds => FieldShowsItsValue
  BY FieldTells DEF FieldShowsItsValue
<1> QED
  BY <1>1, <1>2, <1>3, PTL DEF Spec

-----------------------------------------------------------------------------
(* The preview of a foreign key: s2 is mounted, s3 value, s4 open, s5 row,   *)
(* s6 error, s7 loading and s8 fetches.                                      *)

LEMMA PreviewInit == ASSUME P!Init PROVE P!IInv
BY DEF P!Init, P!IInv, P!Visible, P!Active, P!Cells, P!SpinnerIsPending,
       P!PreviewIsOfCell, P!ClosedIsEmpty

\* What the effect leaves of the queries: those of before are cancelled.
LEMMA PreviewEffect ==
    ASSUME P!IInv, NEW isOpen \in BOOLEAN, NEW v \in P!Cells, P!Effect(isOpen, v)
    PROVE  /\ s8' \subseteq [of : CellValues, cancelled : BOOLEAN]
           /\ ~isOpen \/ v = {} => P!Active' = {} /\ s5' = {} /\ s6' = {} /\ s7' = s7
           /\ isOpen /\ v # {} => /\ P!Active' = [of : v, cancelled : {FALSE}]
                                  /\ s6' = {} /\ s7' = TRUE
<1>1. P!Cancelled \subseteq [of : CellValues, cancelled : BOOLEAN] /\ \A f \in P!Cancelled : f.cancelled
  BY DEF P!Cancelled, P!IInv
<1>2. [of : v, cancelled : {FALSE}] \subseteq [of : CellValues, cancelled : BOOLEAN]
      /\ \A f \in [of : v, cancelled : {FALSE}] : ~f.cancelled
  BY DEF P!Cells
<1> QED
  BY <1>1, <1>2 DEF P!Effect, P!Active

LEMMA PreviewCancels ==
    ASSUME P!IInv, s8' = P!Cancelled
    PROVE  s8' \subseteq [of : CellValues, cancelled : BOOLEAN] /\ P!Active' = {}
BY DEF P!IInv, P!Cancelled, P!Active

LEMMA PreviewStep == ASSUME P!IInv, P!Next \/ UNCHANGED P!vars PROVE P!IInv'
<1> USE DEF P!Visible, P!SpinnerIsPending, P!PreviewIsOfCell, P!ClosedIsEmpty
<1>1. CASE P!Open
  BY <1>1, PreviewEffect DEF P!Open, P!IInv
<1>2. CASE P!Close
  BY <1>2, PreviewEffect DEF P!Close, P!IInv
<1>3. CASE P!ChangeCell
  <2>1. PICK v \in P!Cells \ {s3} :
          /\ s3' = v
          /\ IF v = {} \/ (s3 = {} /\ ~s4)
             THEN s5' = {} /\ s6' = {} /\ s7' = FALSE /\ s8' = P!Cancelled
             ELSE IF s4 THEN P!Effect(s4, v) ELSE UNCHANGED <<s5, s6, s7, s8>>
    BY <1>3 DEF P!ChangeCell
  <2>2. s2 /\ UNCHANGED <<s2, s4>>
    BY <1>3 DEF P!ChangeCell
  <2>3. CASE v = {} \/ (s3 = {} /\ ~s4)
    BY <2>1, <2>2, <2>3, PreviewCancels DEF P!IInv
  <2>4. CASE ~(v = {} \/ (s3 = {} /\ ~s4)) /\ s4
    <3>1. P!Effect(s4, v)
      BY <2>1, <2>4
    <3> QED
      BY <2>1, <2>2, <2>4, <3>1, PreviewEffect DEF P!IInv
  <2>5. CASE ~(v = {} \/ (s3 = {} /\ ~s4)) /\ ~s4
    <3>1. UNCHANGED <<s5, s6, s7, s8>>
      BY <2>1, <2>5
    <3> QED
      BY <2>1, <2>2, <2>5, <3>1 DEF P!IInv, P!Active
  <2> QED
    BY <2>3, <2>4, <2>5
<1>4. CASE P!Hide
  BY <1>4, PreviewCancels DEF P!Hide, P!IInv, P!Cells
<1>5. CASE P!ShowRows
  BY <1>5 DEF P!ShowRows, P!IInv, P!Active
<1>6. ASSUME NEW f \in s8, P!Answered(f) PROVE P!IInv'
  <2>1. s8' = s8 \ {f} /\ UNCHANGED <<s2, s3, s4>>
    BY <1>6 DEF P!Answered
  <2>2. CASE f.cancelled
    <3>1. P!Active' = P!Active /\ s8' \subseteq s8
      BY <2>1, <2>2 DEF P!Active
    <3> QED
      <4>1. s8' \subseteq [of : CellValues, cancelled : BOOLEAN]
        BY <3>1 DEF P!IInv
      <4>2. UNCHANGED <<s5, s6, s7>>
        BY <1>6, <2>2 DEF P!Answered
      <4> QED
        BY <2>1, <3>1, <4>1, <4>2 DEF P!IInv
  <2>3. CASE ~f.cancelled
    <3>1. P!Visible /\ s7 /\ f \in [of : s3, cancelled : {FALSE}]
      BY <2>3 DEF P!IInv, P!Active
    <3>2. \A g \in P!Active : g \in s8 /\ ~g.cancelled /\ g \in [of : s3, cancelled : {FALSE}]
      BY <3>1 DEF P!IInv, P!Active
    <3>3. PICK v : s3 = {v}
      BY <3>1 DEF P!IInv, P!Cells
    <3>4. f.of = v /\ \A g \in P!Active : g.of = v
      BY <3>1, <3>2, <3>3
    <3>5. \A g \in P!Active : g = f
      BY <2>3, <3>2, <3>4, SameQuery DEF P!IInv
    <3>6. P!Active' = {} /\ s8' \subseteq [of : CellValues, cancelled : BOOLEAN]
      BY <2>1, <3>5 DEF P!Active, P!IInv
    <3>7. s5' \subseteq s3' /\ s6' \subseteq s3' /\ s7' = FALSE
      BY <1>6, <2>1, <2>3, <3>1, <3>3, <3>4 DEF P!Answered, P!IInv
    <3> QED
      BY <2>1, <3>1, <3>7, <3>6 DEF P!IInv
  <2> QED
    BY <2>2, <2>3
<1>7. CASE P!Others
  BY <1>7 DEF P!Others, P!IInv, P!Active
<1>8. CASE UNCHANGED P!vars
  BY <1>8 DEF P!vars, P!IInv, P!Active
<1> QED
  BY <1>1, <1>2, <1>3, <1>4, <1>5, <1>6, <1>7, <1>8 DEF P!Next, P!Answer

\* A preview shows the row of its cell's value or nothing, however often the cell
\* changes while queries are under way.
THEOREM PreviewAlwaysOfCell == Spec => []PreviewIsOfCell
<1> DEFINE Holds == part = "preview" => P!IInv
<1>1. Init => Holds
  BY PreviewInit DEF Init
<1>2. Holds /\ [Next]_<<part, state>> => Holds'
  BY PreviewStep DEF Next, state, P!vars
<1>3. Holds => PreviewIsOfCell
  BY DEF PreviewIsOfCell, P!IInv
<1> QED
  BY <1>1, <1>2, <1>3, PTL DEF Spec

-----------------------------------------------------------------------------
(* The form for a row: s1 is page, s2 row, s3 others and s4 forms.           *)

LEMMA FormInit == ASSUME F!Init PROVE F!IInv
BY DEF F!Init, F!IInv

\* A row is known by what each column may have.
LEMMA RowIs ==
    ASSUME NEW r, r = [c \in F!Columns |-> r[c]],
           \A c \in F!Columns : DataType[c] \in F!Types /\ r[c] \in F!Stored[DataType[c]]
                              /\ (r[c] = "null" => c \in Nullable)
    PROVE  r \in F!Rows
<1>1. \A c \in F!Columns : r[c] \in UNION {F!Stored[type] : type \in F!Types}
  OBVIOUS
<1> QED
  BY <1>1 DEF F!Rows

\* The row that was loaded, and New, as a form shows them.
LEMMA FormOpens ==
    ASSUME NEW initial \in F!Rows \union {F!New}, NEW form, F!Opened(initial) = {form}
    PROVE  F!FormOK(form)
<1>1. form = [initial |-> initial, values |-> F!InitialValues(initial), touched |-> {}]
  BY DEF F!Opened
<1> QED
  BY <1>1 DEF F!FormOK, F!InitialValues

LEMMA FormMoves ==
    ASSUME F!IInv, NEW u \in F!Users, NEW fs, s4' = [s4 EXCEPT ![u] = fs],
           \A form \in fs : fs = {form} /\ F!FormOK(form), s2' \in F!Rows, UNCHANGED s1
    PROVE  F!IInv'
<1>1. F!Rows' = F!Rows /\ F!New' = F!New /\ F!Columns' = F!Columns /\ F!Users' = F!Users
  BY DEF F!Rows, F!New, F!Columns, F!Users
<1>2. \A form : F!FormOK(form)' <=> F!FormOK(form)
  BY <1>1 DEF F!FormOK, F!InitialValues
<1>3. \A v \in F!Users : s4'[v] = IF v = u THEN fs ELSE s4[v]
  BY DEF F!IInv
<1> QED
  BY <1>1, <1>2, <1>3 DEF F!IInv

LEMMA Touches ==
    ASSUME F!IInv, NEW u \in F!Users, F!SetValue(u), UNCHANGED s1 PROVE F!IInv'
<1>1. PICK form \in s4[u], c \in F!Columns : \E v \in F!Typed[DataType[c]] :
        s4' = [s4 EXCEPT ![u] = {[form EXCEPT !.values[c] = v, !.touched = @ \union {c}]}]
  BY DEF F!SetValue
<1>2. PICK v \in F!Typed[DataType[c]] :
        s4' = [s4 EXCEPT ![u] = {[form EXCEPT !.values[c] = v, !.touched = @ \union {c}]}]
  BY <1>1
<1>3. F!FormOK(form)
  BY DEF F!IInv
<1> DEFINE next == [form EXCEPT !.values[c] = v, !.touched = @ \union {c}]
<1>4. /\ next.initial = form.initial /\ next.touched = form.touched \union {c}
      /\ next.values = [form.values EXCEPT ![c] = v]
  BY <1>3 DEF F!FormOK
<1>5. next.values = [d \in F!Columns |-> next.values[d]]
      /\ \A d \in F!Columns : next.values[d] = IF d = c THEN v ELSE form.values[d]
  BY <1>3, <1>4 DEF F!FormOK
<1> HIDE DEF next
<1>6. F!FormOK(next)
  BY <1>3, <1>4, <1>5 DEF F!FormOK
<1>7. s4' = [s4 EXCEPT ![u] = {next}]
  BY <1>2 DEF next
<1>8. s2' \in F!Rows
  BY DEF F!SetValue, F!IInv
<1> QED
  BY <1>6, <1>7, <1>8, FormMoves

\* NULL is stored, never typed, and what stands for no initial value is neither.
LEMMA NullIsStored ==
    ASSUME NEW type \in F!Types
    PROVE  "null" \in F!Stored[type] /\ "null" \notin F!Typed[type] /\ "none" \notin F!Stored[type]
<1>1. CASE type = "text"
  BY <1>1 DEF F!Typed, F!Stored
<1>2. CASE type = "numeric"
  BY <1>2 DEF F!Typed, F!Stored
<1>3. CASE type = "interval"
  BY <1>3 DEF F!Typed, F!Stored
<1>4. CASE type = "boolean"
  BY <1>4 DEF F!Typed, F!Stored
<1>5. CASE type = "json"
  BY <1>5 DEF F!Typed, F!Stored
<1> QED
  BY <1>1, <1>2, <1>3, <1>4, <1>5 DEF F!Types

\* What a field makes of a value is one of its column, unless it throws, and null
\* only for an empty field or a number that is none.
LEMMA WrittenIsOfType ==
    ASSUME NEW type \in F!Types, NEW v \in F!Typed[type] \union F!Stored[type],
           v # "null", v # "", F!Parse(type, v) # "throws"
    PROVE  F!Kept(type, F!Parse(type, v)) \in F!Stored[type]
<1>1. CASE type = "text"
  BY <1>1 DEF F!Typed, F!Stored, F!Parse, F!Kept, F!isNumericColumn
<1>2. CASE type = "numeric"
  BY <1>2 DEF F!Typed, F!Stored, F!Parse, F!Kept, F!isNumericColumn, F!ToNumber
<1>3. CASE type = "interval"
  BY <1>3 DEF F!Typed, F!Stored, F!Parse, F!Kept, F!isNumericColumn, F!ToNumber
<1>4. CASE type = "boolean"
  BY <1>4 DEF F!Typed, F!Stored, F!Parse, F!Kept, F!isNumericColumn
<1>5. CASE type = "json"
  BY <1>5 DEF F!Typed, F!Stored, F!Parse, F!Kept, F!isNumericColumn, F!Strings,
              F!FromJson
<1> QED
  BY <1>1, <1>2, <1>3, <1>4, <1>5 DEF F!Types

\* A value that the form can give back is written as it was.
LEMMA GivenBackIsKept ==
    ASSUME NEW c, DataType[c] \in F!Types, NEW v \in F!Stored[DataType[c]], v # "null",
           F!GivenBack(c, v)
    PROVE  v # "" /\ F!Parse(DataType[c], v) = v /\ F!Kept(DataType[c], v) = v
<1> DEFINE type == DataType[c]
<1>1. CASE type = "text"
  BY <1>1 DEF F!Stored, F!Parse, F!Kept, F!isNumericColumn, F!GivenBack
<1>2. CASE type = "numeric"
  <2>1. v = "number"
    BY <1>2 DEF F!Stored
  <2> QED
    BY <1>2, <2>1 DEF F!Parse, F!Kept, F!isNumericColumn, F!ToNumber
<1>3. CASE type = "interval"
  <2>1. v = "span"
    BY <1>3 DEF F!Stored
  <2> QED
    BY <2>1 DEF F!GivenBack
<1>4. CASE type = "boolean"
  BY <1>4 DEF F!Stored, F!Parse, F!Kept, F!isNumericColumn, F!GivenBack
<1>5. CASE type = "json"
  BY <1>5 DEF F!Stored, F!Parse, F!Kept, F!isNumericColumn, F!Strings, F!GivenBack
<1> QED
  BY <1>1, <1>2, <1>3, <1>4, <1>5 DEF F!Types

\* What a save of a form writes, column by column.
LEMMA SaveWrites ==
    ASSUME F!IInv, NEW u \in F!Users, F!Save(u), NEW form \in s4[u]
    PROVE  /\ F!FormOK(form) /\ form.initial \in F!Rows /\ UNCHANGED s3
           /\ s4' = [s4 EXCEPT ![u] = {}]
           /\ s2' = [c \in F!Columns |-> s2'[c]]
           /\ \A c \in F!Columns :
                LET v == form.values[c]
                    p == IF v = "" THEN "null" ELSE F!Parse(DataType[c], v)
                IN  /\ s2'[c] = F!Kept(DataType[c], p) /\ p # "throws"
                    /\ p = "null" => c \in Nullable
<1>1. PICK f \in s4[u] :
        LET payload == F!Payload(f)
        IN  /\ f.initial # F!New /\ ~F!Throws(payload) /\ ~F!Refused(payload)
            /\ s2' = [c \in F!Columns |-> IF c \in DOMAIN payload THEN F!Kept(DataType[c], payload[c])
                                                              ELSE s2[c]]
            /\ s4' = [s4 EXCEPT ![u] = {}]
            /\ UNCHANGED s3
  BY DEF F!Save
<1>2. f = form /\ F!FormOK(form)
  BY DEF F!IInv
<1>3. form.initial \in F!Rows /\ form.initial # F!New
  BY <1>1, <1>2 DEF F!FormOK
<1> DEFINE payload == F!Payload(form)
<1>4. DOMAIN payload = F!Columns
      /\ \A c \in F!Columns : payload[c] = IF form.values[c] = "" THEN "null"
                                         ELSE F!Parse(DataType[c], form.values[c])
  BY <1>3 DEF F!Payload, F!LeftOut
<1> HIDE DEF payload
<1>5. /\ ~F!Throws(payload) /\ ~F!Refused(payload) /\ UNCHANGED s3
      /\ s2' = [c \in F!Columns |-> F!Kept(DataType[c], payload[c])]
      /\ s4' = [s4 EXCEPT ![u] = {}]
  BY <1>1, <1>2, <1>4 DEF payload
<1> QED
  BY <1>2, <1>3, <1>4, <1>5 DEF F!Throws, F!Refused

LEMMA Saves == ASSUME F!IInv, NEW u \in F!Users, F!Save(u), UNCHANGED s1 PROVE F!IInv'
<1>1. PICK form \in s4[u] : form = form
  BY DEF F!Save
<1>2. \A c \in F!Columns : DataType[c] \in F!Types
  BY FormAssumption DEF F!IInv, F!Columns, F!Types
<1>3. ASSUME NEW c \in F!Columns
      PROVE  s2'[c] \in F!Stored[DataType[c]] /\ (s2'[c] = "null" => c \in Nullable)
  <2> DEFINE v == form.values[c]
             p == IF v = "" THEN "null" ELSE F!Parse(DataType[c], v)
  <2>1. s2'[c] = F!Kept(DataType[c], p) /\ p # "throws" /\ (p = "null" => c \in Nullable)
    BY SaveWrites
  <2>2. v = "" \/ (v # "null" /\ v \in F!Typed[DataType[c]] \union F!Stored[DataType[c]])
    <3>1. F!FormOK(form) /\ form.initial \in F!Rows
      BY SaveWrites
    <3>2. CASE c \in form.touched
      <4>1. v \in F!Typed[DataType[c]] /\ DataType[c] \in F!Types
        BY <1>2, <3>1, <3>2 DEF F!FormOK
      <4>2. \A type \in F!Types : "null" \notin F!Typed[type]
        BY NullIsStored
      <4> QED
        BY <4>1, <4>2
    <3>3. CASE c \notin form.touched
      BY <3>1, <3>3 DEF F!FormOK, F!Rows, F!InitialValues
    <3> QED
      BY <3>2, <3>3
  <2>3. \A type \in F!Types : "null" \in F!Stored[type] /\ F!Kept(type, "null") = "null"
    <3>1. \A type \in F!Types : "null" \in F!Stored[type]
      BY NullIsStored
    <3> QED
      BY <3>1 DEF F!Kept
  <2>4. s2'[c] \in F!Stored[DataType[c]]
    BY <1>2, <2>1, <2>2, <2>3, WrittenIsOfType
  <2>5. s2'[c] = "null" => p = "null"
    BY <2>1 DEF F!Kept
  <2> QED
    BY <2>1, <2>4, <2>5
<1>4. s2' \in F!Rows
  BY <1>1, <1>2, <1>3, SaveWrites, RowIs
<1> QED
  <2>1. s4' = [s4 EXCEPT ![u] = {}]
    BY <1>1, SaveWrites
  <2> QED
    BY <1>4, <2>1, FormMoves

LEMMA FormStep == ASSUME F!IInv, F!Next \/ UNCHANGED F!vars PROVE F!IInv'
<1>1. CASE UNCHANGED F!vars
  <2>1. UNCHANGED <<s1, s2, s4>>
    BY <1>1 DEF F!vars
  <2>2. F!Rows' = F!Rows /\ F!New' = F!New /\ F!Columns' = F!Columns /\ F!Users' = F!Users
    BY <2>1 DEF F!Rows, F!New, F!Columns, F!Users
  <2>3. \A form : F!FormOK(form)' <=> F!FormOK(form)
    BY <2>2 DEF F!FormOK, F!InitialValues
  <2> QED
    BY <2>1, <2>2, <2>3 DEF F!IInv
<1>2. ASSUME NEW u \in F!Users, UNCHANGED s1, F!OpenEdit(u) PROVE F!IInv'
  <2>1. PICK form : F!Opened(s2) = {form}
    BY DEF F!Opened
  <2>2. F!FormOK(form) /\ s2' \in F!Rows /\ s4' = [s4 EXCEPT ![u] = {form}]
    BY <1>2, <2>1, FormOpens DEF F!OpenEdit, F!IInv
  <2> QED
    BY <1>2, <2>2, FormMoves
<1>3. ASSUME NEW u \in F!Users, UNCHANGED s1, F!OpenCreate(u) PROVE F!IInv'
  <2>1. PICK form : F!Opened(F!New) = {form}
    BY DEF F!Opened
  <2>2. F!FormOK(form) /\ s2' \in F!Rows /\ s4' = [s4 EXCEPT ![u] = {form}]
    BY <1>3, <2>1, FormOpens DEF F!OpenCreate, F!IInv
  <2> QED
    BY <1>3, <2>2, FormMoves
<1>4. ASSUME NEW u \in F!Users, UNCHANGED s1, F!Cancel(u) \/ F!Create(u) PROVE F!IInv'
  <2>1. s4' = [s4 EXCEPT ![u] = {}] /\ s2' \in F!Rows
    BY <1>4 DEF F!Cancel, F!Create, F!IInv
  <2> QED
    BY <1>4, <2>1, FormMoves
<1> QED
  BY <1>1, <1>2, <1>3, <1>4, Touches, Saves DEF F!Next

LEMMA FormTells ==
    ASSUME F!IInv, NEW u \in F!Users PROVE F!UntouchedIsWritten(u) /\ F!EmptyIsNull(u)
<1>1. ASSUME NEW form \in s4[u], F!Save(u), NEW c \in F!Columns \ form.touched,
             F!GivenBack(c, form.initial[c])
      PROVE  s2'[c] = form.initial[c]
  <2> DEFINE v == form.values[c]
             p == IF v = "" THEN "null" ELSE F!Parse(DataType[c], v)
  <2>1. F!FormOK(form) /\ form.initial \in F!Rows /\ s2'[c] = F!Kept(DataType[c], p)
    BY <1>1, SaveWrites
  <2>2. v = F!InitialValues(form.initial)[c] /\ form.initial[c] \in F!Stored[DataType[c]]
        /\ DataType[c] \in F!Types
    BY <2>1, FormAssumption DEF F!FormOK, F!Rows, F!IInv, F!Columns, F!Types
  <2>3. CASE form.initial[c] = "null"
    BY <2>1, <2>2, <2>3 DEF F!InitialValues, F!Kept
  <2>4. CASE form.initial[c] # "null"
    <3>1. form.initial[c] # "none"
      BY <2>2, NullIsStored
    <3>2. v = form.initial[c]
      BY <2>2, <2>4, <3>1 DEF F!InitialValues
    <3> QED
      BY <1>1, <2>1, <2>2, <2>4, <3>2, GivenBackIsKept
  <2> QED
    BY <2>3, <2>4
<1>2. ASSUME NEW form \in s4[u], NEW c \in F!Columns, F!Create(u), form.values[c] = "",
             NEW r \in s3'
      PROVE  r[c] = IF c \in Nullable THEN "null" ELSE Default[c]
  <2>1. PICK f \in s4[u] :
          /\ f.initial = F!New
          /\ s3' = {[d \in F!Columns |-> IF d \in DOMAIN F!Payload(f)
                                           THEN F!Kept(DataType[d], F!Payload(f)[d]) ELSE Default[d]]}
    BY <1>2 DEF F!Create
  <2>2. f = form
    BY DEF F!IInv
  <2>3. c \in DOMAIN F!Payload(form) <=> c \in Nullable
    BY <1>2, <2>1, <2>2 DEF F!Payload, F!LeftOut
  <2>4. c \in Nullable => F!Payload(form)[c] = "null"
    BY <1>2, <2>3 DEF F!Payload
  <2> QED
    BY <2>1, <2>2, <2>3, <2>4 DEF F!Kept
<1> QED
  BY <1>1, <1>2 DEF F!UntouchedIsWritten, F!EmptyIsNull

\* Whatever columns there are, and of whatever types: a save writes back as it was
\* loaded each column that nobody changed and the form can give back, and a field
\* that is empty is one that was never filled in.
THEOREM FormsAlwaysWriteWhatTheyShow == Spec => FormsWriteWhatTheyShow
<1> DEFINE Holds == part = "form" => F!IInv
<1>1. Init => Holds
  BY FormInit DEF Init
<1>2. Holds /\ [Next]_<<part, state>> => Holds'
  BY FormStep DEF Next, state, F!vars
<1>3. Holds /\ [Next]_<<part, state>>
      => [part = "form" => \A u \in F!Users : F!UntouchedIsWritten(u) /\ F!EmptyIsNull(u)]_state
  BY FormTells
<1> QED
  BY <1>1, <1>2, <1>3, PTL DEF Spec, FormsWriteWhatTheyShow

-----------------------------------------------------------------------------
(* The page of the roles: s1 is stored, s5 selected, s6 tables,              *)
(* s7 permissions, s8 fetches, s9 saves, s10 formOf and s13 overlapped.      *)

LEMMA SameFetch ==
    ASSUME NEW f \in R!Fetches, NEW g \in R!Fetches, f.of = g.of, f.step = g.step,
           ~f.cancelled, ~g.cancelled
    PROVE  f = g
BY DEF R!Fetches

LEMMA RolesInit == ASSUME R!Init PROVE R!IInv
<1>1. R!NoMatrix \in [{} -> BOOLEAN] /\ {} \in SUBSET MatrixTables
  BY DEF R!NoMatrix
<1>2. R!TypeOK
  BY <1>1 DEF R!Init, R!TypeOK, R!Nothing, R!Selections
<1> QED
  BY <1>2 DEF R!Init, R!IInv, R!Active, R!MatrixIsOfSelection, R!Nothing

\* What is under way is cancelled, and the tables of the new selection asked for.
LEMMA RolesSelect ==
    ASSUME R!IInv, NEW s \in R!Selections, s.connection # "none", R!Select(s)
    PROVE  R!IInv'
<1> DEFINE asked == [of |-> s, step |-> "tables", cancelled |-> FALSE]
           dropped == {[f EXCEPT !.cancelled = TRUE] : f \in s8}
<1>1. asked \in R!Fetches
  BY DEF R!Fetches
<1>2. dropped \subseteq R!Fetches /\ \A f \in dropped : f.cancelled
  BY DEF R!Fetches, R!IInv, R!TypeOK
<1>3. s8' = dropped \union {asked} /\ s5' = s
  BY DEF R!Select
<1>4. asked.of = s /\ asked.step = "tables" /\ ~asked.cancelled
  OBVIOUS
<1> HIDE DEF asked, dropped
<1>5. R!Active' = {asked} /\ s8' \subseteq R!Fetches
  BY <1>1, <1>2, <1>3, <1>4 DEF R!Active
<1>6. /\ UNCHANGED <<s1, s2, s3, s4, s6, s7, s9, s10, s11, s12>>
      /\ s13' = (s13 \/ ~R!Quiet)
  BY DEF R!Select, R!listVars
<1>7. R!TypeOK'
  BY <1>3, <1>5, <1>6 DEF R!TypeOK, R!IInv, R!Cells
<1>8. ~s13' => s9' = {}
  BY <1>6 DEF R!Quiet
<1> QED
  BY <1>3, <1>4, <1>5, <1>7, <1>8 DEF R!IInv, R!MatrixIsOfSelection

\* A request that was cancelled goes without a trace.
LEMMA RolesForget ==
    ASSUME R!IInv, NEW f \in s8, f.cancelled, s8' = s8 \ {f},
           UNCHANGED <<s1, R!listVars, s5, s6, s7, s9, R!history>>
    PROVE  R!IInv'
<1>1. R!Active' = R!Active
  BY DEF R!Active
<1> QED
  BY <1>1 DEF R!IInv, R!TypeOK, R!listVars, R!history, R!Cells, R!MatrixIsOfSelection

\* The one request that counts.
LEMMA RolesOnly ==
    ASSUME R!IInv, NEW f \in s8, ~f.cancelled
    PROVE  /\ R!Active = {f} /\ f.of = s5 /\ f.of.connection \in RoleConnections
           /\ f \in R!Fetches /\ f.of \in R!Selections
           /\ f.step = "permissions" => f.of.role \in Roles
           /\ ~s13 => s9 = {}
<1>1. f \in R!Active
  BY DEF R!Active
<1>2. f \in R!Fetches /\ f.of \in R!Selections
  BY DEF R!IInv, R!TypeOK, R!Fetches
<1> QED
  BY <1>1, <1>2 DEF R!IInv, R!Selections

LEMMA RolesShown ==
    ASSUME R!IInv, NEW f \in s8, ~f.cancelled, s8' = s8 \ {f},
           NEW matrix, R!Shown(f, matrix), matrix \in UNION {[ts -> BOOLEAN] : ts \in SUBSET MatrixTables},
           s6' \subseteq MatrixTables,
           f.of.role # "none" => R!Cells(matrix) = s1[f.of.role][f.of.connection],
           UNCHANGED <<s1, R!listVars, s5, s9, s13>>
    PROVE  R!IInv'
<1>1. /\ R!Active = {f} /\ f.of = s5 /\ (~s13 => s9 = {})
  BY RolesOnly
<1>2. R!Active' = {}
  BY <1>1 DEF R!Active
<1>3. s7' = matrix /\ s10' = f.of /\ s11' = FALSE /\ s12' = FALSE
  BY DEF R!Shown
<1>4. R!TypeOK'
  BY <1>3 DEF R!IInv, R!TypeOK, R!listVars, R!Cells
<1>5. R!Cells(s7)' = R!Cells(matrix)
  BY <1>3 DEF R!Cells
<1> QED
  BY <1>1, <1>2, <1>3, <1>4, <1>5 DEF R!IInv, R!MatrixIsOfSelection

LEMMA RolesTables ==
    ASSUME R!IInv, NEW f \in s8, R!TablesAnswer(f) PROVE R!IInv'
<1>1. CASE f.cancelled
  BY <1>1, RolesForget DEF R!TablesAnswer, R!history
<1>2. CASE ~f.cancelled
  <2>1. /\ R!Active = {f} /\ f.of = s5 /\ f.of.connection \in RoleConnections /\ f \in R!Fetches
        /\ f.of \in R!Selections /\ ~s13 => s9 = {}
    BY <1>2, RolesOnly
  <2>2. s6' = TablesOf[f.of.connection] /\ s6' \subseteq MatrixTables
    BY <1>2, <2>1, RolesAssumption DEF R!TablesAnswer
  <2>3. CASE f.of.role = "none"
    <3> DEFINE matrix == R!NoPermissions(TablesOf[f.of.connection])
    <3>1. s8' = s8 \ {f} /\ R!Shown(f, matrix)
      BY <1>2, <2>3 DEF R!TablesAnswer
    <3>2. matrix \in UNION {[ts -> BOOLEAN] : ts \in SUBSET MatrixTables}
      BY <2>2 DEF R!NoPermissions
    <3> HIDE DEF matrix
    <3> QED
      BY <1>2, <2>2, <2>3, <3>1, <3>2, RolesShown DEF R!TablesAnswer
  <2>4. CASE f.of.role # "none"
    <3> DEFINE next == [f EXCEPT !.step = "permissions"]
    <3>1. /\ next \in R!Fetches /\ next.of = f.of /\ ~next.cancelled /\ next.step = "permissions"
      BY <1>2, <2>1 DEF R!Fetches
    <3>2. s8' = (s8 \ {f}) \union {next}
      BY <1>2, <2>4 DEF R!TablesAnswer
    <3> HIDE DEF next
    <3>3. R!Active' = {next} /\ s8' \subseteq R!Fetches
      BY <2>1, <3>1, <3>2 DEF R!Active, R!IInv, R!TypeOK
    <3>4. UNCHANGED <<s1, R!listVars, s5, s7, s9, R!history>>
      BY <1>2, <2>4 DEF R!TablesAnswer, R!history
    <3>5. R!TypeOK'
      BY <2>2, <3>3, <3>4 DEF R!IInv, R!TypeOK, R!listVars, R!history, R!Cells
    <3> QED
      BY <2>1, <2>4, <3>1, <3>3, <3>4, <3>5 DEF R!IInv, R!history, R!MatrixIsOfSelection
  <2> QED
    BY <2>3, <2>4
<1> QED
  BY <1>1, <1>2

LEMMA RolesPermissions ==
    ASSUME R!IInv, NEW f \in s8, R!PermissionsAnswer(f) PROVE R!IInv'
<1>1. CASE f.cancelled
  BY <1>1, RolesForget DEF R!PermissionsAnswer, R!history
<1>2. CASE ~f.cancelled
  <2>1. f.of.role \in Roles /\ f.of.connection \in RoleConnections
    BY <1>2, RolesOnly DEF R!PermissionsAnswer
  <2> DEFINE granted == s1[f.of.role][f.of.connection]
             shown == TablesOf[f.of.connection] \union granted
             matrix == [t \in shown |-> t \in granted]
  <2>2. granted \subseteq MatrixTables /\ shown \in SUBSET MatrixTables
    BY <2>1, RolesAssumption DEF R!IInv, R!TypeOK
  <2>3. R!Cells(matrix) = granted
    BY DEF R!Cells
  <2>4. matrix \in [shown -> BOOLEAN]
    OBVIOUS
  <2>5. R!Shown(f, matrix) /\ s8' = s8 \ {f}
    BY <1>2 DEF R!PermissionsAnswer
  <2>6. matrix \in UNION {[ts -> BOOLEAN] : ts \in SUBSET MatrixTables}
    BY <2>2, <2>4
  <2>7. s6' \subseteq MatrixTables
    BY DEF R!PermissionsAnswer, R!IInv, R!TypeOK
  <2> HIDE DEF matrix
  <2> QED
    BY <1>2, <2>3, <2>5, <2>6, <2>7, RolesShown DEF R!PermissionsAnswer
<1> QED
  BY <1>1, <1>2

LEMMA RolesFetchFails == ASSUME R!IInv, NEW f \in s8, R!FetchFails(f) PROVE R!IInv'
<1>1. CASE f.cancelled
  <2>1. s11' = s11
    BY <1>1 DEF R!FetchFails, R!IInv, R!TypeOK
  <2> QED
    BY <1>1, <2>1, RolesForget DEF R!FetchFails, R!history
<1>2. CASE ~f.cancelled
  <2>1. R!Active = {f} /\ (~s13 => s9 = {})
    BY <1>2, RolesOnly
  <2>2. R!Active' = {} /\ s11' = TRUE
    BY <1>2, <2>1 DEF R!FetchFails, R!Active
  <2> QED
    BY <2>1, <2>2
       DEF R!FetchFails, R!IInv, R!TypeOK, R!listVars, R!Cells, R!MatrixIsOfSelection
<1> QED
  BY <1>1, <1>2

LEMMA RolesStep == ASSUME R!IInv, R!Next \/ UNCHANGED R!vars PROVE R!IInv'
<1>1. CASE R!Listed \/ R!CreateRole
  <2>1. /\ s2' \subseteq Roles /\ s3' \subseteq Roles /\ s4' \subseteq SUBSET Roles
    BY <1>1 DEF R!Listed, R!CreateRole, R!IInv, R!TypeOK
  <2>2. UNCHANGED <<s1, s5, s6, s7, s8, s9, R!history>>
    BY <1>1 DEF R!Listed, R!CreateRole
  <2> QED
    BY <2>1, <2>2
       DEF R!IInv, R!TypeOK, R!history, R!Active, R!Cells, R!MatrixIsOfSelection
<1>2. CASE R!SelectConnection
  <2>1. PICK c \in RoleConnections : R!Select([s5 EXCEPT !.connection = c])
    BY <1>2 DEF R!SelectConnection
  <2>2. [s5 EXCEPT !.connection = c] \in R!Selections
        /\ [s5 EXCEPT !.connection = c].connection = c
    BY DEF R!IInv, R!TypeOK, R!Selections
  <2> QED
    BY <2>1, <2>2, RolesAssumption, RolesSelect
<1>3. CASE s5.connection # "none" /\ R!SelectRole
  <2>1. PICK r \in s3 : R!Select([s5 EXCEPT !.role = r])
    BY <1>3 DEF R!SelectRole
  <2>2. [s5 EXCEPT !.role = r] \in R!Selections
        /\ [s5 EXCEPT !.role = r].connection = s5.connection
    BY DEF R!IInv, R!TypeOK, R!Selections
  <2> QED
    BY <1>3, <2>1, <2>2, RolesSelect
<1>4. CASE R!SelectFirstRole
  <2>1. PICK r \in s3 : s5' = [s5 EXCEPT !.role = r]
    BY <1>4 DEF R!SelectFirstRole
  <2>2. s5' \in R!Selections /\ s5'.connection = "none"
    BY <1>4, <2>1 DEF R!SelectFirstRole, R!IInv, R!TypeOK, R!Selections
  <2>3. UNCHANGED <<s1, R!listVars, s6, s7, s8, s9, R!history>> /\ R!Active = {}
    BY <1>4 DEF R!SelectFirstRole, R!IInv
  <2> QED
    <3>1. R!Active' = {} /\ s9' = {}
      BY <1>4, <2>3 DEF R!SelectFirstRole, R!IInv, R!Active
    <3> QED
      BY <2>2, <2>3, <3>1
         DEF R!IInv, R!TypeOK, R!listVars, R!history, R!Cells, R!MatrixIsOfSelection
<1>5. CASE R!TogglePerm
  <2>1. PICK t \in s6 :
          s7' = [u \in DOMAIN s7 \union {t} |->
                            IF u = t THEN t \notin R!Cells(s7) ELSE s7[u]]
    BY <1>5 DEF R!TogglePerm
  <2>2. PICK ts \in SUBSET MatrixTables : s7 \in [ts -> BOOLEAN]
    BY DEF R!IInv, R!TypeOK
  <2>3. s7' \in [ts \union {t} -> BOOLEAN] /\ ts \union {t} \in SUBSET MatrixTables
    BY <2>1, <2>2 DEF R!IInv, R!TypeOK
  <2>4. /\ UNCHANGED <<s1, R!listVars, s5, s6, s8, s9, s10, s11>>
        /\ s12' = TRUE /\ s13' = (s13 \/ ~R!Quiet)
    BY <1>5 DEF R!TogglePerm
  <2>5. R!TypeOK'
    <3>1. s7' \in UNION {[us -> BOOLEAN] : us \in SUBSET MatrixTables}
      BY <2>3
    <3> QED
      BY <2>4, <3>1 DEF R!IInv, R!TypeOK, R!listVars, R!Cells
  <2> QED
    BY <2>4, <2>5 DEF R!IInv, R!Quiet, R!Active, R!MatrixIsOfSelection
<1>6. CASE R!SavePermissions
  <2>1. R!Cells(s7) \subseteq MatrixTables
    <3>1. PICK ts \in SUBSET MatrixTables : s7 \in [ts -> BOOLEAN]
      BY DEF R!IInv, R!TypeOK
    <3> QED
      BY <3>1 DEF R!Cells
  <2>2. /\ UNCHANGED <<s1, R!listVars, s5, s6, s7, s8, s10, s11, s12>>
        /\ s9' = {[of |-> s5, permissions |-> s7]}
        /\ s13' = (s13 \/ ~R!Quiet) /\ s5.connection # "none"
    BY <1>6 DEF R!SavePermissions, R!MatrixShown
  <2>3. R!TypeOK'
    BY <2>1, <2>2 DEF R!IInv, R!TypeOK, R!listVars, R!Cells
  <2> QED
    BY <2>2, <2>3 DEF R!IInv, R!Quiet, R!Active, R!Cells, R!MatrixIsOfSelection
<1>7. CASE R!FetchAnswer
  BY <1>7, RolesTables, RolesPermissions, RolesFetchFails DEF R!FetchAnswer
<1>8. CASE R!SaveFails
  BY <1>8 DEF R!SaveFails, R!IInv, R!TypeOK, R!listVars, R!history, R!Active, R!Cells,
              R!MatrixIsOfSelection
<1>9. ASSUME NEW s \in s9, R!Saved(s) PROVE R!IInv'
  <2>1. /\ UNCHANGED <<R!listVars, s5, s6, s7, s8, s10, s11, s13>>
        /\ s9' = {} /\ s12' = (s12 /\ s.permissions # s7)
        /\ s1' = [s1 EXCEPT ![s.of.role][s.of.connection] = R!Cells(s.permissions)]
    BY <1>9 DEF R!Saved
  <2>2. s1' \in [Roles -> [RoleConnections -> SUBSET MatrixTables]]
    BY <2>1 DEF R!IInv, R!TypeOK
  <2>3. R!TypeOK'
    BY <2>1, <2>2 DEF R!IInv, R!TypeOK, R!listVars
  <2>4. ASSUME ~s13, s5.role # "none", s5.connection # "none"
        PROVE  s1'[s5.role][s5.connection] = R!Cells(s7)
    <3>1. s.of = s5 /\ s.permissions = s7
      BY <2>4 DEF R!IInv
    <3>2. s5.role \in Roles /\ s5.connection \in RoleConnections
      BY <2>4 DEF R!IInv, R!TypeOK, R!Selections
    <3> QED
      BY <2>1, <3>1, <3>2 DEF R!IInv, R!TypeOK
  <2> QED
    BY <2>1, <2>3, <2>4 DEF R!IInv, R!Active, R!Cells, R!MatrixIsOfSelection
<1>10. CASE UNCHANGED R!vars
  BY <1>10 DEF R!vars, R!IInv, R!TypeOK, R!listVars, R!history, R!Active, R!Cells,
               R!MatrixIsOfSelection
<1> QED
  BY <1>1, <1>2, <1>3, <1>4, <1>5, <1>6, <1>7, <1>8, <1>9, <1>10
     DEF R!Next, R!SaveAnswer

LEMMA RolesTell == ASSUME R!IInv
                   PROVE  R!MatrixIsOfSelection /\ R!PatientSeesWhatIsStored
BY DEF R!IInv, R!PatientSeesWhatIsStored, R!Quiet, R!MatrixShown

\* The matrix of the roles is of the role and connection selected once their
\* requests are answered, and what is stored for whoever waits.
THEOREM RoleMatrixAlwaysStored == Spec => []RoleMatrixIsStored
<1> DEFINE Holds == part = "roles" => R!IInv
<1>1. Init => Holds
  BY RolesInit DEF Init
<1>2. Holds /\ [Next]_<<part, state>> => Holds'
  BY RolesStep DEF Next, state, R!vars, R!listVars, R!history
<1>3. Holds => RoleMatrixIsStored
  BY RolesTell DEF RoleMatrixIsStored
<1> QED
  BY <1>1, <1>2, <1>3, PTL DEF Spec

-----------------------------------------------------------------------------
(* The page of the users: s1 is registered, s2 granted, s4 users, s5 lists,  *)
(* s6 editUser, s7 edit, s9 gets, s10 saves, s13 dirty and s15 overlapped.   *)

LEMMA UsersInit == ASSUME U!Init PROVE U!IInv
<1>1. DOMAIN s1 \subseteq People
  BY DEF U!Init, U!Lists
<1> QED
  BY <1>1 DEF U!Init, U!IInv, U!Edited, U!Nobody

\* What is not read by the invariant may change.
LEMMA UsersKeep ==
    ASSUME U!IInv, UNCHANGED <<s1, s2, s4, s5, s9>>,
           U!Edited' \subseteq U!Edited, s6' = s6 \/ s6' = U!Nobody,
           s7' \subseteq Grants, s7' = s7 \/ s13', s13 => s13',
           s10' = s10 \/ (~s15' /\ ~s14' => s9' = {}),
           \A s \in s10' : s.of \in People /\ s.grants \subseteq Grants,
           s15 => s15', s14 => s14'
    PROVE  U!IInv'
BY DEF U!IInv, U!Nobody, U!Edited

LEMMA UsersStep == ASSUME U!IInv, U!Next \/ UNCHANGED U!vars PROVE U!IInv'
<1>1. CASE U!Listed
  <2>1. PICK read \in s5 : s4' = read /\ s5' = s5 \ {read}
    BY <1>1 DEF U!Listed
  <2>2. UNCHANGED <<U!metaVars, s6, s7, s8, s9, s10, s11, U!history>>
    BY <1>1 DEF U!Listed
  <2> QED
    BY <2>1, <2>2 DEF U!IInv, U!metaVars, U!history, U!Edited
<1>2. CASE U!ListFails
  BY <1>2 DEF U!ListFails, U!IInv, U!metaVars, U!Edited
<1>3. CASE U!CreateUser
  <2>1. DOMAIN s1' \subseteq People /\ s5' = s5 \union {s1'} /\ s6 = U!Nobody
    BY <1>3 DEF U!CreateUser, U!IInv, U!LoadUsers
  <2>2. /\ UNCHANGED <<s2, s3, s4, s6, s7, s8, s9, s10, s13, s14>>
        /\ s15' = (s15 \/ ~U!Quiet)
    BY <1>3 DEF U!CreateUser, U!Begin
  <2> QED
    BY <2>1, <2>2 DEF U!IInv, U!Quiet, U!Edited, U!Nobody
<1>4. CASE U!Promote
  <2>1. DOMAIN s1' \subseteq People /\ s2' \in [People -> SUBSET Grants] /\ s15' = TRUE
    BY <1>4 DEF U!Promote, U!IInv
  <2> QED
    BY <1>4, <2>1 DEF U!Promote, U!IInv, U!Edited
<1>5. ASSUME NEW u \in People, U!OpenEdit(u) PROVE U!IInv'
  <2>1. /\ UNCHANGED <<U!metaVars, s4, s5, s7, s10, s13, s14>>
        /\ s9' = s9 \union {[of |-> u, grants |-> s2[u]]}
        /\ s6' = {[id |-> u, role |-> s4[u]]}
        /\ s15' = (s15 \/ ~U!Quiet)
    BY <1>5 DEF U!OpenEdit, U!Begin
  <2>2. U!Edited' = {u} /\ s2[u] \subseteq Grants
    BY <2>1 DEF U!Edited, U!IInv
  <2> DEFINE read == [of |-> u, grants |-> s2[u]]
  <2>3. read.of = u /\ read.grants = s2[u] /\ s9' = s9 \union {read}
    BY <2>1
  <2> HIDE DEF read
  <2>4. ~s15' => s9' = {read} /\ U!Quiet
    BY <2>1, <2>3 DEF U!Quiet
  <2>5. /\ UNCHANGED <<s1, s2, s4, s5, s7, s10, s13, s14>>
        /\ s15 => s15'
    BY <2>1 DEF U!metaVars
  <2>6. \A g \in s9' : g.of \in People /\ g.grants \subseteq Grants
    BY <2>2, <2>3 DEF U!IInv
  <2>7. ~s15' /\ ~s14' =>
          \A g \in s9' : s9' = {g} /\ g.grants = s2'[g.of] /\ U!Edited' \subseteq {g.of}
    BY <2>2, <2>3, <2>4, <2>5
  <2>8. ~s15' => s9' # {} /\ s10' = {}
    BY <2>4, <2>5 DEF U!Quiet
  <2>9. s6' = U!Nobody \/ \E v \in People : U!Edited' = {v}
    BY <2>2
  <2> QED
    BY <2>5, <2>6, <2>7, <2>8, <2>9 DEF U!IInv
<1>6. ASSUME NEW g \in s9, U!Got(g) PROVE U!IInv'
  <2>1. /\ UNCHANGED <<U!metaVars, s4, s5, s6, s10, s14, s15>>
        /\ s9' = s9 \ {g} /\ s7' = g.grants /\ s13' = FALSE
    BY <1>6 DEF U!Got
  <2> QED
    BY <2>1 DEF U!IInv, U!metaVars, U!Edited
<1>7. ASSUME NEW g \in s9, U!GetFails(g) PROVE U!IInv'
  BY <1>7 DEF U!GetFails, U!IInv, U!metaVars, U!Edited
<1>8. CASE U!Close
  BY <1>8, UsersKeep DEF U!Close, U!metaVars, U!history, U!Edited, U!Nobody, U!IInv
<1>9. CASE U!Toggle
  <2>1. s7' \subseteq Grants
    BY <1>9 DEF U!Toggle, U!IInv
  <2> QED
    BY <1>9, <2>1, UsersKeep DEF U!Toggle, U!Begin, U!metaVars, U!Edited, U!IInv
<1>10. CASE U!SaveEdit
  <2>1. PICK u \in U!Members : s10' = s10 \union {[of |-> u, grants |-> s7]}
    BY <1>10 DEF U!SaveEdit
  <2>2. u \in People
    BY DEF U!Members, U!Edited, U!IInv, U!Nobody
  <2>3. /\ UNCHANGED <<U!metaVars, s4, s5, s6, s7, s9, s13, s14>>
        /\ s15' = (s15 \/ ~U!Quiet)
    BY <1>10 DEF U!SaveEdit, U!Begin
  <2>4. \A s \in s10' : s.of \in People /\ s.grants \subseteq Grants
    BY <2>1, <2>2 DEF U!IInv
  <2>5. ~s15' => s9' = {}
    BY <2>3 DEF U!Quiet
  <2> QED
    BY <2>3, <2>4, <2>5, UsersKeep DEF U!metaVars, U!Edited, U!IInv
<1>11. ASSUME NEW s \in s10, U!Saved(s) PROVE U!IInv'
  <2>1. /\ UNCHANGED <<s1, s4, s7, s9, U!history>> /\ s10' = s10 \ {s}
        /\ s2' = [s2 EXCEPT ![s.of] = IF s1[s.of] = "member" THEN s.grants ELSE {}]
        /\ s6' = U!Nobody /\ s5' = s5 \union {s1'}
    BY <1>11 DEF U!Saved, U!LoadUsers
  <2>2. s2' \in [People -> SUBSET Grants]
    BY <2>1 DEF U!IInv
  <2>3. U!Edited' = {}
    BY <2>1 DEF U!Edited, U!Nobody
  <2> QED
    BY <2>1, <2>2, <2>3 DEF U!IInv, U!history
<1>12. CASE U!SaveFails
  BY <1>12 DEF U!SaveFails, U!IInv, U!metaVars, U!Edited
<1>13. CASE U!TypePassword
  BY <1>13, UsersKeep DEF U!TypePassword, U!metaVars, U!history, U!Edited, U!IInv
<1>14. CASE U!Provision \/ U!ProvisionFails
  BY <1>14, UsersKeep
     DEF U!Provision, U!ProvisionFails, U!Begin, U!metaVars, U!Edited, U!IInv
<1>15. ASSUME NEW p \in s11, U!Provisioned(p) PROVE U!IInv'
  BY <1>15, UsersKeep DEF U!Provisioned, U!history, U!Edited, U!IInv
<1>16. CASE UNCHANGED U!vars
  BY <1>16, UsersKeep DEF U!vars, U!metaVars, U!history, U!Edited, U!IInv
<1> QED
  BY <1>1, <1>2, <1>3, <1>4, <1>5, <1>6, <1>7, <1>8, <1>9, <1>10, <1>11, <1>12, <1>13,
     <1>14,
     <1>15, <1>16
        DEF U!Next, U!ListAnswer, U!OpenSome, U!GetAnswer, U!SaveAnswer,
            U!ProvisionAnswer

LEMMA UsersTell == ASSUME U!IInv
                   PROVE  U!PatientSeesWhatIsGranted /\ U!PatientSeesEveryUser
BY DEF U!IInv, U!PatientSeesWhatIsGranted, U!PatientSeesEveryUser, U!Quiet

\* An administrator who waits sees all users, and of one whose dialog is open the
\* roles and connections that are stored.
THEOREM UsersAlwaysSeen == Spec => []PatientSeesUsers
<1> DEFINE Holds == part = "users" => U!IInv
<1>1. Init => Holds
  BY UsersInit DEF Init
<1>2. Holds /\ [Next]_<<part, state>> => Holds'
  BY UsersStep DEF Next, state, U!vars, U!metaVars, U!history
<1>3. Holds => PatientSeesUsers
  BY UsersTell DEF PatientSeesUsers
<1> QED
  BY <1>1, <1>2, <1>3, PTL DEF Spec

-----------------------------------------------------------------------------
(* The overrides of a user: s1 is stored, s2 editUser, s3 connection,        *)
(* s5 overrides, s6 fetches, s7 saves, s8 matrixOf and s11 overlapped.       *)

LEMMA OverridesInit == ASSUME O!Init PROVE O!IInv
<1>1. PICK ts \in [Connections -> SUBSET MatrixTables] :
        /\ \A c \in Connections : ts[c] \subseteq TablesOf[c]
        /\ s1 = [u \in People |-> [c \in Connections |-> ts[c] \X {"deny"}]]
  BY DEF O!Init
<1>2. ASSUME NEW u \in People, NEW c \in Connections PROVE O!WellFormed(s1[u][c], c)
  BY <1>1 DEF O!WellFormed
<1>3. O!Selection = {} /\ O!Active = {}
  BY DEF O!Init, O!Selection, O!Active
<1> QED
  BY <1>1, <1>2, <1>3 DEF O!Init, O!IInv, O!MatrixIsOfUser, O!MatrixIsOfSelection

\* The selection is of one user and one connection, or there is none.
LEMMA SelectionIs ==
    ASSUME NEW user, NEW conn,
           user \in {{}} \union {{u} : u \in People}, conn \in {{}} \union {{c} : c \in Connections}
    PROVE  LET pairs == [user : user, connection : conn]
           IN  /\ user = {} \/ conn = {} => pairs = {}
               /\ pairs \subseteq [user : People, connection : Connections]
               /\ \A p \in pairs : pairs = {p} /\ user = {p.user} /\ conn = {p.connection}
<1> DEFINE pairs == [user : user, connection : conn]
<1>1. \A p \in pairs : p.user \in user /\ p.connection \in conn
                      /\ p = [user |-> p.user, connection |-> p.connection]
  OBVIOUS
<1>2. user \subseteq People /\ conn \subseteq Connections
  OBVIOUS
<1>3. \A p \in pairs : user = {p.user} /\ conn = {p.connection}
  BY <1>1
<1>4. \A p, q \in pairs : p = q
  <2>1. \A p, q \in pairs : p.user = q.user /\ p.connection = q.connection
    BY <1>1, <1>3
  <2> QED
    BY <1>1, <2>1
<1>5. \A p \in pairs : p \in [user : People, connection : Connections]
  BY <1>1, <1>2
<1>6. user = {} \/ conn = {} => pairs = {}
  BY <1>1
<1>7. \A p \in pairs : pairs = {p}
  BY <1>4
<1>8. pairs \subseteq [user : People, connection : Connections]
  BY <1>5
<1> HIDE DEF pairs
<1>9. /\ user = {} \/ conn = {} => pairs = {}
      /\ pairs \subseteq [user : People, connection : Connections]
      /\ \A p \in pairs : pairs = {p} /\ user = {p.user} /\ conn = {p.connection}
  BY <1>3, <1>6, <1>7, <1>8
<1> QED
  BY <1>9 DEF pairs

\* The request that counts is one for the selection.
LEMMA OverridesOnly ==
    ASSUME O!IInv, NEW f \in s6, ~f.cancelled
    PROVE  /\ O!Active = {f} /\ O!Selection = {f.of} /\ f.of \in [user : People, connection : Connections]
           /\ s2 = {f.of.user} /\ s3 = {f.of.connection}
<1>1. f \in O!Active
  BY DEF O!Active
<1>2. \A g \in O!Active : g \in s6 /\ ~g.cancelled /\ g.of \in O!Selection
  BY DEF O!Active, O!IInv
<1>3. \A p \in O!Selection : O!Selection = {p} /\ s2 = {p.user} /\ s3 = {p.connection}
                           /\ p \in [user : People, connection : Connections]
  BY SelectionIs DEF O!Selection, O!IInv
<1>4. \A g \in O!Active : g.of = f.of
  BY <1>1, <1>2, <1>3
<1>5. \A g \in O!Active : g = f
  BY <1>2, <1>4, SameQuery DEF O!IInv
<1> QED
  BY <1>1, <1>2, <1>3, <1>5

\* Reading back the rows of a connection gives the same rows.
LEMMA CellsAreRows ==
    ASSUME NEW u, NEW c, O!WellFormed(s1[u][c], c)
    PROVE  O!Rows(O!CellsOf([user |-> u, connection |-> c])) = s1[u][c]
<1> DEFINE cells == O!CellsOf([user |-> u, connection |-> c])
<1>1. DOMAIN cells = TablesOf[c]
      /\ \A t \in TablesOf[c] :
           cells[t] = IF <<t, "allow">> \in s1[u][c] THEN "allow"
                      ELSE IF <<t, "deny">> \in s1[u][c] THEN "deny" ELSE "inherit"
  BY DEF O!CellsOf
<1> HIDE DEF cells
<1>2. \A t \in TablesOf[c] : <<t, "allow">> \in s1[u][c] => <<t, "deny">> \notin s1[u][c]
  BY DEF O!WellFormed
<1>3. ASSUME NEW r \in s1[u][c] PROVE r \in O!Rows(cells)
  <2>1. PICK t \in TablesOf[c], e \in {"allow", "deny"} : r = <<t, e>>
    BY <1>3 DEF O!WellFormed
  <2>2. cells[t] = e
    BY <1>1, <1>2, <1>3, <2>1
  <2> QED
    BY <1>1, <2>1, <2>2 DEF O!Rows
<1>4. ASSUME NEW r \in O!Rows(cells) PROVE r \in s1[u][c]
  <2>1. PICK t \in TablesOf[c] : cells[t] # "inherit" /\ r = <<t, cells[t]>>
    BY <1>1 DEF O!Rows
  <2> QED
    BY <1>1, <2>1
<1> QED
  BY <1>3, <1>4 DEF cells

\* What is saved of cells is well formed.
LEMMA RowsAreWellFormed ==
    ASSUME NEW c, NEW matrix \in [TablesOf[c] -> O!Effects]
    PROVE  O!WellFormed(O!Rows(matrix), c)
<1>1. \A r \in O!Rows(matrix) : \E t \in TablesOf[c] : r = <<t, matrix[t]>> /\ matrix[t] \in {"allow", "deny"}
  BY DEF O!Rows, O!Effects
<1>2. O!Rows(matrix) \subseteq TablesOf[c] \X {"allow", "deny"}
  BY <1>1
<1>3. \A t \in TablesOf[c] : ~({<<t, "allow">>, <<t, "deny">>} \subseteq O!Rows(matrix))
  BY <1>1
<1> QED
  BY <1>2, <1>3 DEF O!WellFormed

LEMMA OverridesEffect ==
    ASSUME O!IInv, NEW user, NEW conn, O!Effect(user, conn),
           s2 = user \/ s2 = {} \/ user = {},
           user \in {{}} \union {{u} : u \in People}, conn \in {{}} \union {{c} : c \in Connections},
           s2 = {} => conn = {}
    PROVE  O!IInv'
<1> DEFINE asked == [of : [user : user, connection : conn], cancelled : {FALSE}]
<1>1. O!Cancelled \subseteq [of : [user : People, connection : Connections], cancelled : BOOLEAN]
      /\ \A f \in O!Cancelled : f.cancelled
  <2>1. \A f \in [of : [user : People, connection : Connections], cancelled : BOOLEAN] :
          /\ [f EXCEPT !.cancelled = TRUE].cancelled
          /\ [f EXCEPT !.cancelled = TRUE]
               \in [of : [user : People, connection : Connections], cancelled : BOOLEAN]
    OBVIOUS
  <2> QED
    BY <2>1 DEF O!Cancelled, O!IInv
<1>2. asked \subseteq [of : [user : People, connection : Connections], cancelled : BOOLEAN]
      /\ \A f \in asked : ~f.cancelled /\ f.of \in [user : user, connection : conn]
  BY SelectionIs
<1>3. s2' = user /\ s3' = conn /\ O!Selection' = [user : user, connection : conn]
      /\ UNCHANGED <<s1, s7>> /\ s11' = (s11 \/ ~O!Quiet)
  BY DEF O!Effect, O!Selection
<1>4. ~s11' => ~s11 /\ s7' = {}
  BY <1>3 DEF O!Quiet, O!IInv
<1>5. CASE user = {} \/ conn = {}
  <2>1. /\ s4' = {} /\ s5' = O!NoMatrix /\ s6' = O!Cancelled
        /\ s8' = {} /\ s9' = FALSE /\ s10' = FALSE
    BY <1>5 DEF O!Effect
  <2>2. O!Active' = {} /\ O!Selection' = {}
    BY <1>1, <1>3, <1>5, <2>1, SelectionIs DEF O!Active
  <2> QED
    BY <1>1, <1>3, <1>4, <1>5, <2>1, <2>2
       DEF O!IInv, O!MatrixIsOfUser, O!MatrixIsOfSelection
<1>6. CASE ~(user = {} \/ conn = {})
  <2>1. /\ s6' = O!Cancelled \union asked
        /\ UNCHANGED <<s4, s5, s8, s9, s10>> /\ user = s2
    BY <1>6 DEF O!Effect
  <2>2. PICK u \in user, c \in conn : TRUE
    BY <1>6
  <2>3. [of |-> [user |-> u, connection |-> c], cancelled |-> FALSE] \in asked
    OBVIOUS
  <2>4. O!Active' # {} /\ \A f \in O!Active' : f.of \in O!Selection'
    BY <1>1, <1>2, <1>3, <2>1, <2>3 DEF O!Active
  <2>5. s6' \subseteq [of : [user : People, connection : Connections], cancelled : BOOLEAN]
    BY <1>1, <1>2, <2>1
  <2> QED
    BY <1>3, <1>4, <2>1, <2>4, <2>5 DEF O!IInv, O!MatrixIsOfUser, O!MatrixIsOfSelection
<1> QED
  BY <1>5, <1>6

LEMMA OverridesAnswered == ASSUME O!IInv, NEW f \in s6, O!Answered(f) PROVE O!IInv'
<1>1. CASE f.cancelled
  <2>1. O!Active' = O!Active /\ s6' \subseteq s6
    BY <1>1 DEF O!Answered, O!Active
  <2>2. UNCHANGED <<s1, s2, s3, s4, s5, s7, O!history>>
    BY <1>1 DEF O!Answered, O!history
  <2> QED
    BY <2>1, <2>2
       DEF O!IInv, O!history, O!Selection, O!MatrixIsOfUser, O!MatrixIsOfSelection
<1>2. CASE ~f.cancelled
  <2>1. /\ O!Active = {f} /\ O!Selection = {f.of} /\ f.of \in [user : People, connection : Connections]
        /\ s2 = {f.of.user} /\ s3 = {f.of.connection}
    BY <1>2, OverridesOnly
  <2>2. /\ s6' = s6 \ {f} /\ s4' = TablesOf[f.of.connection] /\ s5' = O!CellsOf(f.of)
        /\ s8' = {f.of} /\ s9' = FALSE /\ s10' = FALSE
        /\ UNCHANGED <<s1, s2, s3, s7, s11>>
    BY <1>2 DEF O!Answered
  <2>3. O!Active' = {} /\ O!Selection' = {f.of}
    BY <2>1, <2>2 DEF O!Active, O!Selection
  <2>4. s5' \in [s4' -> O!Effects]
    BY <2>2 DEF O!CellsOf, O!Effects
  <2>5. f.of = [user |-> f.of.user, connection |-> f.of.connection]
    BY <2>1
  <2>6. ~s11 => O!Rows(s5)' = s1'[f.of.user][f.of.connection]
    <3> DEFINE u == f.of.user
               c == f.of.connection
    <3>1. u \in People /\ c \in Connections
      BY <2>1
    <3> HIDE DEF u, c
    <3>2. ~s11 => O!Rows(O!CellsOf([user |-> u, connection |-> c])) = s1[u][c]
      BY <3>1, CellsAreRows DEF O!IInv
    <3>3. O!Rows(s5)' = O!Rows(O!CellsOf(f.of))
      BY <2>2 DEF O!Rows
    <3> QED
      BY <2>2, <2>5, <3>2, <3>3 DEF u, c
  <2>7. ~s11 => s7 = {}
    BY <2>1 DEF O!IInv
  <2> QED
    BY <2>1, <2>2, <2>3, <2>4, <2>6, <2>7
       DEF O!IInv, O!MatrixIsOfUser, O!MatrixIsOfSelection
<1> QED
  BY <1>1, <1>2

LEMMA OverridesStep == ASSUME O!IInv, O!Next \/ UNCHANGED O!vars PROVE O!IInv'
<1>1. CASE O!OpenEdit \/ O!Close \/ O!SelectConnection
  <2>1. CASE O!OpenEdit
    BY <2>1, OverridesEffect DEF O!OpenEdit, O!IInv
  <2>2. CASE O!Close
    BY <2>2, OverridesEffect DEF O!Close, O!IInv
  <2>3. CASE O!SelectConnection
    BY <2>3, OverridesEffect DEF O!SelectConnection, O!IInv
  <2> QED
    BY <1>1, <2>1, <2>2, <2>3
<1>2. CASE O!ToggleOverride
  <2>1. PICK t \in s4 :
          s5' = [u \in DOMAIN s5 \union {t} |->
                          IF u # t THEN s5[u]
                          ELSE O!cycleOverrideValue[IF t \in DOMAIN s5 THEN s5[t]
                                                  ELSE "inherit"]]
    BY <1>2 DEF O!ToggleOverride
  <2>2. s8 # {} /\ s5 \in [s4 -> O!Effects]
    BY <2>1 DEF O!IInv
  <2>3. \A e \in O!Effects : O!cycleOverrideValue[e] \in O!Effects
    BY DEF O!Effects, O!cycleOverrideValue
  <2>4. s5' \in [s4 -> O!Effects]
    BY <2>1, <2>2, <2>3
  <2>5. /\ UNCHANGED <<s1, s2, s3, s4, s6, s7, s8, s9>>
        /\ s10' = TRUE /\ s11' = (s11 \/ ~O!Quiet)
    BY <1>2 DEF O!ToggleOverride
  <2>6. O!Selection' = O!Selection /\ O!Active' = O!Active
    BY <2>5 DEF O!Selection, O!Active
  <2>7. ~s11' => ~s11 /\ s7' = {}
    BY <2>5 DEF O!Quiet
  <2> QED
    BY <2>2, <2>4, <2>5, <2>6, <2>7 DEF O!IInv, O!MatrixIsOfUser, O!MatrixIsOfSelection
<1>3. CASE O!SaveOverrides
  <2>1. /\ UNCHANGED <<s1, s2, s3, s4, s5, s6, s8, s9, s10>>
        /\ s7' = [of : O!Selection, overrides : {s5}]
        /\ s11' = (s11 \/ s9 \/ ~O!Quiet)
    BY <1>3 DEF O!SaveOverrides
  <2>2. O!Selection' = O!Selection /\ O!Active' = O!Active
    BY <2>1 DEF O!Selection, O!Active
  <2>3. \A s \in s7' : /\ s.of \in O!Selection /\ s.overrides = s5
                       /\ s.of \in [user : People, connection : Connections]
    BY <2>1, SelectionIs DEF O!IInv, O!Selection
  <2>4. ~s11' => ~s11 /\ ~s9 /\ O!Active' = {}
    BY <2>1, <2>2 DEF O!Quiet
  <2> QED
    BY <2>1, <2>2, <2>3, <2>4
       DEF O!IInv, O!MatrixIsOfUser, O!MatrixIsOfSelection, O!Rows
<1>4. ASSUME NEW f \in s6, O!FetchFails(f) PROVE O!IInv'
  <2>1. /\ UNCHANGED <<s1, s2, s3, s4, s5, s7, s8, s10, s11>>
        /\ s9' = (s9 \/ ~f.cancelled) /\ s6' = s6 \ {f}
    BY <1>4 DEF O!FetchFails
  <2>2. O!Selection' = O!Selection /\ (f.cancelled => O!Active' = O!Active) /\ O!Active' \subseteq O!Active
    BY <2>1 DEF O!Selection, O!Active
  <2>3. ~f.cancelled => O!Active # {}
    BY DEF O!Active
  <2>4. s6' \subseteq [of : [user : People, connection : Connections], cancelled : BOOLEAN]
    BY <2>1 DEF O!IInv
  <2>5. O!MatrixIsOfUser' /\ O!Rows(s5)' = O!Rows(s5)
    BY <2>1 DEF O!IInv, O!MatrixIsOfUser, O!Rows
  <2>6. \A u \in People, c \in Connections : O!WellFormed(s1[u][c], c)' <=> O!WellFormed(s1[u][c], c)
    BY <2>1 DEF O!WellFormed
  <2>7. CASE f.cancelled
    <3>1. O!MatrixIsOfSelection' /\ (s9' <=> s9)
      BY <2>1, <2>2, <2>7 DEF O!IInv, O!MatrixIsOfSelection
    <3> QED
      BY <2>1, <2>2, <2>4, <2>7, <2>5, <2>6, <3>1 DEF O!IInv
  <2>8. CASE ~f.cancelled
    <3>1. O!MatrixIsOfSelection' /\ s9' /\ (~s11 => s7 = {})
      BY <2>1, <2>3, <2>8 DEF O!IInv, O!MatrixIsOfSelection
    <3> QED
      BY <2>1, <2>2, <2>4, <2>8, <2>5, <2>6, <3>1 DEF O!IInv
  <2> QED
    BY <2>7, <2>8
<1>5. CASE O!SaveFails
  BY <1>5 DEF O!SaveFails, O!IInv, O!history, O!Active, O!Selection, O!MatrixIsOfUser,
              O!MatrixIsOfSelection, O!Rows
<1>6. ASSUME NEW s \in s7, O!Saved(s) PROVE O!IInv'
  <2>1. /\ UNCHANGED <<s2, s3, s4, s5, s6, s8, s9, s11>>
        /\ s1' = [s1 EXCEPT ![s.of.user][s.of.connection] = O!Rows(s.overrides)]
        /\ s7' = {} /\ s10' = (s10 /\ s.overrides # s5)
    BY <1>6 DEF O!Saved
  <2>2. s.of \in [user : People, connection : Connections]
    BY DEF O!IInv
  <2>3. PICK u \in People, c \in Connections : u = s.of.user /\ c = s.of.connection
    BY <2>2
  <2>4. s1' = [s1 EXCEPT ![u][c] = O!Rows(s.overrides)]
    BY <2>1, <2>3
  <2>5. /\ DOMAIN s1' = People /\ \A v \in People : DOMAIN s1'[v] = Connections
        /\ s1'[u][c] = O!Rows(s.overrides)
        /\ \A v \in People, d \in Connections : v # u \/ d # c => s1'[v][d] = s1[v][d]
    BY <2>3, <2>4 DEF O!IInv
  <2>6. O!Selection' = O!Selection /\ O!Active' = O!Active
    BY <2>1 DEF O!Selection, O!Active
  <2>7. ASSUME ~s11
        PROVE  /\ \A v \in People, d \in Connections : O!WellFormed(s1'[v][d], d)
               /\ \A v \in s2, d \in s3 : O!Rows(s5) = s1'[v][d]
    <3>1. s.overrides = s5 /\ s.of \in O!Selection /\ O!Active = {} /\ ~s9
      BY <2>7 DEF O!IInv
    <3>2. O!Selection = {s.of} /\ s2 = {u} /\ s3 = {c} /\ s8 = {s.of}
      BY <2>3, <3>1, SelectionIs DEF O!Selection, O!IInv, O!MatrixIsOfSelection
    <3>3. s5 \in [TablesOf[c] -> O!Effects]
      BY <2>3, <3>2 DEF O!IInv
    <3>4. O!WellFormed(O!Rows(s5), c)
      BY <3>3, RowsAreWellFormed
    <3> QED
      BY <2>3, <2>5, <2>7, <3>1, <3>2, <3>4 DEF O!IInv
  <2>8. ~s11 => \A v \in People, d \in Connections : O!WellFormed(s1[v][d], d)'
    BY <2>7 DEF O!WellFormed
  <2> QED
    <3>1. O!MatrixIsOfUser' /\ O!MatrixIsOfSelection'
      BY <2>1, <2>6 DEF O!IInv, O!MatrixIsOfUser, O!MatrixIsOfSelection
    <3>2. O!Rows(s5)' = O!Rows(s5)
      BY <2>1 DEF O!Rows
    <3> QED
      BY <2>1, <2>5, <2>6, <2>7, <2>8, <3>1, <3>2 DEF O!IInv
<1>7. CASE UNCHANGED O!vars
  BY <1>7 DEF O!vars, O!IInv, O!history, O!Active, O!Selection, O!MatrixIsOfUser,
              O!MatrixIsOfSelection, O!Rows, O!WellFormed
<1> QED
  BY <1>1, <1>2, <1>3, <1>4, <1>5, <1>6, <1>7, OverridesAnswered
     DEF O!Next, O!FetchAnswer, O!SaveAnswer

LEMMA OverridesTell ==
    ASSUME O!IInv
    PROVE  O!MatrixIsOfUser /\ O!MatrixIsOfSelection /\ O!PatientSeesWhatIsStored
BY DEF O!IInv, O!PatientSeesWhatIsStored, O!Quiet

\* The cells of the overrides are of the dialog's user and of the connection
\* selected, and what is stored for whoever waits.
THEOREM OverridesAlwaysOfUser == Spec => []OverridesAreOfUser
<1> DEFINE Holds == part = "overrides" => O!IInv
<1>1. Init => Holds
  BY OverridesInit DEF Init
<1>2. Holds /\ [Next]_<<part, state>> => Holds'
  BY OverridesStep DEF Next, state, O!vars, O!history
<1>3. Holds => OverridesAreOfUser
  BY OverridesTell DEF OverridesAreOfUser
<1> QED
  BY <1>1, <1>2, <1>3, PTL DEF Spec

-----------------------------------------------------------------------------
(* The frame around every page: s1 is admin, s2 member, s3 rights, s4 setup, *)
(* s6 path, s9 layout, s14 linked and s15 stayed.                            *)

LEMMA ShellInit == ASSUME D!Init PROVE D!IInv
BY DEF D!Init, D!IInv, D!RenderLayout, D!Accessible, D!Home, D!getConnectionContext,
       D!parseConnectionIdFromPathname

\* A context is the one of the connection that it names.
LEMMA ContextIs ==
    ASSUME NEW c PROVE \A x \in D!getConnectionContext(c) :
                             D!getConnectionContext(c) = D!getConnectionContext(x.id)
BY DEF D!getConnectionContext

\* A redirect goes to the connection of the page, or home.
LEMMA RedirectIs ==
    ASSUME NEW p PROVE D!RenderPage(p).conn \in {p.conn, "none"}
BY DEF D!RenderPage, D!ToHome, D!ToSetup, D!ToTables, D!Home, D!SetupPage, D!TablesPage

LEMMA ShellLoads == ASSUME D!IInv, NEW loc, NEW p, D!Loaded(loc, p) PROVE D!IInv'
<1>1. D!RenderPage(p).conn \in D!Accessible \union {"none"}
  BY RedirectIs DEF D!Loaded, D!Found
<1>2. /\ UNCHANGED D!server /\ s6' = D!RenderPage(p) /\ s15' = TRUE
      /\ s9' = D!RenderLayout(loc, D!RenderPage(p))
  BY DEF D!Loaded
<1>3. \A x \in s9'.context : s9'.context = D!getConnectionContext(x.id)
  BY <1>2, ContextIs DEF D!RenderLayout
<1> QED
  BY <1>1, <1>2, <1>3 DEF D!IInv, D!server, D!RenderLayout, D!Accessible, D!Readable,
                          D!getConnectionContext, D!parseConnectionIdFromPathname

\* The frame stays as it was rendered, and the page as it was found; how far a
\* connection is set up is not in the frame.
LEMMA ShellKeeps ==
    ASSUME D!IInv, UNCHANGED <<s1, s2, s3, s6, s9, s14, s15>>,
           NEW st \in [Connections -> D!Stages], s4' = st
    PROVE  D!IInv'
BY DEF D!IInv, D!Accessible, D!Readable, D!getConnectionContext

LEMMA ShellStep == ASSUME D!IInv, D!Next \/ UNCHANGED D!vars PROVE D!IInv'
<1>1. s4 \in [Connections -> D!Stages]
  BY DEF D!IInv
<1>2. CASE D!Reload \/ D!TypeAddress \/ D!LocaleSwitcher
  BY <1>2, ShellLoads DEF D!Reload, D!TypeAddress, D!LocaleSwitcher
<1>3. CASE D!OthersChange
  <2>1. s2' \subseteq Connections
    BY <1>3 DEF D!OthersChange, D!Promoted, D!Granted, D!TablesChange, D!IInv
  <2> QED
    BY <1>3, <2>1 DEF D!OthersChange, D!IInv
<1>4. ASSUME NEW c \in Connections, D!SetupChange(c) PROVE D!IInv'
  <2>1. PICK stage \in D!Stages : s4' = [s4 EXCEPT ![c] = stage]
    BY <1>4 DEF D!SetupChange
  <2>2. [s4 EXCEPT ![c] = stage] \in [Connections -> D!Stages]
    BY <1>1
  <2> QED
    BY <1>4, <2>1, <2>2, ShellKeeps DEF D!SetupChange, D!router, D!history
<1>5. CASE D!FollowMenu \/ D!FollowPage \/ D!FollowBreadcrumb \/ D!Connect
  BY <1>1, <1>5, ShellKeeps
     DEF D!FollowMenu, D!FollowPage, D!FollowBreadcrumb, D!Navigate, D!Connect,
         D!server, D!history
<1>6. ASSUME NEW p, D!Arrive(p) PROVE D!IInv'
  <2>1. p.conn \in D!Accessible \union {"none"} /\ s6' = p
    BY <1>6 DEF D!Arrive, D!Found
  <2>2. UNCHANGED <<D!server, s9, s15>> /\ (~s14' => ~s14 /\ s6'.conn = s6.conn)
    BY <1>6, <2>1 DEF D!Arrive
  <2> QED
    BY <2>1, <2>2 DEF D!IInv, D!server, D!Accessible, D!Readable, D!getConnectionContext
<1>7. ASSUME NEW p, D!Redirected(p) \/ D!NotFound(p) PROVE D!IInv'
  BY <1>1, <1>7, ShellKeeps DEF D!Redirected, D!NotFound, D!server, D!history
<1>8. CASE D!Refreshed
  <2>1. /\ UNCHANGED D!server /\ s6' = s6 /\ s6.conn \in D!Accessible \union {"none"}
        /\ s9' = D!RenderLayout(s5, s6)
    BY <1>8 DEF D!Refreshed, D!Found
  <2>2. \A x \in s9'.context : s9'.context = D!getConnectionContext(x.id)
    BY <2>1, ContextIs DEF D!RenderLayout
  <2> QED
    BY <2>1, <2>2 DEF D!IInv, D!server, D!RenderLayout, D!Accessible, D!Readable,
                      D!getConnectionContext, D!parseConnectionIdFromPathname
<1>9. CASE D!RefreshedAway
  BY <1>9, ShellLoads DEF D!RefreshedAway
<1>10. CASE D!Resize \/ D!Trigger \/ D!Dismiss
  BY <1>1, <1>10, ShellKeeps
     DEF D!Resize, D!Trigger, D!Dismiss, D!server, D!router, D!history
<1>11. CASE UNCHANGED D!vars
  BY <1>1, <1>11, ShellKeeps DEF D!vars, D!server, D!router, D!history
<1> QED
  BY <1>2, <1>3, <1>4, <1>5, <1>6, <1>7, <1>8, <1>9, <1>10, <1>11
     DEF D!Next, D!ServerAnswer

\* The page of a connection's setup is there where a page of it redirects there.
LEMMA SetupIsThere ==
    ASSUME NEW p, p.conn \in D!Accessible, p.conn \in Connections, D!ToSetup(p)
    PROVE  D!LeadsTo(p)
<1> DEFINE c == p.conn
           q == D!SetupPage(c)
<1>1. s4[c] \in {"pending", "ready"} /\ D!SetupFound(q)
  BY DEF D!ToSetup, D!SetupFound, D!SetupPage
<1>2. D!RenderPage(p) = q /\ p # q
  BY ListAssumption DEF D!RenderPage, D!ToHome, D!ToSetup, D!ToTables, D!SetupPage
<1>3. D!RenderPage(q) = q
  BY <1>1, ListAssumption DEF D!RenderPage, D!ToHome, D!ToSetup, D!ToTables, D!SetupPage
<1>4. q \notin D!TablePages
  BY DEF D!SetupPage, D!TablePages, D!Routes
<1>5. D!Found(q)
  BY <1>1, <1>3, <1>4 DEF D!Found, D!SetupPage
<1>6. D!Found(p)
  BY <1>2 DEF D!Found
<1> QED
  BY <1>1, <1>2, <1>5, <1>6 DEF D!LeadsTo

LEMMA ShellTells == ASSUME D!IInv PROVE D!MenuLeadsSomewhere /\ D!FrameIsOfItsRequest
<1>1. D!Accessible \subseteq Connections
  BY DEF D!Accessible, D!IInv
<1>2. ASSUME s15, NEW p \in D!MenuLinks PROVE D!LeadsTo(p) \/ D!MayBeAstray(p)
  <2>1. CASE p = D!Home \/ p \in (IF s9.admin
                                 THEN [conn : {"none"}, page : D!AdminPages] ELSE {})
    <3>1. p.conn = "none" /\ ~D!ToHome(p)
      BY <1>2, <2>1 DEF D!Home, D!ToHome, D!AdminPages, D!IInv
    <3>2. D!RenderPage(p) = p
      BY <3>1 DEF D!RenderPage, D!ToSetup, D!ToTables
    <3> QED
      BY <3>1, <3>2, ListAssumption DEF D!LeadsTo, D!Found, D!TablePages, D!SetupPage
  <2>2. CASE p \in {D!TablesPage(c) : c \in s9.connections}
    <3>1. PICK c \in D!Accessible : p = D!TablesPage(c)
      BY <1>2, <2>2 DEF D!IInv
    <3>2. p.conn = c /\ p.page = "tables" /\ c \in Connections /\ c # "none"
      BY <1>1, <3>1, ListAssumption DEF D!TablesPage
    <3>3. CASE D!ToSetup(p)
      BY <3>2, <3>3, SetupIsThere
    <3>4. CASE ~D!ToSetup(p)
      <4>1. D!RenderPage(p) = p
        BY <3>2, <3>4 DEF D!RenderPage, D!ToHome, D!ToTables
      <4> QED
        BY <3>2, <4>1, ShellAssumption DEF D!LeadsTo, D!Found, D!TablePages, D!SetupPage
    <3> QED
      BY <3>3, <3>4
  <2>3. CASE p \in [conn : {D!activeConnectionId}, page : D!MenuTables]
    <3>1. p.conn = D!activeConnectionId /\ p.page \in D!MenuTables
      BY <2>3
    <3>2. D!activeConnectionId \in s9.connections
      BY <3>1 DEF D!MenuTables
    <3>3. p.conn \in D!Accessible /\ p.conn \in Connections /\ p.conn # "none"
      BY <1>1, <1>2, <3>1, <3>2, ListAssumption DEF D!IInv
    <3>4. CASE D!ToSetup(p)
      BY <3>3, <3>4, SetupIsThere
    <3>5. CASE ~D!ToSetup(p) /\ ~D!MayBeAstray(p)
      <4>1. /\ p.conn \in {x.id : x \in s9.context}
            /\ p.page \in s3[p.conn].cached /\ p.page \notin D!Routes
        BY <3>1, <3>3, <3>5 DEF D!MayBeAstray
      <4>2. p.page \in D!Readable(p.conn)
        BY <1>2, <3>1, <4>1 DEF D!MenuTables, D!IInv, D!getConnectionContext
      <4>3. D!RenderPage(p) = p
        BY <3>3, <3>5, <4>1 DEF D!RenderPage, D!ToHome, D!ToTables, D!Routes
      <4>4. D!TableFound(p) /\ p \notin {D!SetupPage(c) : c \in Connections}
        BY <4>1, <4>2 DEF D!TableFound, D!SetupPage, D!Routes
      <4> QED
        BY <3>3, <4>3, <4>4 DEF D!LeadsTo, D!Found
    <3> QED
      BY <3>4, <3>5
  <2> QED
    BY <2>1, <2>2, <2>3 DEF D!MenuLinks
<1>3. ASSUME ~s14, s15, s6.conn # "none"
      PROVE  D!MenuTables = D!Readable(s6.conn) /\ D!buildBreadcrumbs = {s6.conn}
  <2>1. /\ s6.conn \in D!Accessible /\ s9.connections = D!Accessible
        /\ s9.context = {[id |-> s6.conn, tables |-> D!Readable(s6.conn)]}
    BY <1>3 DEF D!IInv, D!getConnectionContext
  <2> QED
    BY <1>3, <2>1 DEF D!MenuTables, D!activeConnectionId, D!buildBreadcrumbs
<1> QED
  BY <1>2, <1>3 DEF D!MenuLeadsSomewhere, D!FrameIsOfItsRequest

\* While nobody changes what the user may see the entries of his menu lead to their
\* pages, or to the setup of a connection that needs more, unless they are of a
\* table that is gone, has the name of a page, or is of another connection than
\* that of the address; and the tables and breadcrumbs of a layout are those of its
\* request until a link leads to another connection.
THEOREM MenuAlwaysTrue == Spec => []MenuIsTrue
<1> DEFINE Holds == part = "shell" => D!IInv
<1>1. Init => Holds
  BY ShellInit DEF Init
<1>2. Holds /\ [Next]_<<part, state>> => Holds'
  BY ShellStep DEF Next, state, D!vars, D!server, D!router, D!sidebar, D!history
<1>3. Holds => MenuIsTrue
  BY ShellTells DEF MenuIsTrue
<1> QED
  BY <1>1, <1>2, <1>3, PTL DEF Spec

-----------------------------------------------------------------------------
(* The pages of a connection: s1 is done, s2 exists, s3 role, s5 page,       *)
(* s6 render, s7 panel, s11 noise and s12 redirects.                         *)

LEMMA StepsAre ==
    /\ C!ReadAt["connection"] = {"bootstrap", "schemaSynced"}
    /\ C!ReadAt["permissions"] = {"rolesConfigured"}
    /\ C!ReadAt["mappings"] = {"usersProvisioned"}
    /\ C!After["connection"] = "permissions" /\ C!After["permissions"] = "mappings"
    /\ DOMAIN C!ReadAt = {"connection", "permissions", "mappings"}
BY DEF C!ReadAt, C!After

LEMMA FreshIs ==
    /\ C!Fresh \in C!Renders /\ C!Fresh.at = "profile"
    /\ C!NoPanel \in C!Panels /\ ~C!NoPanel.mounted
BY DEF C!Fresh, C!Renders, C!NoPanel, C!Panels, C!Awaits, C!UserRoles

\* A page that was asked for has read nothing yet.
LEMMA FreshIsCurrent ==
    ASSUME NEW p, C!Goto(p)
    PROVE  C!Current' /\ s6' = C!Fresh /\ s6'.at = "profile" /\ s5' = p
BY FreshIs DEF C!Goto, C!Current, C!QuietPageIsRight, C!Onboarding

LEMMA PagesInit == ASSUME C!Init PROVE C!IInv
<1>1. /\ s1 \subseteq C!Steps /\ (~s2 => s1 = {}) /\ s3 \in C!UserRoles /\ s5 \in C!PageNames
      /\ s7 = C!NoPanel /\ s12 = 0 /\ s11 = 0
  BY DEF C!Init
<1>2. CASE s5 = "new"
  <2>1. s6 = [C!Fresh EXCEPT !.at = "shown"]
    BY <1>2 DEF C!Init
  <2>2. s6 \in C!Renders
    BY <2>1 DEF C!Fresh, C!Renders, C!UserRoles, C!Outcomes
  <2> QED
    BY <1>1, <1>2, <2>2, FreshIs DEF C!IInv, C!Settled, C!Current
<1>3. CASE s5 # "new"
  <2>1. s6 = C!Fresh
    BY <1>3 DEF C!Init
  <2>2. C!Current
    BY <2>1, FreshIs DEF C!Current, C!QuietPageIsRight, C!Onboarding
  <2> QED
    BY <1>1, <1>3, <2>1, <2>2, FreshIs DEF C!IInv
<1> QED
  BY <1>2, <1>3

\* A navigation starts anew.
LEMMA Navigated ==
    ASSUME C!IInv, NEW p \in C!PageNames, C!Goto(p), NEW n \in Nat, s11' = n, s12' = 0,
           s7' = C!NoPanel \/ (UNCHANGED s7 /\ ~s7.mounted),
           s1' \subseteq C!Steps, ~s2' => s1' = {}, s3' \in C!UserRoles
    PROVE  C!IInv'
<1>1. s12' \in Nat /\ s11' \in Nat /\ s12' <= 2 * s11'
  OBVIOUS
<1>2. C!Current' /\ s6' = C!Fresh /\ s6'.at = "profile" /\ s5' = p
  BY FreshIsCurrent
<1>3. s7' \in C!Panels /\ ~s7'.mounted
  BY FreshIs DEF C!IInv
<1> QED
  BY <1>1, <1>2, <1>3, FreshIs DEF C!IInv

\* What is read stays true of a world that nobody changes.
LEMMA Stays ==
    ASSUME C!IInv, UNCHANGED <<s1, s2, s3, s5, s11, s12>>, C!Current => C!Current',
           s6' \in C!Renders, s7' \in C!Panels, s6'.at # "wizard" => ~s7'.mounted,
           s7'.mounted => s7.mounted \/ s5 # "new"
    PROVE  C!IInv'
BY DEF C!IInv, C!Settled, C!Complete

\* A change, or a read that fails, allows for two more redirects.
LEMMA Disturbed ==
    ASSUME C!IInv, s11' = s11 + 1, UNCHANGED <<s5, s12>>,
           s1' \subseteq C!Steps, ~s2' => s1' = {}, s3' \in C!UserRoles,
           s6' \in C!Renders, s7' \in C!Panels, s6'.at # "wizard" => ~s7'.mounted,
           s7'.mounted => s7.mounted \/ s5 # "new"
    PROVE  C!IInv'
<1>1. s12' + 1 <= 2 * s11'
  BY DEF C!IInv
<1> QED
  BY <1>1 DEF C!IInv

LEMMA DisturbedRedirect ==
    ASSUME C!IInv, NEW p \in {"setup", "tables"}, C!Redirect(p), s11' = s11 + 1,
           UNCHANGED C!world,
           s6.at # "wizard", s5 # "new"
    PROVE  C!IInv'
<1>1. s12' \in Nat /\ s12' <= s12 + 1
  BY DEF C!Redirect, C!IInv
<1>2. s12' <= 2 * s11' /\ s11' \in Nat
  BY <1>1 DEF C!IInv
<1>3. /\ C!Current' /\ s6' = C!Fresh /\ s5' = p /\ UNCHANGED s7
  BY FreshIsCurrent DEF C!Redirect
<1>4. s5' \in C!PageNames /\ s5' # "new"
  BY <1>3 DEF C!PageNames
<1> QED
  BY <1>1, <1>2, <1>3, <1>4, FreshIs DEF C!IInv, C!world

\* A redirect of a page that is current leads to one that is not redirected.
LEMMA Redirected ==
    ASSUME C!IInv, NEW p \in {"setup", "tables"}, C!Redirect(p), C!Calm, ~C!Settled,
           C!Current => /\ p = "setup" => ~(s3 = "platform_admin" /\ C!Complete)
                        /\ p = "tables" => C!Complete,
           s6.at # "wizard", s5 # "new"
    PROVE  C!IInv'
<1>1. s12' \in Nat /\ s12' <= s12 + 1
  BY DEF C!Redirect, C!IInv
<1>2. UNCHANGED <<C!world, s11, s7>>
  BY DEF C!Calm, C!Redirect
<1>3. /\ C!Current' /\ s6' = C!Fresh /\ s5' = p
  BY FreshIsCurrent DEF C!Redirect
<1>4. CASE C!Current
  <2>1. C!Settled'
    BY <1>2, <1>3, <1>4 DEF C!Settled, C!Complete, C!Steps, C!world
  <2>2. s12' <= 2 * s11' + 1
    BY <1>1, <1>2 DEF C!IInv
  <2> QED
    BY <1>1, <1>2, <1>3, <2>1, <2>2, FreshIs DEF C!IInv, C!world, C!PageNames
<1>5. CASE ~C!Current
  <2>1. s12' <= 2 * s11'
    BY <1>1, <1>2, <1>5 DEF C!IInv
  <2> QED
    BY <1>1, <1>2, <1>3, <2>1, FreshIs DEF C!IInv, C!world, C!PageNames
<1> QED
  BY <1>4, <1>5

LEMMA ReadsProfile == ASSUME C!IInv, C!ReadProfile PROVE C!IInv'
<1>1. /\ s6' = [s6 EXCEPT !.at = "status", !.role = s3] /\ s5 # "new" /\ s6.at = "profile"
      /\ UNCHANGED <<C!world, s5, s7, s11, s12>>
  BY DEF C!ReadProfile, C!At, C!Continue, C!Calm
<1>2. s6' \in C!Renders /\ s6'.at = "status" /\ s6'.role = s3
  BY <1>1 DEF C!IInv, C!Renders, C!Awaits
<1>3. C!Current'
  BY <1>1, <1>2 DEF C!Current, C!Onboarding, C!QuietPageIsRight, C!world
<1> QED
  BY <1>1, <1>2, <1>3, Stays DEF C!IInv, C!world

LEMMA ReadsStatus == ASSUME C!IInv, C!ReadStatus PROVE C!IInv'
<1>1. PICK ready \in BOOLEAN :
         /\ ready => "bootstrap" \in s1
         /\ IF ready <=> "bootstrap" \in s1 THEN C!Calm ELSE C!Disturb /\ UNCHANGED C!world
         /\ IF s5 # "setup" /\ ~ready THEN C!Redirect("setup")
            ELSE C!Continue([s6 EXCEPT !.ready = ready,
                             !.at = IF s5 = "tables" /\ s6.role = "platform_admin"
                                    THEN "exists" ELSE "access"])
  BY DEF C!ReadStatus
<1>2. s6.at = "status" /\ s5 # "new"
  BY DEF C!ReadStatus, C!At
<1>3. CASE s5 # "setup" /\ ~ready /\ (ready <=> "bootstrap" \in s1)
  <2>1. C!Redirect("setup") /\ C!Calm
    BY <1>1, <1>3
  <2>2. ~C!Settled /\ ~C!Complete
    BY <1>2, <1>3 DEF C!Settled, C!Complete, C!Steps, C!IInv, C!PageNames
  <2> QED
    BY <1>2, <2>1, <2>2, Redirected
<1>4. CASE s5 # "setup" /\ ~ready /\ ~(ready <=> "bootstrap" \in s1)
  <2>1. C!Redirect("setup") /\ s11' = s11 + 1 /\ UNCHANGED C!world
    BY <1>1, <1>4 DEF C!Disturb
  <2> QED
    BY <1>2, <2>1, DisturbedRedirect
<1>5. CASE ~(s5 # "setup" /\ ~ready)
  <2> DEFINE next == IF s5 = "tables" /\ s6.role = "platform_admin" THEN "exists" ELSE "access"
  <2>1. /\ s6' = [s6 EXCEPT !.ready = ready, !.at = next]
        /\ UNCHANGED <<s5, s7, s12>>
    BY <1>1, <1>5 DEF C!Continue
  <2>2. next \in {"exists", "access"}
    OBVIOUS
  <2>3. /\ s6' \in C!Renders /\ s6'.ready = ready /\ s6'.at = next
        /\ s6'.role = s6.role
    BY <1>2, <2>1, <2>2 DEF C!IInv, C!Renders, C!Awaits
  <2>4. CASE (ready <=> "bootstrap" \in s1)
    <3>1. UNCHANGED <<C!world, s11>>
      BY <1>1, <2>4 DEF C!Calm
    <3>2. C!Current => C!Current'
      <4>1. SUFFICES ASSUME C!Current PROVE C!Current'
        OBVIOUS
      <4>2. s6.role = s3
        BY <1>2, <4>1 DEF C!Current
      <4>3. CASE s5 = "tables" /\ s3 = "platform_admin"
        <5>1. ready /\ s2
          BY <1>5, <2>4, <4>3 DEF C!IInv
        <5>2. s6'.at = "exists" /\ s5' = "tables" /\ s6'.role = s3' /\ s2'
              /\ (s6'.ready <=> "bootstrap" \in s1') /\ s6'.ready
              /\ s3' = "platform_admin"
          BY <2>1, <2>3, <2>4, <3>1, <4>2, <4>3, <5>1 DEF C!world
        <5> QED
          BY <5>2 DEF C!Current, C!Onboarding, C!QuietPageIsRight
      <4>4. CASE ~(s5 = "tables" /\ s3 = "platform_admin")
        <5>1. s6'.at = "access" /\ s5' = s5 /\ s6'.role = s3'
              /\ (s6'.ready <=> "bootstrap" \in s1') /\ (s5 # "setup" => s6'.ready)
              /\ ~(s5' = "tables" /\ s3' = "platform_admin")
          BY <1>5, <2>1, <2>3, <2>4, <3>1, <4>2, <4>4 DEF C!world
        <5> QED
          BY <5>1 DEF C!Current, C!Onboarding, C!QuietPageIsRight
      <4> QED
        BY <4>3, <4>4
    <3> QED
      BY <1>2, <2>1, <2>2, <2>3, <3>1, <3>2, Stays DEF C!IInv, C!world
  <2>5. CASE ~(ready <=> "bootstrap" \in s1)
    BY <1>1, <1>2, <2>1, <2>2, <2>3, <2>5, Disturbed DEF C!Disturb, C!IInv, C!world
  <2> QED
    BY <2>4, <2>5
<1> QED
  BY <1>3, <1>4, <1>5

LEMMA ReadsAccess == ASSUME C!IInv, C!ReadAccess PROVE C!IInv'
<1> DEFINE next == IF ~s2 THEN "error" ELSE IF s5 = "setup" THEN "admin" ELSE "shown"
<1>1. /\ s6' = [s6 EXCEPT !.at = next] /\ s6.at = "access" /\ s5 # "new"
      /\ UNCHANGED <<C!world, s5, s7, s11, s12>>
  BY DEF C!ReadAccess, C!At, C!Continue, C!Calm
<1>2. /\ s6' \in C!Renders /\ s6'.at = next /\ next \in {"error", "admin", "shown"}
      /\ s6'.role = s6.role /\ s6'.ready = s6.ready
  BY <1>1 DEF C!IInv, C!Renders, C!Awaits, C!Outcomes
<1>3. C!Current => C!Current'
  BY <1>1, <1>2 DEF C!Current, C!Onboarding, C!QuietPageIsRight, C!Complete, C!world
<1> QED
  BY <1>1, <1>2, <1>3, Stays DEF C!IInv, C!world

LEMMA ReadsAdmin == ASSUME C!IInv, C!ReadAdmin PROVE C!IInv'
<1> DEFINE isAdmin == s3 = "platform_admin"
           next == IF s6.ready \/ isAdmin THEN "exists" ELSE "blocked"
<1>1. /\ s6' = [s6 EXCEPT !.isAdmin = isAdmin, !.at = next, !.again = ~s6.ready]
      /\ s6.at = "admin" /\ s5 # "new"
      /\ UNCHANGED <<C!world, s5, s7, s11, s12>>
  BY DEF C!ReadAdmin, C!At, C!Continue, C!Calm
<1>2. /\ s6' \in C!Renders /\ s6'.at = next /\ next \in {"exists", "blocked"}
      /\ s6'.role = s6.role /\ s6'.ready = s6.ready
      /\ (s6'.isAdmin <=> isAdmin) /\ (s6'.again <=> ~s6.ready)
  BY <1>1 DEF C!IInv, C!Renders, C!Awaits, C!Outcomes
<1>3. C!Current => C!Current'
  <2>1. SUFFICES ASSUME C!Current PROVE C!Current'
    OBVIOUS
  <2>2. s2 /\ s5 = "setup" /\ (s6.ready <=> "bootstrap" \in s1) /\ s6.role = s3
    BY <1>1, <2>1 DEF C!Current
  <2>3. ~s6.ready => ~C!Complete
    BY <2>2 DEF C!Complete, C!Steps
  <2>4. s3 # "platform_admin" => s3 = "member"
    BY DEF C!IInv, C!UserRoles
  <2> QED
    BY <1>1, <1>2, <2>2, <2>3, <2>4
       DEF C!Current, C!Onboarding, C!QuietPageIsRight, C!Complete, C!world
<1> QED
  BY <1>1, <1>2, <1>3, Stays DEF C!IInv, C!world

LEMMA ReadsExists == ASSUME C!IInv, C!ReadExists PROVE C!IInv'
<1>1. /\ s6.at = "exists" /\ s5 # "new" /\ UNCHANGED <<C!world, s5, s7, s11, s12>>
  BY DEF C!ReadExists, C!At, C!Continue, C!Calm
<1>2. CASE s2
  <2>1. s6' = [s6 EXCEPT !.at = "connection", !.steps = {}]
    BY <1>2 DEF C!ReadExists, C!Continue
  <2>2. /\ s6' \in C!Renders /\ s6'.at = "connection" /\ s6'.steps = {}
        /\ s6'.role = s6.role /\ s6'.ready = s6.ready
        /\ s6'.isAdmin = s6.isAdmin /\ s6'.again = s6.again
    BY <2>1 DEF C!IInv, C!Renders, C!Awaits
  <2>3. C!Current => C!Current'
    BY <1>1, <1>2, <2>2
       DEF C!Current, C!Onboarding, C!QuietPageIsRight, C!Complete, C!world
  <2> QED
    BY <1>1, <2>2, <2>3, Stays DEF C!IInv, C!world
<1>3. CASE ~s2
  <2>1. ~C!Current
    BY <1>1, <1>3 DEF C!Current, C!Onboarding
  <2>2. s6' \in C!Renders /\ s6'.at # "wizard"
    BY <1>1, <1>3 DEF C!ReadExists, C!Continue, C!IInv, C!Renders, C!Awaits, C!Outcomes
  <2> QED
    BY <1>1, <2>1, <2>2, Stays DEF C!IInv, C!world
<1> QED
  BY <1>2, <1>3

\* What is decided on steps that may be stale, and where it was not a failing
\* read that decided.
LEMMA Decides ==
    ASSUME C!IInv, NEW steps \in SUBSET C!Steps, C!Decide(steps), UNCHANGED C!world,
           s6.at = "mappings", s5 # "new",
           \/ C!Calm /\ (C!Current => IF s3 = "platform_admin" THEN steps = s1
                                    ELSE steps \subseteq {"usersProvisioned"})
           \/ s11' = s11 + 1
    PROVE  C!IInv'
<1>1. C!Current => /\ s2 /\ s5 \in {"tables", "setup"} /\ s6.role = s3
                   /\ (s6.ready <=> "bootstrap" \in s1)
                   /\ s5 = "tables" => s6.ready /\ s3 = "platform_admin"
                   /\ s5 = "setup" => /\ s6.isAdmin <=> s3 = "platform_admin"
                                      /\ ~s6.ready => s6.again
                                      /\ s6.again => s6.isAdmin /\ ~C!Complete
  BY DEF C!Current, C!Onboarding
<1>2. steps \subseteq {"usersProvisioned"} => steps # C!Steps
  BY DEF C!Steps
<1>3. CASE s5 = "tables" /\ steps = C!Steps /\ C!Continue([s6 EXCEPT !.at = "access", !.steps = steps])
  <2>1. /\ s6' = [s6 EXCEPT !.at = "access", !.steps = steps]
        /\ UNCHANGED <<s5, s7, s12>>
    BY <1>3 DEF C!Continue
  <2>2. /\ s6' \in C!Renders /\ s6'.at = "access" /\ s6'.role = s6.role
        /\ s6'.ready = s6.ready
    BY <2>1 DEF C!IInv, C!Renders, C!Awaits
  <2>3. CASE s11' = s11 + 1
    BY <2>1, <2>2, <2>3, Disturbed DEF C!IInv, C!world
  <2>4. CASE C!Calm /\ (C!Current => IF s3 = "platform_admin" THEN steps = s1
                                   ELSE steps \subseteq {"usersProvisioned"})
    <3>1. C!Current => C!Complete
      BY <1>1, <1>3, <2>4 DEF C!Complete
    <3>2. C!Current => C!Current'
      BY <1>1, <1>3, <2>1, <2>2, <2>4, <3>1
         DEF C!Calm, C!world, C!Current, C!Onboarding, C!QuietPageIsRight, C!Complete
    <3> QED
      BY <2>1, <2>2, <2>4, <3>2, Stays DEF C!Calm, C!world, C!IInv
  <2> QED
    BY <2>3, <2>4
<1>4. ASSUME NEW p \in {"setup", "tables"}, C!Redirect(p),
             \/ s5 = "tables" /\ steps # C!Steps /\ p = "setup"
             \/ s5 = "setup" /\ ~s6.again /\ steps = C!Steps /\ p = "tables"
      PROVE  C!IInv'
  <2>1. CASE s11' = s11 + 1
    BY <1>4, <2>1, DisturbedRedirect
  <2>2. CASE C!Calm /\ (C!Current => IF s3 = "platform_admin" THEN steps = s1
                                   ELSE steps \subseteq {"usersProvisioned"})
    <3>1. C!Current => /\ p = "setup" => s3 = "platform_admin" /\ ~C!Complete
                       /\ p = "tables" => s3 = "platform_admin" /\ C!Complete
      BY <1>1, <1>2, <1>4, <2>2 DEF C!Complete
    <3>2. ~C!Settled
      BY <1>4, <3>1 DEF C!Settled
    <3> QED
      BY <1>4, <2>2, <3>1, <3>2, Redirected
  <2> QED
    BY <2>1, <2>2
<1>5. CASE /\ s5 = "setup" /\ ~s6.again /\ steps # C!Steps
           /\ IF s6.isAdmin THEN C!Continue([s6 EXCEPT !.at = "exists", !.again = TRUE])
              ELSE C!Continue([s6 EXCEPT !.at = "notFound"])
  <2>1. /\ UNCHANGED <<s5, s7, s12>> /\ s6' \in C!Renders
        /\ s6'.role = s6.role /\ s6'.ready = s6.ready
        /\ s6'.isAdmin = s6.isAdmin
        /\ IF s6.isAdmin THEN s6'.at = "exists" /\ s6'.again
           ELSE s6'.at = "notFound" /\ s6'.again = s6.again
    BY <1>5 DEF C!Continue, C!IInv, C!Renders, C!Awaits, C!Outcomes
  <2>2. CASE s11' = s11 + 1
    BY <2>1, <2>2, Disturbed DEF C!IInv, C!world
  <2>3. CASE C!Calm /\ (C!Current => IF s3 = "platform_admin" THEN steps = s1
                                   ELSE steps \subseteq {"usersProvisioned"})
    <3>1. C!Current /\ s6.isAdmin => ~C!Complete
      BY <1>1, <1>5, <2>3 DEF C!Complete
    <3>2. s3 # "platform_admin" => s3 = "member"
      BY DEF C!IInv, C!UserRoles
    <3>3. C!Current => C!Current'
      BY <1>1, <1>5, <2>1, <2>3, <3>1, <3>2
         DEF C!Calm, C!world, C!Current, C!Onboarding, C!QuietPageIsRight, C!Complete
    <3> QED
      BY <2>1, <2>3, <3>3, Stays DEF C!Calm, C!world, C!IInv
  <2> QED
    BY <2>2, <2>3
<1>6. CASE /\ s5 = "setup" /\ s6.again
           /\ s6' = [s6 EXCEPT !.at = "wizard", !.steps = steps]
           /\ IF "bootstrap" \notin steps /\ ~s6.ready
              THEN /\ s7' = [mounted |-> TRUE, loading |-> TRUE, sql |-> FALSE]
                   /\ s8' = "probe"
              ELSE UNCHANGED <<s7, s8>>
           /\ UNCHANGED <<s5, s9, s12>>
  <2>1. /\ UNCHANGED <<s5, s12>> /\ s6' \in C!Renders
        /\ s6'.at = "wizard" /\ s6'.steps = steps /\ s6'.role = s6.role
        /\ s6'.ready = s6.ready
    BY <1>6 DEF C!IInv, C!Renders, C!Outcomes
  <2>2. s7' \in C!Panels /\ (s7'.mounted <=> "bootstrap" \notin steps /\ ~s6.ready)
    <3>1. CASE "bootstrap" \notin steps /\ ~s6.ready
      <4>1. s7' = [mounted |-> TRUE, loading |-> TRUE, sql |-> FALSE]
        BY <1>6, <3>1
      <4> QED
        BY <3>1, <4>1 DEF C!Panels
    <3>2. CASE ~("bootstrap" \notin steps /\ ~s6.ready)
      <4>1. UNCHANGED s7
        BY <1>6, <3>2
      <4> QED
        BY <3>2, <4>1 DEF C!IInv
    <3> QED
      BY <3>1, <3>2
  <2>3. CASE s11' = s11 + 1
    BY <2>1, <2>2, <2>3, Disturbed DEF C!IInv, C!world
  <2>4. CASE C!Calm /\ (C!Current => IF s3 = "platform_admin" THEN steps = s1
                                   ELSE steps \subseteq {"usersProvisioned"})
    <3>1. C!Current => s3 = "platform_admin" /\ ~C!Complete /\ steps = s1
      BY <1>1, <1>6, <2>4
    <3>2. C!Current => C!Current'
      BY <1>1, <1>6, <2>1, <2>2, <2>4, <3>1
         DEF C!Calm, C!world, C!Current, C!Onboarding, C!QuietPageIsRight, C!Complete
    <3> QED
      BY <2>1, <2>2, <2>4, <3>2, Stays DEF C!Calm, C!world
  <2> QED
    BY <2>3, <2>4
<1> QED
  BY <1>3, <1>4, <1>5, <1>6 DEF C!Decide

LEMMA ReadsOnboarding ==
    ASSUME C!IInv, NEW at \in DOMAIN C!ReadAt, C!ReadOnboarding(at) PROVE C!IInv'
<1> DEFINE visible == IF s3 = "platform_admin" THEN s1
                      ELSE s1 \intersect {"usersProvisioned"}
<1>1. PICK read \in {visible \intersect C!ReadAt[at], {}} :
        /\ IF read = s1 \intersect C!ReadAt[at] THEN C!Calm
           ELSE IF s3 = "platform_admin" THEN C!Disturb /\ UNCHANGED C!world
           ELSE C!Calm
        /\ IF at = "mappings" THEN C!Decide(s6.steps \union read)
           ELSE C!Continue([s6 EXCEPT !.at = C!After[at], !.steps = @ \union read])
  BY DEF C!ReadOnboarding
<1>2. s6.at = at /\ s5 # "new" /\ UNCHANGED C!world
      /\ at \in {"connection", "permissions", "mappings"}
  BY <1>1, StepsAre DEF C!ReadOnboarding, C!At, C!Calm
<1>3. s6.steps \union read \in SUBSET C!Steps
  BY DEF C!IInv, C!Renders
<1>4. \/ C!Calm /\ (s3 = "platform_admin" => read = s1 \intersect C!ReadAt[at])
      \/ s11' = s11 + 1
  BY <1>1 DEF C!Disturb
<1>5. s3 # "platform_admin" => read \subseteq {"usersProvisioned"} \intersect C!ReadAt[at]
  OBVIOUS
<1>6. CASE at = "mappings"
  <2>1. C!Decide(s6.steps \union read)
    BY <1>1, <1>6
  <2>2. C!Current => IF s3 = "platform_admin"
                   THEN s6.steps = s1 \intersect (C!ReadAt["connection"] \union C!ReadAt["permissions"])
                   ELSE s6.steps = {}
    BY <1>2, <1>6 DEF C!Current, C!Visible
  <2>3. (s1 \intersect (C!ReadAt["connection"] \union C!ReadAt["permissions"]))
        \union (s1 \intersect C!ReadAt["mappings"]) = s1
    BY StepsAre DEF C!IInv, C!Steps
  <2>4. \/ C!Calm /\ (C!Current => IF s3 = "platform_admin" THEN s6.steps \union read = s1
                                 ELSE s6.steps \union read \subseteq {"usersProvisioned"})
        \/ s11' = s11 + 1
    BY <1>4, <1>5, <1>6, <2>2, <2>3
  <2> QED
    BY <1>2, <1>3, <1>6, <2>1, <2>4, Decides
<1>7. CASE at # "mappings"
  <2>1. /\ s6' = [s6 EXCEPT !.at = C!After[at], !.steps = @ \union read]
        /\ UNCHANGED <<s5, s7, s12>>
    BY <1>1, <1>7 DEF C!Continue
  <2>2. C!After[at] \in {"permissions", "mappings"}
    BY <1>2, <1>7, StepsAre
  <2>3. /\ s6' \in C!Renders /\ s6'.at = C!After[at] /\ s6'.role = s6.role
        /\ s6'.ready = s6.ready /\ s6'.isAdmin = s6.isAdmin
        /\ s6'.again = s6.again /\ s6'.steps = s6.steps \union read
    BY <1>3, <2>1, <2>2 DEF C!IInv, C!Renders, C!Awaits
  <2>4. CASE s11' = s11 + 1
    BY <1>2, <2>1, <2>2, <2>3, <2>4, Disturbed DEF C!IInv, C!world
  <2>5. CASE C!Calm /\ (s3 = "platform_admin" => read = s1 \intersect C!ReadAt[at])
    <3>1. read = C!Visible \intersect C!ReadAt[at]
      BY <1>2, <1>5, <1>7, <2>5, StepsAre DEF C!Visible
    <3>2. C!Current => s6'.steps = IF at = "connection" THEN C!Visible \intersect C!ReadAt["connection"]
                       ELSE C!Visible \intersect (C!ReadAt["connection"] \union C!ReadAt["permissions"])
      BY <1>2, <1>7, <2>3, <3>1 DEF C!Current
    <3>3. UNCHANGED <<s1, s2, s3, s11>> /\ C!Visible' = C!Visible
      BY <2>5 DEF C!Calm, C!world, C!Visible
    <3>4. C!Current => C!Current'
      <4>1. SUFFICES ASSUME C!Current PROVE C!Current'
        OBVIOUS
      <4>2. CASE at = "connection"
        BY <1>2, <2>1, <2>3, <3>2, <3>3, <4>1, <4>2, StepsAre
           DEF C!Current, C!Onboarding, C!QuietPageIsRight, C!Complete
      <4>3. CASE at = "permissions"
        BY <1>2, <2>1, <2>3, <3>2, <3>3, <4>1, <4>3, StepsAre
           DEF C!Current, C!Onboarding, C!QuietPageIsRight, C!Complete
      <4> QED
        BY <1>2, <1>7, <4>2, <4>3
    <3> QED
      BY <1>2, <2>1, <2>2, <2>3, <2>5, <3>4, Stays DEF C!Calm, C!world, C!IInv
  <2> QED
    BY <1>4, <2>4, <2>5
<1> QED
  BY <1>6, <1>7

\* Neither the page nor anything it reads.
LEMMA Unmoved ==
    ASSUME C!IInv, UNCHANGED <<s1, s2, s3, s5, s6, s11, s12>>,
           s7' \in C!Panels, s7'.mounted = s7.mounted
    PROVE  C!IInv'
<1>1. C!Current => C!Current'
  BY DEF C!Current, C!QuietPageIsRight, C!Onboarding, C!Visible, C!Complete
<1> QED
  BY <1>1, Stays DEF C!IInv

LEMMA Leaves == ASSUME C!IInv, NEW p \in C!PageNames, C!Leave(p) PROVE C!IInv'
BY Navigated DEF C!Leave, C!IInv, C!world

LEMMA Pushes ==
    ASSUME C!IInv, NEW kind, NEW own, C!Push(kind, own), UNCHANGED <<s2, s3>>, s2,
           s1' \in {s1, s1 \union {"bootstrap"}}
    PROVE  C!IInv'
<1>1. s1' \subseteq C!Steps
  BY DEF C!IInv, C!Steps
<1> QED
  BY <1>1, Navigated DEF C!Push, C!IInv, C!PageNames

LEMMA StaysThere ==
    ASSUME C!IInv, NEW kind, NEW own, NEW sql, C!Stay(kind, own, sql),
           UNCHANGED <<s2, s3>>
    PROVE  C!IInv'
<1>1. UNCHANGED <<s1, s2, s3, s5, s6, s11, s12>>
  BY DEF C!Stay
<1>2. s7' \in C!Panels /\ s7'.mounted = s7.mounted
  BY DEF C!Stay, C!IInv, C!Panels
<1> QED
  BY <1>1, <1>2, Unmoved

LEMMA PagesStep == ASSUME C!IInv, C!Next \/ UNCHANGED C!vars PROVE C!IInv'
<1>1. CASE C!Elsewhere
  <2>1. /\ s11' = s11 + 1 /\ UNCHANGED <<s5, s12, s6, s7>>
    BY <1>1 DEF C!Elsewhere, C!Disturb
  <2>2. s1' \subseteq C!Steps /\ (~s2' => s1' = {}) /\ s3' \in C!UserRoles
    BY <1>1 DEF C!Elsewhere, C!IInv, C!Steps
  <2> QED
    BY <2>1, <2>2, Disturbed DEF C!IInv
<1>2. CASE C!RunSetupSql
  BY <1>2, Unmoved DEF C!RunSetupSql, C!IInv
<1>3. CASE C!Render
  BY <1>3, ReadsProfile, ReadsStatus, ReadsAccess, ReadsAdmin, ReadsExists,
     ReadsOnboarding DEF C!Render
<1>4. ASSUME NEW own \in BOOLEAN, C!ProbeAnswer(own) PROVE C!IInv'
  <2>1. UNCHANGED <<s2, s3>>
    BY <1>4 DEF C!ProbeAnswer
  <2>2. CASE s2 /\ s4.installed
    <3>1. C!Push("probe", own) /\ s1' \in {s1, s1 \union {"bootstrap"}}
      BY <1>4, <2>2 DEF C!ProbeAnswer
    <3> QED
      BY <2>1, <2>2, <3>1, Pushes
  <2>3. CASE ~(s2 /\ s4.installed)
    BY <1>4, <2>1, <2>3, StaysThere DEF C!ProbeAnswer
  <2> QED
    BY <2>2, <2>3
<1>5. ASSUME NEW own \in BOOLEAN, C!VerifyAnswer(own) PROVE C!IInv'
  <2>1. UNCHANGED <<s2, s3>>
    BY <1>5 DEF C!VerifyAnswer
  <2>2. CASE s2 /\ C!Runs
    BY <1>5, <2>1, <2>2, Pushes DEF C!VerifyAnswer
  <2>3. CASE ~(s2 /\ C!Runs)
    BY <1>5, <2>1, <2>3, StaysThere DEF C!VerifyAnswer
  <2> QED
    BY <2>2, <2>3
<1>6. CASE C!PanelFails
  <2>1. /\ UNCHANGED <<C!world, s5, s6, s12>> /\ s11' = s11 + 1
        /\ s7' = [s7 EXCEPT !.loading = FALSE]
    BY <1>6 DEF C!PanelFails, C!Disturb
  <2>2. s7' \in C!Panels /\ s7'.mounted = s7.mounted
    BY <2>1 DEF C!IInv, C!Panels
  <2> QED
    BY <2>1, <2>2, Disturbed DEF C!IInv, C!world
<1>7. CASE C!Reload
  BY <1>7, Leaves DEF C!Reload, C!IInv
<1>8. CASE C!WizardSyncs
  <2>1. s1' \subseteq C!Steps /\ s2 /\ UNCHANGED <<s2, s3>>
    BY <1>8 DEF C!WizardSyncs, C!IInv, C!Steps
  <2>2. C!Goto("setup") /\ s7' = C!NoPanel /\ s11' = 0 /\ s12' = 0
    BY <1>8 DEF C!WizardSyncs
  <2> QED
    BY <2>1, <2>2, Navigated DEF C!IInv, C!PageNames
<1>9. CASE C!CreateAnswer
  <2>1. s1' \subseteq C!Steps /\ s2' /\ s3' \in C!UserRoles
    BY <1>9 DEF C!CreateAnswer, C!IInv, C!Steps
  <2>2. /\ C!Goto("setup") /\ UNCHANGED s7 /\ ~s7.mounted
        /\ s11 \in Nat /\ s11' = s11 /\ s12' = 0
    BY <1>9 DEF C!CreateAnswer, C!IInv
  <2> QED
    BY <2>1, <2>2, Navigated DEF C!PageNames
<1>10. ASSUME NEW p \in C!PageNames, C!Follow(p) PROVE C!IInv'
  BY <1>10, Leaves DEF C!Follow
<1>11. ASSUME NEW kind, C!PanelSends(kind) PROVE C!IInv'
  <2>1. s7' \in C!Panels /\ s7'.mounted = s7.mounted
    BY <1>11 DEF C!PanelSends, C!IInv, C!Panels
  <2> QED
    BY <1>11, <2>1, Unmoved DEF C!PanelSends, C!world
<1>12. CASE UNCHANGED C!vars
  BY <1>12, Unmoved DEF C!vars, C!world, C!IInv
<1> QED
  BY <1>1, <1>2, <1>3, <1>4, <1>5, <1>6, <1>7, <1>8, <1>9, <1>10, <1>11, <1>12
     DEF C!Next, C!Answer

LEMMA PagesTell == ASSUME C!IInv PROVE C!QuietPageIsRight /\ C!RedirectsBounded
<1>1. s11 = 0 => C!Current
  BY DEF C!IInv
<1> QED
  BY <1>1 DEF C!IInv, C!Current, C!QuietPageIsRight, C!RedirectsBounded

\* However many changes and failures come between the reads of the pages of a
\* connection: if none came since the browser was sent somewhere it ends at the page
\* for the connection as it is, and each costs at most two redirects.
THEOREM RedirectsAlwaysLeadRight == Spec => []RedirectsLeadRight
<1> DEFINE Holds == part = "pages" => C!IInv
<1>1. Init => Holds
  BY PagesInit DEF Init
<1>2. Holds /\ [Next]_<<part, state>> => Holds'
  BY PagesStep DEF Next, state, C!vars, C!world
<1>3. Holds => RedirectsLeadRight
  BY PagesTell DEF RedirectsLeadRight
<1> QED
  BY <1>1, <1>2, <1>3, PTL DEF Spec

================================================================================
