---------------------------- MODULE SessionProofs ---------------------------
(*****************************************************************************)
(* Proofs about accounts and sessions on the Targets.                        *)
(*****************************************************************************)
EXTENDS Server, TLAPS

(* s1 is granted, s2 mapping, s3 account, s4 ever, s5 provision, s6 slot, s7    *)
(* connect and s8 changes.  Accounts are apart because a provisioning call owns *)
(* the one it created until it has mapped it, and a member's login never writes *)
(* a mapping but the one it found.                                              *)

LEMMA SessionInit == Session!Init => Session!IInv
<1> SUFFICES ASSUME Session!Init PROVE Session!IInv
  OBVIOUS
<1>1. Session!TypeOK
  BY DEF Session!Init, Session!TypeOK, Session!NoAccount, Session!Users
<1>2. /\ \A p \in Provisions : s5[p].at = "idle"
      /\ \A b \in Browsers : s7[b].at = "idle"
      /\ \A b \in Browsers, k \in Keys : s6[b][k].by = Session!None
      /\ \A c \in Targets, e \in TargetEmails : s3[c][e].for = Session!None
      /\ \A u \in Session!Users, c \in Targets : s4[u][c].emails = {} /\ s2[u][c] = Session!None
  BY DEF Session!Init, Session!IdleProvision, Session!IdleConnect, Session!NoSession,
         Session!NoAccount
<1>3. Session!HistoryIsKept
  BY <1>2 DEF Session!Init, Session!HistoryIsKept, Session!Resolved
<1>4. Session!AccountsApart /\ Session!ClaimsWereGranted /\ Session!ProvisionsApart
  BY <1>2 DEF Session!AccountsApart, Session!ClaimsWereGranted, Session!ProvisionsApart,
              Session!Owns, Session!Users
<1>5. \A p \in Provisions : Session!ProvisionFits(p)
  BY <1>2 DEF Session!ProvisionFits, Session!Owns
<1>6. \A b \in Browsers : Session!ConnectFits(b) /\ \A k \in Keys : Session!SlotFits(b, k)
  BY <1>2, SessionAssumption DEF Session!ConnectFits, Session!SlotFits, Session!Users
<1> QED
  BY <1>1, <1>3, <1>4, <1>5, <1>6 DEF Session!IInv

\* What the types say of single calls, forms and accounts.
LEMMA SessionTypes ==
    ASSUME Session!TypeOK
    PROVE  /\ \A p \in Provisions : s5[p].at # "idle" => s5[p] \in Session!Ways
           /\ \A b \in Browsers : s7[b].at # "idle" => s7[b] \in Session!Forms
           /\ \A b \in Browsers, k \in Keys :
                /\ s6[b][k] # Session!NoSession => s6[b][k] \in Session!Sessions
                /\ s6[b][k].by # Session!None => s6[b][k] \in Session!Sessions
           /\ \A c \in Targets, e \in TargetEmails :
                s3[c][e] \in [claims : SUBSET TargetTables, for : Session!Users \union {Session!None}]
           /\ \A u \in Session!Users, c \in Targets :
                s4[u][c] \in [tables : SUBSET TargetTables, emails : SUBSET TargetEmails]
<1>1. \A p \in Provisions : s5[p].at # "idle" => s5[p] \in Session!Ways
  BY DEF Session!TypeOK, Session!IdleProvision
<1>2. \A b \in Browsers : s7[b].at # "idle" => s7[b] \in Session!Forms
  BY DEF Session!TypeOK, Session!IdleConnect
<1>3. \A b \in Browsers, k \in Keys : s6[b][k] \in Session!Sessions \union {Session!NoSession}
  BY DEF Session!TypeOK
<1>4. \A b \in Browsers, k \in Keys :
        /\ s6[b][k] # Session!NoSession => s6[b][k] \in Session!Sessions
        /\ s6[b][k].by # Session!None => s6[b][k] \in Session!Sessions
  <2>1. Session!NoSession.by = Session!None
    BY DEF Session!NoSession
  <2> QED
    BY <1>3, <2>1
<1>5. \A c \in Targets, e \in TargetEmails :
        s3[c][e] \in [claims : SUBSET TargetTables, for : Session!Users \union {Session!None}]
  BY DEF Session!TypeOK
<1>6. \A u \in Session!Users, c \in Targets :
        s4[u][c] \in [tables : SUBSET TargetTables, emails : SUBSET TargetEmails]
  BY DEF Session!TypeOK
<1> QED
  BY <1>1, <1>2, <1>4, <1>5, <1>6

\* The form of b moves on to r, and of its stored sessions the one under k may
\* change.
LEMMA FormMoves ==
    ASSUME Session!IInv, NEW b \in Browsers,
           NEW r \in Session!Forms \union {Session!IdleConnect}, NEW k \in Keys,
           NEW s \in Session!Sessions \union {Session!NoSession},
           s7' = [s7 EXCEPT ![b] = r], s6' = [s6 EXCEPT ![b][k] = s],
           UNCHANGED <<s1, s2, s3, s4, s5>>,
           Session!ConnectFits(b)', \A l \in Keys : Session!SlotFits(b, l)'
    PROVE  Session!IInv'
<1>1. /\ s7' \in [Browsers -> Session!Forms \union {Session!IdleConnect}]
      /\ s6' \in [Browsers -> [Keys -> Session!Sessions \union {Session!NoSession}]]
      /\ \A d \in Browsers : d # b => s7'[d] = s7[d] /\ s6'[d] = s6[d]
  BY DEF Session!IInv, Session!TypeOK
<1>2. Session!TypeOK'
  BY <1>1 DEF Session!IInv, Session!TypeOK
<1>3. Session!HistoryIsKept' /\ Session!AccountsApart' /\ Session!ClaimsWereGranted' /\ Session!ProvisionsApart'
  BY DEF Session!IInv, Session!HistoryIsKept, Session!AccountsApart,
         Session!ClaimsWereGranted, Session!ProvisionsApart, Session!Owns,
            Session!Resolved
<1>4. \A p \in Provisions : Session!ProvisionFits(p)'
  BY DEF Session!IInv, Session!ProvisionFits, Session!Owns
<1>5. ASSUME NEW d \in Browsers, d # b
      PROVE  Session!ConnectFits(d)' /\ \A l \in Keys : Session!SlotFits(d, l)'
  <2>1. s7'[d] = s7[d] /\ s6'[d] = s6[d]
    BY <1>1, <1>5
  <2>2. Session!ConnectFits(d) /\ \A l \in Keys : Session!SlotFits(d, l)
    BY <1>5 DEF Session!IInv
  <2>3. Session!ConnectFits(d)'
    BY <2>1, <2>2 DEF Session!ConnectFits, Session!Key, Session!Own, Session!Resolved
  <2>4. ASSUME NEW l \in Keys PROVE Session!SlotFits(d, l)'
    <3>1. Session!SlotFits(d, l)
      BY <2>2
    <3> QED
      BY <2>1, <3>1 DEF Session!SlotFits, Session!Key, Session!Own, Session!Resolved
  <2> QED
    BY <2>3, <2>4
<1> QED
  BY <1>2, <1>3, <1>4, <1>5 DEF Session!IInv

\* A provisioning call moves on to r without touching anything.
LEMMA ProvisionMoves ==
    ASSUME Session!IInv, NEW p \in Provisions,
           NEW r \in Session!Ways \union {Session!IdleProvision},
           s5' = [s5 EXCEPT ![p] = r], r.at \notin {"delete", "insert"},
           r.at = "createUser" => r.claims \subseteq s4[r.user][r.connection].tables,
           UNCHANGED <<s1, s2, s3, s4, s6, s7>>
    PROVE  Session!IInv'
<1>1. /\ s5' \in [Provisions -> Session!Ways \union {Session!IdleProvision}] /\ s5'[p] = r
      /\ \A q \in Provisions : q # p => s5'[q] = s5[q]
  BY DEF Session!IInv, Session!TypeOK
<1>2. Session!TypeOK'
  BY <1>1 DEF Session!IInv, Session!TypeOK
<1>3. Session!HistoryIsKept' /\ Session!AccountsApart' /\ Session!ClaimsWereGranted'
  BY DEF Session!IInv, Session!HistoryIsKept, Session!AccountsApart,
         Session!ClaimsWereGranted, Session!Resolved
<1>4. Session!ProvisionsApart'
  BY <1>1 DEF Session!IInv, Session!ProvisionsApart, Session!Owns
<1>5. \A q \in Provisions : Session!ProvisionFits(q)'
  BY <1>1 DEF Session!IInv, Session!ProvisionFits, Session!Owns
<1>6. \A d \in Browsers : Session!ConnectFits(d)' /\ \A l \in Keys : Session!SlotFits(d, l)'
  BY DEF Session!IInv, Session!ConnectFits, Session!SlotFits, Session!Key, Session!Own,
         Session!Resolved
<1> QED
  BY <1>2, <1>3, <1>4, <1>5, <1>6 DEF Session!IInv

\* Calls that are disturbed are where they were, and none that is disturbed is
\* quiet.
LEMMA Disturbed ==
    ASSUME Session!TypeOK, NEW u \in Session!Users, NEW c \in Targets,
           Session!Disturb(u, c)
    PROVE  /\ s7' \in [Browsers -> Session!Forms \union {Session!IdleConnect}]
           /\ \A b \in Browsers :
                /\ s7'[b].at = s7[b].at /\ s7'[b].user = s7[b].user
                /\ s7'[b].connection = s7[b].connection
                /\ s7'[b].email = s7[b].email
                /\ s7'[b].claims = s7[b].claims
                /\ s7'[b].quiet => /\ s7[b].quiet
                                   /\ ~(s7[b].user = u /\ s7[b].connection = c)
<1>1. ASSUME NEW b \in Browsers
      PROVE  /\ s7'[b] \in Session!Forms \union {Session!IdleConnect}
             /\ s7'[b].at = s7[b].at /\ s7'[b].user = s7[b].user
             /\ s7'[b].connection = s7[b].connection
             /\ s7'[b].email = s7[b].email
             /\ s7'[b].claims = s7[b].claims
             /\ s7'[b].quiet => /\ s7[b].quiet
                                /\ ~(s7[b].user = u /\ s7[b].connection = c)
  <2>1. CASE s7[b].user = u /\ s7[b].connection = c
    <3>1. s7[b] \in Session!Forms /\ s7'[b] = [s7[b] EXCEPT !.quiet = FALSE]
      BY <2>1, SessionAssumption
         DEF Session!Disturb, Session!TypeOK, Session!IdleConnect
    <3> QED
      BY <2>1, <3>1 DEF Session!Forms
  <2>2. CASE ~(s7[b].user = u /\ s7[b].connection = c)
    BY <2>2 DEF Session!Disturb, Session!TypeOK
  <2> QED
    BY <2>1, <2>2
<1> QED
  BY <1>1 DEF Session!Disturb

LEMMA Resolves ==
    ASSUME Session!TypeOK, NEW u \in Session!Users, NEW c \in Targets
    PROVE  Session!Resolved(u, c) \subseteq TargetTables
BY DEF Session!TypeOK, Session!Resolved, Session!Users

\* A form takes a step that leaves what is stored alone.
LEMMA FormGoes ==
    ASSUME Session!IInv, NEW b \in Browsers,
           NEW r \in Session!Forms \union {Session!IdleConnect},
           s7' = [s7 EXCEPT ![b] = r],
           UNCHANGED <<s1, s2, s3, s4, s5, s6>>,
           Session!ConnectFits(b)', \A l \in Keys : Session!SlotFits(b, l)'
    PROVE  Session!IInv'
<1>1. CASE Keys = {}
  <2>1. Targets = {}
    BY <1>1, SessionAssumption
  <2>2. \A d \in Browsers : s7[d] = Session!IdleConnect
    BY <2>1 DEF Session!IInv, Session!TypeOK, Session!Forms
  <2>3. r = Session!IdleConnect /\ s7' = s7
    BY <2>1, <2>2 DEF Session!IInv, Session!TypeOK, Session!Forms
  <2> QED
    BY <2>3 DEF Session!IInv, Session!TypeOK, Session!HistoryIsKept,
                Session!AccountsApart, Session!ClaimsWereGranted,
                   Session!ProvisionsApart,
       Session!ProvisionFits, Session!Owns, Session!ConnectFits, Session!SlotFits,
          Session!Key, Session!Own, Session!Resolved
<1>2. CASE Keys # {}
  <2>1. PICK k \in Keys : TRUE
    BY <1>2
  <2>2. s6[b][k] \in Session!Sessions \union {Session!NoSession} /\ s6' = [s6 EXCEPT ![b][k] = s6[b][k]]
    BY DEF Session!IInv, Session!TypeOK
  <2> QED
    BY <2>1, <2>2, FormMoves
<1> QED
  BY <1>1, <1>2

\* The step that a form takes on its own.
LEMMA SubmitKeeps ==
    ASSUME Session!IInv, NEW b \in Browsers, NEW u \in Session!Users, NEW c \in Targets,
           NEW e \in TargetEmails,
           Session!Submit(b, u, c, e)
    PROVE  Session!IInv'
<1> DEFINE r == [Session!IdleConnect EXCEPT !.at = "signIn", !.user = u, !.connection = c, !.email = e]
<1>1. /\ r.at = "signIn" /\ r.user = u /\ r.connection = c /\ r \in Session!Forms
  <2>1. Session!IdleConnect \in [at : {"idle"}, user : {Session!None}, connection : {Session!None}, email : {Session!None},
                        claims : SUBSET TargetTables, quiet : BOOLEAN]
    BY DEF Session!IdleConnect
  <2> QED
    BY <2>1 DEF Session!Forms, Session!ConnectAwaits
<1>2. s7'[b] = r /\ s7' = [s7 EXCEPT ![b] = r]
  BY DEF Session!Submit, Session!IInv, Session!TypeOK
<1> HIDE DEF r
<1>3. Session!ConnectFits(b)'
  BY <1>1, <1>2 DEF Session!ConnectFits
<1>4. \A k \in Keys : Session!SlotFits(b, k)'
  BY <1>1, <1>2
     DEF Session!Submit, Session!ConnectEnds, Session!IInv, Session!SlotFits,
         Session!Key, Session!Own
<1> QED
  BY <1>1, <1>2, <1>3, <1>4, FormGoes DEF Session!Submit

LEMMA GivesUpKeeps ==
    ASSUME Session!IInv, NEW b \in Browsers, Session!GivesUp(b),
           s7[b].at \in {"signIn", "refresh", "connected"},
           UNCHANGED <<s1, s2, s3, s4, s5, s6>>
    PROVE  Session!IInv'
<1>1. s7'[b] = Session!IdleConnect /\ s7'[b].at = "idle"
  BY DEF Session!GivesUp, Session!IInv, Session!TypeOK, Session!IdleConnect
<1>2. Session!ConnectFits(b)'
  BY <1>1 DEF Session!ConnectFits
<1>3. \A k \in Keys : Session!SlotFits(b, k)'
  BY <1>1 DEF Session!IInv, Session!SlotFits, Session!Key, Session!Own
<1> QED
  BY <1>1, <1>2, <1>3, FormGoes DEF Session!GivesUp

LEMMA SignInKeeps ==
    ASSUME Session!IInv, NEW b \in Browsers, Session!SignIn(b)
    PROVE  Session!IInv'
<1> DEFINE f == s7[b]
           r == [s7[b] EXCEPT !.at = "access"]
           s == Session!Session(Session!Own(b), f.email, f.user)
<1>1. f \in Session!Forms /\ r \in Session!Forms /\ r = [f EXCEPT !.at = "access"]
  BY SessionTypes DEF Session!SignIn, Session!IInv, Session!Forms, Session!ConnectAwaits
<1>2. /\ r.connection = f.connection /\ r.email = f.email /\ r.user = f.user /\ r.at = "access"
      /\ f.connection \in Targets /\ f.email \in TargetEmails /\ f.user \in Session!Users
  BY <1>1 DEF Session!Forms
<1>3. s \in Session!Sessions /\ s.connection = f.connection /\ s.email = f.email /\ s.by = f.user
  BY <1>2, SessionTypes DEF Session!Session, Session!Sessions, Session!Own, Session!IInv
<1>4. Session!Key(b) \in Keys
  BY <1>2, SessionAssumption DEF Session!Key, Session!Own
<1>5. s7' = [s7 EXCEPT ![b] = r] /\ s7'[b] = r
  BY DEF Session!SignIn, Session!Goes, Session!IInv, Session!TypeOK
<1>6. s6' = [s6 EXCEPT ![b][Session!Key(b)] = s] /\ s6'[b] = [s6[b] EXCEPT ![Session!Key(b)] = s]
  BY DEF Session!SignIn, Session!IInv, Session!TypeOK
<1>7. Session!Key(b)' = Session!Key(b)
  BY <1>2, <1>5 DEF Session!Key, Session!Own
<1>8. /\ s6'[b][Session!Key(b)] = s
      /\ \A k \in Keys : k # Session!Key(b) => s6'[b][k] = s6[b][k]
  BY <1>4, <1>6 DEF Session!IInv, Session!TypeOK
<1>9. s3[f.connection][f.email] # Session!NoAccount /\ UNCHANGED <<s3, s4>>
  BY DEF Session!SignIn, Session!Own
<1> HIDE DEF r, s, f
<1>10. Session!ConnectFits(b)'
  BY <1>2, <1>3, <1>5, <1>7, <1>8, <1>9 DEF Session!ConnectFits
<1>11. \A k \in Keys : Session!SlotFits(b, k)'
  <2>1. s7[b].at = "signIn"
    BY DEF Session!SignIn
  <2> QED
    BY <2>1, <1>2, <1>5, <1>7, <1>8, <1>9 DEF Session!IInv, Session!SlotFits
<1> QED
  BY <1>1, <1>3, <1>4, <1>5, <1>6, <1>10, <1>11, FormMoves DEF Session!SignIn

LEMMA CheckAccessKeeps ==
    ASSUME Session!IInv, NEW b \in Browsers, Session!CheckAccess(b)
    PROVE  Session!IInv'
<1> DEFINE f == s7[b]
           r == [s7[b] EXCEPT !.at = IF s7[b].user \in Members THEN "mapping" ELSE "build"]
<1>1. f \in Session!Forms /\ f.at = "access"
  BY SessionTypes DEF Session!CheckAccess, Session!IInv
<1>2. /\ r.connection = f.connection /\ r.email = f.email /\ r.user = f.user
      /\ r.at = IF f.user \in Members THEN "mapping" ELSE "build"
      /\ r \in Session!Forms
  BY <1>1 DEF Session!Forms, Session!ConnectAwaits
<1>3. s7' = [s7 EXCEPT ![b] = r] /\ s7'[b] = r
  BY DEF Session!CheckAccess, Session!Goes, Session!IInv, Session!TypeOK
<1>4. UNCHANGED <<s1, s2, s3, s4, s5, s6>>
  BY DEF Session!CheckAccess
<1> HIDE DEF r
<1>5. Session!ConnectFits(b)'
  <2>1. Session!Key(b)' = Session!Key(b)
    BY <1>2, <1>3 DEF Session!Key, Session!Own
  <2> QED
    BY <1>1, <1>2, <1>3, <1>4, <2>1 DEF Session!IInv, Session!ConnectFits
<1>6. \A k \in Keys : Session!SlotFits(b, k)'
  <2>1. Session!Key(b)' = Session!Key(b)
    BY <1>2, <1>3 DEF Session!Key, Session!Own
  <2>2. Session!ConnectFits(b)
    BY DEF Session!IInv
  <2>3. s6[b][Session!Key(b)].by = f.user
    BY <2>2, <1>1 DEF Session!ConnectFits
  <2> QED
    BY <1>1, <1>2, <1>3, <1>4, <2>1, <2>3 DEF Session!IInv, Session!SlotFits
<1> QED
  BY <1>2, <1>3, <1>4, <1>5, <1>6, FormGoes

LEMMA CheckMappingKeeps ==
    ASSUME Session!IInv, NEW b \in Browsers, Session!CheckMapping(b)
    PROVE  Session!IInv'
<1> DEFINE f == s7[b]
           r == [s7[b] EXCEPT !.at = "build"]
<1>1. f \in Session!Forms /\ f.at = "mapping"
  BY SessionTypes DEF Session!CheckMapping, Session!IInv
<1>2. /\ r.connection = f.connection /\ r.email = f.email /\ r.user = f.user
      /\ r.at = "build" /\ r \in Session!Forms
      /\ f.connection \in Targets /\ f.email \in TargetEmails /\ f.user \in Session!Users
  BY <1>1 DEF Session!Forms, Session!ConnectAwaits
<1>3. s7' = [s7 EXCEPT ![b] = r] /\ s7'[b] = r
  BY DEF Session!CheckMapping, Session!Goes, Session!IInv, Session!TypeOK
<1>4. UNCHANGED <<s1, s2, s3, s4, s5, s6>>
  BY DEF Session!CheckMapping
<1>5. Session!Key(b)' = Session!Key(b)
  BY <1>2, <1>3 DEF Session!Key, Session!Own
<1>6. f.email \in s4[f.user][f.connection].emails
  BY <1>2, SessionAssumption
     DEF Session!CheckMapping, Session!Own, Session!IInv, Session!HistoryIsKept
<1>7. s6[b][Session!Key(b)].by = f.user /\ s6[b][Session!Key(b)].email = f.email
      /\ s6[b][Session!Key(b)].connection = f.connection
  BY <1>1 DEF Session!IInv, Session!ConnectFits
<1> HIDE DEF r
<1>8. Session!ConnectFits(b)'
  BY <1>1, <1>2, <1>3, <1>4, <1>5, <1>6 DEF Session!IInv, Session!ConnectFits
<1>9. \A k \in Keys : Session!SlotFits(b, k)'
  BY <1>1, <1>2, <1>3, <1>4, <1>5, <1>6, <1>7 DEF Session!IInv, Session!SlotFits
<1> QED
  BY <1>2, <1>3, <1>4, <1>8, <1>9, FormGoes

LEMMA BuildKeeps ==
    ASSUME Session!IInv, NEW b \in Browsers, Session!Build(b)
    PROVE  Session!IInv'
<1> DEFINE f == s7[b]
           now == Session!Resolved(s7[b].user, Session!Own(b))
           r == [s7[b] EXCEPT !.at = "update", !.claims = now]
<1>1. f \in Session!Forms /\ f.at = "build"
  BY SessionTypes DEF Session!Build, Session!IInv
<1>2. /\ f.connection \in Targets /\ f.email \in TargetEmails /\ f.user \in Session!Users
      /\ now = Session!Resolved(f.user, f.connection)
  BY <1>1 DEF Session!Forms, Session!Own
<1>3. now \subseteq TargetTables /\ now \subseteq s4[f.user][f.connection].tables
  BY <1>2, Resolves DEF Session!IInv, Session!HistoryIsKept
<1>4. /\ s7' = [s7 EXCEPT ![b] = r] /\ s7'[b] = r
      /\ UNCHANGED <<s1, s2, s3, s4, s5, s6>>
  BY DEF Session!Build, Session!Builds, Session!IInv, Session!TypeOK
<1> HIDE DEF now
<1>6. /\ r.connection = f.connection /\ r.email = f.email /\ r.user = f.user
      /\ r.at = "update" /\ r.claims = now /\ r \in Session!Forms
  BY <1>1, <1>3 DEF Session!Forms, Session!ConnectAwaits
<1>7. Session!Key(b)' = Session!Key(b)
  BY <1>4, <1>6 DEF Session!Key, Session!Own
<1> HIDE DEF r
<1>9. Session!ConnectFits(b)'
  BY <1>1, <1>2, <1>3, <1>4, <1>6, <1>7
     DEF Session!IInv, Session!ConnectFits, Session!Resolved
<1>10. \A k \in Keys : Session!SlotFits(b, k)'
  BY <1>1, <1>4, <1>6, <1>7 DEF Session!IInv, Session!SlotFits
<1> QED
  BY <1>4, <1>6, <1>9, <1>10, FormGoes

LEMMA SyncFailsKeeps ==
    ASSUME Session!IInv, NEW b \in Browsers, Session!SyncFails(b)
    PROVE  Session!IInv'
<1>1. s7[b] \in Session!Forms
  BY SessionTypes DEF Session!SyncFails, Session!IInv
<1>2. Session!Key(b) \in Keys
  BY <1>1, SessionAssumption DEF Session!Key, Session!Own, Session!Forms
<1>3. s7'[b] = Session!IdleConnect /\ s7'[b].at = "idle"
  BY DEF Session!SyncFails, Session!GivesUp, Session!IInv, Session!TypeOK,
         Session!IdleConnect
<1>4. s6'[b] = [s6[b] EXCEPT ![Session!Key(b)] = Session!NoSession]
  BY DEF Session!SyncFails, Session!IInv, Session!TypeOK
<1>5. /\ s6'[b][Session!Key(b)].by \notin Members
      /\ \A k \in Keys : k # Session!Key(b) => s6'[b][k] = s6[b][k]
  BY <1>2, <1>4, SessionAssumption
     DEF Session!IInv, Session!TypeOK, Session!NoSession, Session!Users
<1>6. Session!ConnectFits(b)'
  BY <1>3 DEF Session!ConnectFits
<1>7. \A k \in Keys : Session!SlotFits(b, k)'
  BY <1>5, <1>3 DEF Session!SyncFails, Session!IInv, Session!SlotFits
<1> QED
  BY <1>2, <1>6, <1>7, FormMoves DEF Session!SyncFails, Session!GivesUp

\* What a refresh under k leaves there.
LEMMA Refreshes ==
    ASSUME Session!TypeOK, NEW b \in Browsers, NEW k \in Keys, Session!Refreshed(b, k)
    PROVE  \E s \in Session!Sessions \union {Session!NoSession} :
             /\ s6' = [s6 EXCEPT ![b][k] = s] /\ s6'[b][k] = s
             /\ \A l \in Keys : l # k => s6'[b][l] = s6[b][l]
             /\ s.connection = s6[b][k].connection /\ s.email = s6[b][k].email
             /\ s.by = s6[b][k].by
             /\ s6[b][k] # Session!NoSession => s.claims = s3[s.connection][s.email].claims
<1> DEFINE o == s6[b][k]
           s == IF o = Session!NoSession THEN o ELSE Session!Session(o.connection, o.email, o.by)
<1>1. s6' = [s6 EXCEPT ![b][k] = s]
  BY DEF Session!Refreshed
<1>2. o \in Session!Sessions \union {Session!NoSession}
  BY DEF Session!TypeOK
<1>3. /\ s \in Session!Sessions \union {Session!NoSession} /\ s.connection = o.connection /\ s.email = o.email
      /\ s.by = o.by
      /\ o # Session!NoSession => s.claims = s3[s.connection][s.email].claims
  <2>1. CASE o = Session!NoSession
    BY <2>1
  <2>2. CASE o # Session!NoSession
    <3>1. o \in Session!Sessions /\ s = Session!Session(o.connection, o.email, o.by)
      BY <1>2, <2>2
    <3>2. s3[o.connection][o.email] \in [claims : SUBSET TargetTables, for : Session!Users \union {Session!None}]
      BY <3>1, SessionTypes DEF Session!Sessions
    <3> QED
      BY <2>2, <3>1, <3>2 DEF Session!Session, Session!Sessions
  <2> QED
    BY <2>1, <2>2
<1>4. s6'[b] = [s6[b] EXCEPT ![k] = s] /\ s6[b] \in [Keys -> Session!Sessions \union {Session!NoSession}]
  BY <1>1 DEF Session!TypeOK
<1>5. s6'[b][k] = s /\ \A l \in Keys : l # k => s6'[b][l] = s6[b][l]
  BY <1>4
<1> HIDE DEF s
<1>6. /\ s \in Session!Sessions \union {Session!NoSession}
      /\ s6' = [s6 EXCEPT ![b][k] = s] /\ s6'[b][k] = s
      /\ \A l \in Keys : l # k => s6'[b][l] = s6[b][l]
      /\ s.connection = s6[b][k].connection /\ s.email = s6[b][k].email
      /\ s.by = s6[b][k].by
      /\ s6[b][k] # Session!NoSession => s.claims = s3[s.connection][s.email].claims
  BY <1>1, <1>3, <1>5
<1> HIDE DEF o
<1> QED
  BY <1>6

LEMMA AutoRefreshKeeps ==
    ASSUME Session!IInv, NEW b \in Browsers, NEW k \in Keys, Session!AutoRefresh(b, k)
    PROVE  Session!IInv'
<1>1. PICK s \in Session!Sessions \union {Session!NoSession} :
             /\ s6' = [s6 EXCEPT ![b][k] = s] /\ s6'[b][k] = s
             /\ \A l \in Keys : l # k => s6'[b][l] = s6[b][l]
             /\ s.connection = s6[b][k].connection /\ s.email = s6[b][k].email
             /\ s.by = s6[b][k].by
             /\ s6[b][k] # Session!NoSession => s.claims = s3[s.connection][s.email].claims
  BY Refreshes DEF Session!AutoRefresh, Session!IInv
<1>2. /\ UNCHANGED <<s1, s2, s3, s4, s5, s7>> /\ s6[b][k] # Session!NoSession
      /\ Session!Key(b)' = Session!Key(b)
  BY DEF Session!AutoRefresh, Session!Key, Session!Own
<1>3. s7' = [s7 EXCEPT ![b] = s7[b]] /\ s7[b] \in Session!Forms \union {Session!IdleConnect}
  BY <1>2 DEF Session!IInv, Session!TypeOK
<1>4. Session!ConnectFits(b)'
  <2>1. CASE s7[b].at \in {"idle", "signIn"}
    BY <1>2, <2>1 DEF Session!ConnectFits
  <2>2. CASE s7[b].at \notin {"idle", "signIn"}
    <3>1. Session!Key(b) \in Keys /\ s7[b] \in Session!Forms
      BY <2>2, SessionTypes, SessionAssumption
         DEF Session!Forms, Session!Key, Session!Own, Session!IInv
    <3>2. Session!ConnectFits(b)
      BY DEF Session!IInv
    <3>3. CASE k = Session!Key(b)
      BY <1>1, <1>2, <3>1, <3>2, <3>3 DEF Session!ConnectFits, Session!Resolved
    <3>4. CASE k # Session!Key(b)
      BY <1>1, <1>2, <3>1, <3>2, <3>4 DEF Session!ConnectFits, Session!Resolved
    <3> QED
      BY <3>3, <3>4
  <2> QED
    BY <2>1, <2>2
<1>5. \A l \in Keys : Session!SlotFits(b, l)'
  BY <1>1, <1>2 DEF Session!IInv, Session!SlotFits
<1> QED
  BY <1>1, <1>2, <1>3, <1>4, <1>5, FormMoves

LEMMA RefreshKeeps ==
    ASSUME Session!IInv, NEW b \in Browsers, Session!Refresh(b)
    PROVE  Session!IInv'
<1> DEFINE f == s7[b]
           r == [s7[b] EXCEPT !.at = "connected"]
           k == Session!Key(b)
<1>1. f \in Session!Forms /\ f.at = "refresh"
  BY SessionTypes DEF Session!Refresh, Session!IInv
<1>2. /\ r.connection = f.connection /\ r.email = f.email /\ r.user = f.user
      /\ r.at = "connected" /\ r.quiet = f.quiet /\ r \in Session!Forms /\ k \in Keys
  BY <1>1, SessionAssumption DEF Session!Forms, Session!Key, Session!Own
<1>3. /\ s7' = [s7 EXCEPT ![b] = r] /\ s7'[b] = r
      /\ UNCHANGED <<s1, s2, s3, s4, s5>>
  BY DEF Session!Refresh, Session!Goes, Session!IInv, Session!TypeOK
<1>4. Session!Key(b)' = Session!Key(b)
  BY <1>2, <1>3 DEF Session!Key, Session!Own
<1>5. PICK s \in Session!Sessions \union {Session!NoSession} :
             /\ s6' = [s6 EXCEPT ![b][k] = s] /\ s6'[b][k] = s
             /\ \A l \in Keys : l # k => s6'[b][l] = s6[b][l]
             /\ s.connection = s6[b][k].connection /\ s.email = s6[b][k].email
             /\ s.by = s6[b][k].by
             /\ s6[b][k] # Session!NoSession => s.claims = s3[s.connection][s.email].claims
  BY <1>2, Refreshes DEF Session!Refresh, Session!IInv
<1>6. s6[b][k] # Session!NoSession
  <2>1. s6[b][k].by = f.user /\ f.user \in Session!Users
    BY <1>1 DEF Session!IInv, Session!ConnectFits, Session!Forms
  <2> QED
    BY <2>1, SessionAssumption DEF Session!NoSession
<1>7. Session!ConnectFits(b)
  BY DEF Session!IInv
<1> HIDE DEF r
<1>8. Session!ConnectFits(b)'
  BY <1>1, <1>2, <1>3, <1>4, <1>5, <1>6, <1>7 DEF Session!ConnectFits, Session!Resolved
<1>9. \A l \in Keys : Session!SlotFits(b, l)'
  <2>1. k = Session!Key(b)
    OBVIOUS
  <2> HIDE DEF k
  <2>2. ASSUME NEW l \in Keys PROVE Session!SlotFits(b, l)'
    <3>1. Session!SlotFits(b, l)
      BY DEF Session!IInv
    <3> QED
      BY <1>1, <1>2, <1>3, <1>4, <1>5, <2>1, <3>1 DEF Session!SlotFits
  <2> QED
    BY <2>2
<1> QED
  BY <1>2, <1>3, <1>5, <1>8, <1>9, FormMoves

\* When calls are disturbed and the history grows, forms and sessions are as good
\* as before.
LEMMA DisturbedFit ==
    ASSUME Session!IInv, NEW u \in Session!Users, NEW c \in Targets,
           Session!Disturb(u, c), UNCHANGED <<s3, s6>>,
           \A v \in Session!Users, d \in Targets :
              /\ s4[v][d].tables \subseteq s4'[v][d].tables
              /\ s4[v][d].emails \subseteq s4'[v][d].emails
              /\ v # u \/ d # c => Session!Resolved(v, d)' = Session!Resolved(v, d)
    PROVE  \A b \in Browsers : Session!ConnectFits(b)' /\ \A k \in Keys : Session!SlotFits(b, k)'
<1> SUFFICES ASSUME NEW b \in Browsers
             PROVE  Session!ConnectFits(b)' /\ \A k \in Keys : Session!SlotFits(b, k)'
  OBVIOUS
<1>1. /\ s7'[b].at = s7[b].at /\ s7'[b].user = s7[b].user
      /\ s7'[b].connection = s7[b].connection
      /\ s7'[b].email = s7[b].email
      /\ s7'[b].claims = s7[b].claims
      /\ s7'[b].quiet => /\ s7[b].quiet
                         /\ ~(s7[b].user = u /\ s7[b].connection = c)
  BY Disturbed DEF Session!IInv
<1>2. Session!Key(b)' = Session!Key(b)
  BY <1>1 DEF Session!Key, Session!Own
<1>3. Session!ConnectFits(b)'
  <2>1. CASE s7[b].at = "idle"
    BY <1>1, <2>1 DEF Session!ConnectFits
  <2>2. CASE s7[b].at # "idle"
    <3>1. s7[b].user \in Session!Users /\ s7[b].connection \in Targets
      BY <2>2, SessionTypes DEF Session!Forms, Session!IInv
    <3>2. Session!ConnectFits(b)
      BY DEF Session!IInv
    <3>3. s7'[b].quiet => Session!Resolved(s7[b].user, s7[b].connection)'
                                 = Session!Resolved(s7[b].user, s7[b].connection)
      <4>1. PICK v \in Session!Users, d \in Targets : v = s7[b].user /\ d = s7[b].connection
        BY <3>1
      <4>2. s7'[b].quiet => Session!Resolved(v, d)' = Session!Resolved(v, d)
        BY <1>1, <4>1
      <4> QED
        BY <1>1, <4>1, <4>2 DEF Session!Resolved
    <3> QED
      BY <1>1, <1>2, <3>1, <3>2, <3>3 DEF Session!ConnectFits
  <2> QED
    BY <2>1, <2>2
<1>4. ASSUME NEW k \in Keys PROVE Session!SlotFits(b, k)'
  <2>1. Session!SlotFits(b, k)
    BY DEF Session!IInv
  <2>2. s6[b][k].by \in Members =>
          s6[b][k].by \in Session!Users /\ s6[b][k].connection \in Targets
    BY SessionTypes, SessionAssumption DEF Session!Sessions, Session!IInv, Session!Users
  <2> QED
    BY <1>1, <1>2, <2>1, <2>2 DEF Session!SlotFits
<1> QED
  BY <1>3, <1>4

LEMMA ChangePermissionsKeeps ==
    ASSUME Session!IInv, NEW u \in Members, NEW c \in Targets,
           Session!ChangePermissions(u, c)
    PROVE  Session!IInv'
<1>1. PICK tables \in SUBSET TargetTables :
        /\ s1' = [s1 EXCEPT ![u][c] = tables]
        /\ s4' = [s4 EXCEPT ![u][c].tables = @ \union tables]
  BY DEF Session!ChangePermissions
<1>2. /\ UNCHANGED <<s2, s3, s5, s6>> /\ Session!Disturb(u, c) /\ u \in Session!Users
  BY DEF Session!ChangePermissions, Session!Users
<1>3. s4[u][c] \in [tables : SUBSET TargetTables, emails : SUBSET TargetEmails]
  BY <1>2 DEF Session!IInv, Session!TypeOK
<1>4. /\ s4' \in [Session!Users -> [Targets -> [tables : SUBSET TargetTables, emails : SUBSET TargetEmails]]]
      /\ \A v \in Session!Users, d \in Targets :
           /\ s4'[v][d].emails = s4[v][d].emails
           /\ s4'[v][d].tables = IF v = u /\ d = c THEN s4[v][d].tables \union tables
                                   ELSE s4[v][d].tables
  BY <1>1, <1>2, <1>3 DEF Session!IInv, Session!TypeOK
<1>5. /\ s1' \in [Members -> [Targets -> SUBSET TargetTables]]
      /\ \A v \in Members, d \in Targets :
           s1'[v][d] = IF v = u /\ d = c THEN tables ELSE s1[v][d]
  BY <1>1 DEF Session!IInv, Session!TypeOK
<1>6. \A v \in Session!Users, d \in Targets :
        Session!Resolved(v, d)' = IF v = u /\ d = c /\ v \notin Admins THEN tables ELSE Session!Resolved(v, d)
  BY <1>5 DEF Session!Resolved, Session!Users
<1>7. s7' \in [Browsers -> Session!Forms \union {Session!IdleConnect}]
  BY <1>2, Disturbed DEF Session!IInv
<1>8. Session!TypeOK'
  BY <1>2, <1>4, <1>5, <1>7 DEF Session!IInv, Session!TypeOK
<1>9. Session!HistoryIsKept'
  <2> SUFFICES ASSUME NEW v \in Session!Users, NEW d \in Targets
               PROVE  /\ Session!Resolved(v, d)' \subseteq s4'[v][d].tables
                      /\ s2'[v][d] # Session!None => s2'[v][d] \in s4'[v][d].emails
    BY DEF Session!HistoryIsKept
  <2>1. /\ Session!Resolved(v, d) \subseteq s4[v][d].tables
        /\ s2[v][d] # Session!None => s2[v][d] \in s4[v][d].emails
    BY DEF Session!IInv, Session!HistoryIsKept
  <2> QED
    BY <1>2, <1>4, <1>6, <2>1
<1>10. Session!AccountsApart' /\ Session!ProvisionsApart'
  <2>1. \A v \in Members, d \in Targets : s4'[v][d].emails = s4[v][d].emails
    BY <1>4 DEF Session!Users
  <2>2. Session!AccountsApart'
    BY <1>2, <2>1 DEF Session!IInv, Session!AccountsApart
  <2>3. Session!ProvisionsApart'
    BY <1>2 DEF Session!IInv, Session!ProvisionsApart, Session!Owns
  <2> QED
    BY <2>2, <2>3
<1>11. Session!ClaimsWereGranted'
  <2>1. \A d \in Targets, e \in TargetEmails : s3[d][e].for \in Session!Users \union {Session!None}
    BY SessionTypes DEF Session!IInv
  <2> QED
    BY <1>2, <1>4, <2>1 DEF Session!IInv, Session!ClaimsWereGranted
<1>12. ASSUME NEW p \in Provisions PROVE Session!ProvisionFits(p)'
  <2>1. CASE s5[p].at = "idle"
    BY <1>2, <2>1 DEF Session!ProvisionFits, Session!Owns
  <2>2. CASE s5[p].at # "idle"
    <3>1. s5[p].user \in Session!Users /\ s5[p].connection \in Targets
      BY <2>2, SessionTypes DEF Session!Ways, Session!IInv
    <3> QED
      BY <1>2, <1>4, <3>1
         DEF Session!IInv, Session!ProvisionFits, Session!Owns, Session!Users
  <2> QED
    BY <2>1, <2>2
<1>13. \A b \in Browsers : Session!ConnectFits(b)' /\ \A k \in Keys : Session!SlotFits(b, k)'
  <2>1. \A v \in Session!Users, d \in Targets :
           /\ s4[v][d].tables \subseteq s4'[v][d].tables
           /\ s4[v][d].emails \subseteq s4'[v][d].emails
    BY <1>4
  <2>2. \A v \in Session!Users, d \in Targets : v # u \/ d # c => Session!Resolved(v, d)' = Session!Resolved(v, d)
    BY <1>6
  <2> QED
    BY <1>2, <2>1, <2>2, DisturbedFit
<1> QED
  BY <1>8, <1>9, <1>10, <1>11, <1>12, <1>13 DEF Session!IInv

LEMMA StartProvisionKeeps ==
    ASSUME Session!IInv, NEW p \in Provisions, NEW u \in Session!Users,
           NEW c \in Targets, NEW e \in TargetEmails,
           Session!StartProvision(p, u, c, e)
    PROVE  Session!IInv'
<1> DEFINE r == [Session!IdleProvision EXCEPT !.at = "build", !.user = u, !.connection = c, !.email = e]
<1>1. r.at = "build" /\ r \in Session!Ways
  <2>1. Session!IdleProvision \in [at : {"idle"}, user : {Session!None}, connection : {Session!None}, email : {Session!None},
                          claims : SUBSET TargetTables]
    BY DEF Session!IdleProvision
  <2> QED
    BY <2>1 DEF Session!Ways
<1> QED
  BY <1>1, ProvisionMoves DEF Session!StartProvision

LEMMA ProvisionBuildKeeps ==
    ASSUME Session!IInv, NEW p \in Provisions, Session!ProvisionBuild(p)
    PROVE  Session!IInv'
<1> DEFINE f == s5[p]
           now == Session!Resolved(f.user, f.connection)
           r == [s5[p] EXCEPT !.at = "createUser", !.claims = now]
<1>1. f \in Session!Ways /\ f.user \in Session!Users /\ f.connection \in Targets
  BY SessionTypes DEF Session!ProvisionBuild, Session!Ways, Session!IInv
<1>2. now \subseteq TargetTables /\ now \subseteq s4[f.user][f.connection].tables
  BY <1>1, Resolves DEF Session!IInv, Session!HistoryIsKept
<1>3. s5' = [s5 EXCEPT ![p] = r]
  BY DEF Session!ProvisionBuild, Session!ProvisionGoes, Session!IInv, Session!TypeOK
<1> HIDE DEF now
<1>4. /\ r.at = "createUser" /\ r.claims = now /\ r \in Session!Ways
      /\ r.user = f.user /\ r.connection = f.connection
  BY <1>1, <1>2 DEF Session!Ways
<1> HIDE DEF r
<1> QED
  BY <1>2, <1>3, <1>4, ProvisionMoves DEF Session!ProvisionBuild

LEMMA ProvisionFailsKeeps ==
    ASSUME Session!IInv, NEW p \in Provisions, Session!ProvisionFails(p)
    PROVE  Session!IInv'
<1>1. Session!IdleProvision.at = "idle"
  BY DEF Session!IdleProvision
<1> QED
  BY <1>1, ProvisionMoves DEF Session!ProvisionFails

\* An account is written for u: what else holds of accounts is as before.
LEMMA CreateUserKeeps ==
    ASSUME Session!IInv, NEW p \in Provisions, Session!CreateUser(p)
    PROVE  Session!IInv'
<1> DEFINE f == s5[p]
           a == [claims |-> s5[p].claims, for |-> s5[p].user]
           r == [s5[p] EXCEPT !.at = "delete", !.claims = {}]
<1>1. /\ f \in Session!Ways /\ f.at = "createUser" /\ f.user \in Session!Users /\ f.connection \in Targets
      /\ f.email \in TargetEmails /\ f.claims \subseteq TargetTables
  BY SessionTypes DEF Session!CreateUser, Session!Ways, Session!IInv
<1>2. s3[f.connection][f.email] = Session!NoAccount
  BY DEF Session!CreateUser
<1>3. /\ s3' = [s3 EXCEPT ![f.connection][f.email] = a]
      /\ s5' = [s5 EXCEPT ![p] = r]
      /\ UNCHANGED <<s1, s2, s4, s6, s7>>
  BY DEF Session!CreateUser, Session!ProvisionGoes, Session!IInv, Session!TypeOK
<1>4. /\ a \in [claims : SUBSET TargetTables, for : Session!Users \union {Session!None}] /\ a # Session!NoAccount
      /\ a.for = f.user /\ a.claims = f.claims
  BY <1>1, SessionAssumption DEF Session!NoAccount
<1>5. /\ r \in Session!Ways /\ r.at = "delete" /\ r.user = f.user /\ r.connection = f.connection
      /\ r.email = f.email
  BY <1>1 DEF Session!Ways
<1> HIDE DEF a, r
<1>6. /\ s3' \in [Targets -> [TargetEmails -> [claims : SUBSET TargetTables, for : Session!Users \union {Session!None}]]]
      /\ \A d \in Targets, e \in TargetEmails :
           s3'[d][e] = IF d = f.connection /\ e = f.email THEN a ELSE s3[d][e]
  BY <1>1, <1>3, <1>4 DEF Session!IInv, Session!TypeOK
<1>7. /\ s5' \in [Provisions -> Session!Ways \union {Session!IdleProvision}]
      /\ \A q \in Provisions : s5'[q] = IF q = p THEN r ELSE s5[q]
  BY <1>3, <1>5 DEF Session!IInv, Session!TypeOK
<1>8. Session!TypeOK'
  BY <1>3, <1>6, <1>7 DEF Session!IInv, Session!TypeOK
<1>9. Session!HistoryIsKept'
  BY <1>3 DEF Session!IInv, Session!HistoryIsKept, Session!Resolved
<1>10. \A d \in Targets, e \in TargetEmails : s3[d][e] # Session!NoAccount =>
          /\ s3'[d][e] = s3[d][e] /\ s3'[d][e] # Session!NoAccount
          /\ ~(d = f.connection /\ e = f.email)
  BY <1>2, <1>6
<1>11. Session!AccountsApart'
  <2>1. \A v \in Members, d \in Targets : s4[v][d].emails \subseteq TargetEmails
    BY SessionTypes DEF Session!IInv, Session!Users
  <2> QED
    BY <1>3, <1>10, <2>1 DEF Session!IInv, Session!AccountsApart
<1>12. Session!ClaimsWereGranted'
  <2>1. f.claims \subseteq s4[f.user][f.connection].tables
    BY <1>1 DEF Session!IInv, Session!ProvisionFits
  <2> QED
    BY <1>3, <1>4, <1>6, <2>1 DEF Session!IInv, Session!ClaimsWereGranted
<1>13. \A v \in Members : f.email \notin s4[v][f.connection].emails
  BY <1>1, <1>2 DEF Session!IInv, Session!AccountsApart
<1>14. ASSUME NEW q \in Provisions PROVE Session!ProvisionFits(q)'
  <2>1. CASE q = p
    BY <2>1, <1>1, <1>3, <1>4, <1>5, <1>6, <1>7, <1>13
       DEF Session!ProvisionFits, Session!Owns
  <2>2. CASE q # p
    <3>1. Session!Owns(q) => s5[q].connection \in Targets /\ s5[q].email \in TargetEmails
      BY SessionTypes DEF Session!Owns, Session!Ways, Session!IInv
    <3>2. Session!ProvisionFits(q)
      BY DEF Session!IInv
    <3> QED
      BY <2>2, <1>3, <1>7, <1>10, <3>1, <3>2 DEF Session!ProvisionFits, Session!Owns
  <2> QED
    BY <2>1, <2>2
<1>15. \A q \in Provisions : q # p /\ Session!Owns(q) =>
         ~(s5[q].connection = f.connection /\ s5[q].email = f.email)
  BY <1>2 DEF Session!IInv, Session!ProvisionFits
<1>16. Session!ProvisionsApart'
  BY <1>5, <1>7, <1>15 DEF Session!IInv, Session!ProvisionsApart, Session!Owns
<1>17. ASSUME NEW b \in Browsers
       PROVE  Session!ConnectFits(b)' /\ \A k \in Keys : Session!SlotFits(b, k)'
  <2>1. Session!ConnectFits(b) /\ \A k \in Keys : Session!SlotFits(b, k)
    BY DEF Session!IInv
  <2>2. s7[b].at # "idle" => s7[b].connection \in Targets /\ s7[b].email \in TargetEmails
    BY SessionTypes DEF Session!Forms, Session!IInv
  <2>3. s7[b].at \notin {"idle", "signIn"} =>
          /\ s3'[s7[b].connection][s7[b].email]
                = s3[s7[b].connection][s7[b].email]
          /\ s3'[s7[b].connection][s7[b].email] # Session!NoAccount
    BY <1>10, <2>1, <2>2 DEF Session!ConnectFits
  <2>4. Session!ConnectFits(b)'
    BY <1>3, <2>1, <2>3
       DEF Session!ConnectFits, Session!Resolved, Session!Key, Session!Own
  <2>5. \A k \in Keys : Session!SlotFits(b, k)'
    BY <1>3, <2>1 DEF Session!SlotFits, Session!Key, Session!Own
  <2> QED
    BY <2>4, <2>5
<1> QED
  BY <1>8, <1>9, <1>11, <1>12, <1>14, <1>16, <1>17 DEF Session!IInv

LEMMA DeleteMappingKeeps ==
    ASSUME Session!IInv, NEW p \in Provisions, Session!DeleteMapping(p)
    PROVE  Session!IInv'
<1> DEFINE f == s5[p]
           r == [s5[p] EXCEPT !.at = "insert", !.claims = {}]
<1>1. /\ f \in Session!Ways /\ f.at = "delete" /\ f.user \in Session!Users /\ f.connection \in Targets
  BY SessionTypes DEF Session!DeleteMapping, Session!Ways, Session!IInv
<1>2. /\ s2' = [s2 EXCEPT ![f.user][f.connection] = Session!None]
      /\ s5' = [s5 EXCEPT ![p] = r] /\ Session!Disturb(f.user, f.connection)
      /\ UNCHANGED <<s1, s3, s4, s6>>
  BY DEF Session!DeleteMapping, Session!ProvisionGoes, Session!IInv, Session!TypeOK
<1>3. /\ r \in Session!Ways /\ r.at = "insert" /\ r.user = f.user /\ r.connection = f.connection
      /\ r.email = f.email
  BY <1>1 DEF Session!Ways
<1> HIDE DEF r
<1>4. /\ s2' \in [Session!Users -> [Targets -> TargetEmails \union {Session!None}]]
      /\ \A v \in Session!Users, d \in Targets : s2'[v][d] \in {s2[v][d], Session!None}
  BY <1>1, <1>2 DEF Session!IInv, Session!TypeOK
<1>5. /\ s5' \in [Provisions -> Session!Ways \union {Session!IdleProvision}]
      /\ \A q \in Provisions : s5'[q] = IF q = p THEN r ELSE s5[q]
  BY <1>2, <1>3 DEF Session!IInv, Session!TypeOK
<1>6. s7' \in [Browsers -> Session!Forms \union {Session!IdleConnect}]
  BY <1>1, <1>2, Disturbed DEF Session!IInv
<1>7. Session!TypeOK'
  BY <1>2, <1>4, <1>5, <1>6 DEF Session!IInv, Session!TypeOK
<1>8. \A v \in Session!Users, d \in Targets : Session!Resolved(v, d)' = Session!Resolved(v, d)
  BY <1>2 DEF Session!Resolved
<1>9. Session!HistoryIsKept' /\ Session!AccountsApart' /\ Session!ClaimsWereGranted'
  BY <1>2, <1>4, <1>8
     DEF Session!IInv, Session!HistoryIsKept, Session!AccountsApart,
         Session!ClaimsWereGranted
<1>10. \A q \in Provisions : Session!Owns(q)' = Session!Owns(q) /\ s5'[q].connection = s5[q].connection
         /\ s5'[q].email = s5[q].email
  BY <1>1, <1>3, <1>5 DEF Session!Owns
<1>11. Session!ProvisionsApart'
  BY <1>10 DEF Session!IInv, Session!ProvisionsApart
<1>12. ASSUME NEW q \in Provisions PROVE Session!ProvisionFits(q)'
  <2>1. Session!ProvisionFits(q)
    BY DEF Session!IInv
  <2>2. CASE q = p
    BY <1>1, <1>2, <1>3, <1>5, <2>1, <2>2 DEF Session!ProvisionFits, Session!Owns
  <2>3. CASE q # p
    BY <1>2, <1>5, <2>1, <2>3 DEF Session!ProvisionFits, Session!Owns
  <2> QED
    BY <2>2, <2>3
<1>13. \A b \in Browsers : Session!ConnectFits(b)' /\ \A k \in Keys : Session!SlotFits(b, k)'
  BY <1>1, <1>2, <1>8, DisturbedFit
<1> QED
  BY <1>7, <1>9, <1>11, <1>12, <1>13 DEF Session!IInv

LEMMA InsertMappingKeeps ==
    ASSUME Session!IInv, NEW p \in Provisions, Session!InsertMapping(p)
    PROVE  Session!IInv'
<1>1. PICK u \in Session!Users, c \in Targets, e \in TargetEmails :
        u = s5[p].user /\ c = s5[p].connection /\ e = s5[p].email
  BY SessionTypes DEF Session!InsertMapping, Session!Ways, Session!IInv
<1>2. PICK m \in TargetEmails : m = IF s2[u][c] = Session!None THEN e ELSE s2[u][c]
  BY DEF Session!IInv, Session!TypeOK
<1>3. /\ s2' = [s2 EXCEPT ![u][c] = m] /\ Session!Disturb(u, c)
      /\ s4' = [s4 EXCEPT ![u][c].emails = @ \union ({s2'[u][c]} \ {Session!None})]
      /\ s5' = [s5 EXCEPT ![p] = Session!IdleProvision]
      /\ UNCHANGED <<s1, s3, s6>> /\ s5[p].at = "insert"
  BY <1>1, <1>2
     DEF Session!InsertMapping, Session!Remember, Session!IInv, Session!TypeOK
<1>3a. /\ m # Session!None
       /\ m = e \/ m = s2[u][c]
       /\ m # e => m \in s4[u][c].emails
  BY <1>2, SessionAssumption DEF Session!IInv, Session!TypeOK, Session!HistoryIsKept
<1>4. /\ s2' \in [Session!Users -> [Targets -> TargetEmails \union {Session!None}]]
      /\ \A v \in Session!Users, d \in Targets :
           s2'[v][d] = IF v = u /\ d = c THEN m ELSE s2[v][d]
  BY <1>1, <1>3, <1>3a DEF Session!IInv, Session!TypeOK
<1>5. /\ s4' \in [Session!Users -> [Targets -> [tables : SUBSET TargetTables, emails : SUBSET TargetEmails]]]
      /\ \A v \in Session!Users, d \in Targets :
           /\ s4'[v][d].tables = s4[v][d].tables
           /\ s4'[v][d].emails = IF v = u /\ d = c THEN s4[v][d].emails \union {m}
                                   ELSE s4[v][d].emails
  <2>1. s4' = [s4 EXCEPT ![u][c].emails = @ \union {m}]
    <3>1. s2'[u][c] = m
      BY <1>4
    <3>2. {s2'[u][c]} \ {Session!None} = {m}
      BY <1>3a, <3>1
    <3> QED
      BY <1>3, <3>2
  <2>2. s4[u][c] \in [tables : SUBSET TargetTables, emails : SUBSET TargetEmails]
    BY <1>1, SessionTypes DEF Session!IInv
  <2> QED
    BY <1>3a, <2>1, <2>2 DEF Session!IInv, Session!TypeOK
<1>6. s5' \in [Provisions -> Session!Ways \union {Session!IdleProvision}]
      /\ \A q \in Provisions : s5'[q] = IF q = p THEN Session!IdleProvision ELSE s5[q]
  BY <1>3 DEF Session!IInv, Session!TypeOK
<1>7. s7' \in [Browsers -> Session!Forms \union {Session!IdleConnect}]
  BY <1>1, <1>3, Disturbed DEF Session!IInv
<1>8. Session!TypeOK'
  BY <1>3, <1>4, <1>5, <1>6, <1>7 DEF Session!IInv, Session!TypeOK
<1>9. \A v \in Session!Users, d \in Targets : Session!Resolved(v, d)' = Session!Resolved(v, d)
  BY <1>3 DEF Session!Resolved
<1>10. Session!HistoryIsKept'
  BY <1>4, <1>5, <1>9 DEF Session!IInv, Session!HistoryIsKept
<1>11. \* The e-mail is an account's, and no other member was given it.
       /\ s3[c][e] # Session!NoAccount
       /\ \A v \in Members : e \notin s4[v][c].emails
       /\ \A q \in Provisions : q # p /\ Session!Owns(q) /\ s5[q].connection = c
                                 => s5[q].email # e
  <2>1. Session!Owns(p) /\ Session!ProvisionFits(p) /\ Session!ProvisionsApart
    BY <1>3 DEF Session!IInv, Session!Owns
  <2> QED
    BY <1>1, <2>1 DEF Session!ProvisionFits, Session!ProvisionsApart
<1>12. Session!AccountsApart'
  <2>1. ASSUME NEW v \in Members, NEW d \in Targets, NEW x \in s4'[v][d].emails
        PROVE  s3[d][x] # Session!NoAccount
    <3>1. v \in Session!Users
      BY DEF Session!Users
    <3>2. x \in s4[v][d].emails \/ (v = u /\ d = c /\ x = m)
      BY <1>5, <3>1
    <3> QED
      BY <1>3a, <1>11, <3>2 DEF Session!IInv, Session!AccountsApart
  <2>2. ASSUME NEW v \in Members, NEW w \in Members, NEW d \in Targets, v # w, NEW x,
               x \in s4'[v][d].emails, x \in s4'[w][d].emails
        PROVE  FALSE
    <3>1. v \in Session!Users /\ w \in Session!Users
      BY DEF Session!Users
    <3>2. /\ x \in s4[v][d].emails \/ (v = u /\ d = c /\ x = m)
          /\ x \in s4[w][d].emails \/ (w = u /\ d = c /\ x = m)
      BY <1>5, <2>2, <3>1
    <3>3. s4[v][d].emails \intersect s4[w][d].emails = {}
      BY <2>2 DEF Session!IInv, Session!AccountsApart
    <3> QED
      BY <1>3a, <1>11, <2>2, <3>2, <3>3
  <2> QED
    BY <1>3, <2>1, <2>2 DEF Session!AccountsApart
<1>13. Session!ClaimsWereGranted'
  <2>1. \A d \in Targets, x \in TargetEmails : s3[d][x].for \in Session!Users \union {Session!None}
    BY SessionTypes DEF Session!IInv
  <2> QED
    BY <1>3, <1>5, <2>1 DEF Session!IInv, Session!ClaimsWereGranted
<1>14. ASSUME NEW q \in Provisions PROVE Session!ProvisionFits(q)'
  <2>1. CASE q = p
    BY <1>6, <2>1 DEF Session!ProvisionFits, Session!Owns, Session!IdleProvision
  <2>2. CASE q # p /\ s5[q].at = "idle"
    BY <1>6, <2>2 DEF Session!ProvisionFits, Session!Owns
  <2>3. CASE q # p /\ s5[q].at # "idle"
    <3>1. s5[q].user \in Session!Users /\ s5[q].connection \in Targets
      BY <2>3, SessionTypes DEF Session!Ways, Session!IInv
    <3>2. s5'[q] = s5[q] /\ Session!ProvisionFits(q)
      BY <1>6, <2>3 DEF Session!IInv
    <3>3. ASSUME Session!Owns(q), NEW v \in Members
          PROVE  s5[q].email \notin s4'[v][s5[q].connection].emails
      <4>1. s5[q].email \notin s4[v][s5[q].connection].emails
        BY <3>2, <3>3 DEF Session!ProvisionFits
      <4>2. s5[q].connection = c => s5[q].email # e
        BY <1>11, <2>3, <3>3
      <4> QED
        BY <1>3a, <1>5, <3>1, <4>1, <4>2 DEF Session!Users
    <3> QED
      BY <1>3, <1>5, <3>1, <3>2, <3>3 DEF Session!ProvisionFits, Session!Owns
  <2> QED
    BY <2>1, <2>2, <2>3
<1>15. Session!ProvisionsApart'
  BY <1>6 DEF Session!IInv, Session!ProvisionsApart, Session!Owns, Session!IdleProvision
<1>16. \A b \in Browsers : Session!ConnectFits(b)' /\ \A k \in Keys : Session!SlotFits(b, k)'
  <2>1. \A v \in Session!Users, d \in Targets :
           /\ s4[v][d].tables \subseteq s4'[v][d].tables
           /\ s4[v][d].emails \subseteq s4'[v][d].emails
    BY <1>5
  <2> QED
    BY <1>3, <1>9, <2>1, DisturbedFit
<1> QED
  BY <1>8, <1>10, <1>12, <1>13, <1>14, <1>15, <1>16 DEF Session!IInv

LEMMA UpdateUserKeeps ==
    ASSUME Session!IInv, NEW b \in Browsers, Session!UpdateUser(b)
    PROVE  Session!IInv'
<1> DEFINE f == s7[b]
           c == f.connection
           a == [claims |-> s7[b].claims, for |-> s7[b].user]
           r == [s7[b] EXCEPT !.at = "upsert", !.claims = {}]
<1>1. /\ f \in Session!Forms /\ f.at = "update" /\ f.user \in Session!Users /\ c \in Targets
      /\ f.email \in TargetEmails /\ f.claims \subseteq TargetTables
  BY SessionTypes DEF Session!UpdateUser, Session!Forms, Session!IInv
<1>2. /\ s3' = [s3 EXCEPT ![c][f.email] = a]
      /\ s7' = [d \in Browsers |->
                     IF d = b THEN r
                     ELSE IF s7[d].connection = c /\ s7[d].email = f.email
                     THEN [s7[d] EXCEPT !.quiet = FALSE] ELSE s7[d]]
      /\ UNCHANGED <<s1, s2, s4, s5, s6>>
  BY DEF Session!UpdateUser, Session!Own
<1>3. /\ a \in [claims : SUBSET TargetTables, for : Session!Users \union {Session!None}] /\ a # Session!NoAccount
      /\ a.for = f.user /\ a.claims = f.claims
  BY <1>1, SessionAssumption DEF Session!NoAccount
<1>4. /\ r \in Session!Forms /\ r.at = "upsert" /\ r.user = f.user /\ r.connection = c
      /\ r.email = f.email /\ r.quiet = f.quiet
  BY <1>1 DEF Session!Forms, Session!ConnectAwaits
<1> HIDE DEF a, r
<1>5. /\ s3' \in [Targets -> [TargetEmails -> [claims : SUBSET TargetTables, for : Session!Users \union {Session!None}]]]
      /\ \A d \in Targets, e \in TargetEmails :
           s3'[d][e] = IF d = c /\ e = f.email THEN a ELSE s3[d][e]
  BY <1>1, <1>2, <1>3 DEF Session!IInv, Session!TypeOK
<1>6. ASSUME NEW d \in Browsers, d # b
      PROVE  /\ s7'[d] \in Session!Forms \union {Session!IdleConnect}
             /\ s7'[d].at = s7[d].at /\ s7'[d].user = s7[d].user
             /\ s7'[d].connection = s7[d].connection
             /\ s7'[d].email = s7[d].email /\ s7'[d].claims = s7[d].claims
             /\ s7'[d].quiet => /\ s7[d].quiet
                                /\ ~(s7[d].connection = c /\ s7[d].email = f.email)
  <2>1. CASE s7[d].connection = c /\ s7[d].email = f.email
    <3>1. s7'[d] = [s7[d] EXCEPT !.quiet = FALSE] /\ s7[d] \in Session!Forms
      BY <1>1, <1>2, <1>6, <2>1, SessionAssumption
         DEF Session!IInv, Session!TypeOK, Session!IdleConnect
    <3> QED
      BY <2>1, <3>1 DEF Session!Forms
  <2>2. CASE ~(s7[d].connection = c /\ s7[d].email = f.email)
    BY <1>2, <1>6, <2>2 DEF Session!IInv, Session!TypeOK
  <2> QED
    BY <2>1, <2>2
<1>7. s7' \in [Browsers -> Session!Forms \union {Session!IdleConnect}] /\ s7'[b] = r
  BY <1>2, <1>4, <1>6
<1>8. Session!TypeOK'
  BY <1>2, <1>5, <1>7 DEF Session!IInv, Session!TypeOK
<1>9. Session!HistoryIsKept' /\ Session!ProvisionsApart'
  BY <1>2 DEF Session!IInv, Session!HistoryIsKept, Session!ProvisionsApart,
              Session!Owns, Session!Resolved
<1>10. \A d \in Targets, e \in TargetEmails : s3[d][e] # Session!NoAccount => s3'[d][e] # Session!NoAccount
  BY <1>3, <1>5
<1>11. Session!AccountsApart'
  <2>1. \A v \in Members, d \in Targets : s4[v][d].emails \subseteq TargetEmails
    BY SessionTypes DEF Session!IInv, Session!Users
  <2> QED
    BY <1>2, <1>10, <2>1 DEF Session!IInv, Session!AccountsApart
<1>12. Session!ConnectFits(b)
  BY DEF Session!IInv
<1>13. Session!ClaimsWereGranted'
  <2>1. f.claims \subseteq s4[f.user][c].tables
    BY <1>1, <1>12 DEF Session!ConnectFits
  <2> QED
    BY <1>2, <1>3, <1>5, <2>1 DEF Session!IInv, Session!ClaimsWereGranted
<1>14. ASSUME NEW q \in Provisions PROVE Session!ProvisionFits(q)'
  <2>1. Session!Owns(q) => s5[q].connection \in Targets /\ s5[q].email \in TargetEmails
    BY SessionTypes DEF Session!Owns, Session!Ways, Session!IInv
  <2> QED
    BY <1>2, <1>10, <2>1 DEF Session!IInv, Session!ProvisionFits, Session!Owns
<1>15. \A v \in Session!Users, d \in Targets : Session!Resolved(v, d)' = Session!Resolved(v, d)
  BY <1>2 DEF Session!Resolved
<1>16. Session!ConnectFits(b)' /\ \A k \in Keys : Session!SlotFits(b, k)'
  <2>1. Session!Key(b)' = Session!Key(b)
    BY <1>4, <1>7 DEF Session!Key, Session!Own
  <2>2. s3'[c][f.email] = a
    BY <1>1, <1>5
  <2>3. Session!ConnectFits(b)'
    BY <1>1, <1>2, <1>3, <1>4, <1>7, <1>12, <2>1, <2>2
       DEF Session!ConnectFits, Session!Resolved
  <2>4. \A k \in Keys : Session!SlotFits(b, k)'
    BY <1>1, <1>2, <1>4, <1>7, <2>1 DEF Session!IInv, Session!SlotFits
  <2> QED
    BY <2>3, <2>4
<1>17. ASSUME NEW d \in Browsers, d # b
       PROVE  Session!ConnectFits(d)' /\ \A k \in Keys : Session!SlotFits(d, k)'
  <2>1. Session!ConnectFits(d) /\ \A k \in Keys : Session!SlotFits(d, k)
    BY DEF Session!IInv
  <2>2. Session!Key(d)' = Session!Key(d)
    BY <1>6, <1>17 DEF Session!Key, Session!Own
  <2>3. \A k \in Keys : Session!SlotFits(d, k)'
    BY <1>2, <1>6, <1>17, <2>1, <2>2 DEF Session!SlotFits
  <2>4. CASE s7[d].at = "idle"
    BY <1>6, <1>17, <2>3, <2>4 DEF Session!ConnectFits
  <2>5. CASE s7[d].at # "idle"
    <3>1. /\ s7[d].connection \in Targets /\ s7[d].email \in TargetEmails
          /\ s7[d].user \in Session!Users
      BY <2>5, SessionTypes DEF Session!Forms, Session!IInv
    <3>2. /\ s7'[d].quiet => s3'[s7[d].connection][s7[d].email]
                                    = s3[s7[d].connection][s7[d].email]
          /\ s3[s7[d].connection][s7[d].email] # Session!NoAccount
              => s3'[s7[d].connection][s7[d].email] # Session!NoAccount
      BY <1>5, <1>6, <1>10, <1>17, <3>1
    <3>3. Session!ConnectFits(d)'
      BY <1>2, <1>6, <1>17, <2>1, <2>2, <3>1, <3>2
         DEF Session!ConnectFits, Session!Resolved
    <3> QED
      BY <2>3, <3>3
  <2> QED
    BY <2>4, <2>5
<1> QED
  BY <1>8, <1>9, <1>11, <1>13, <1>14, <1>16, <1>17 DEF Session!IInv

LEMMA UpsertMappingKeeps ==
    ASSUME Session!IInv, NEW b \in Browsers, Session!UpsertMapping(b)
    PROVE  Session!IInv'
<1>1. PICK u \in Session!Users, c \in Targets, e \in TargetEmails :
        u = s7[b].user /\ c = s7[b].connection /\ e = s7[b].email
  BY SessionTypes DEF Session!UpsertMapping, Session!Forms, Session!IInv
<1>2. /\ \/ s2' = [s2 EXCEPT ![u][c] = e]
         \/ s2' = s2
      /\ s4' = [s4 EXCEPT ![u][c].emails = @ \union ({s2'[u][c]} \ {Session!None})]
      /\ UNCHANGED <<s1, s3, s5, s6>> /\ s7[b].at = "upsert"
  BY <1>1 DEF Session!UpsertMapping, Session!Remember, Session!Own
<1>3. s7[b] \in Session!Forms
  BY <1>2, SessionTypes DEF Session!IInv
<1> DEFINE r == [s7[b] EXCEPT !.at = "refresh"]
<1>4. s7' = [s7 EXCEPT ![b] = r] /\ s7'[b] = r
  BY DEF Session!UpsertMapping, Session!Goes, Session!IInv, Session!TypeOK
<1>5. /\ r \in Session!Forms /\ r.at = "refresh" /\ r.user = u /\ r.connection = c
      /\ r.email = e /\ r.quiet = s7[b].quiet
  BY <1>1, <1>3 DEF Session!Forms, Session!ConnectAwaits
<1> HIDE DEF r
<1>6. /\ s2' \in [Session!Users -> [Targets -> TargetEmails \union {Session!None}]]
      /\ s2'[u][c] \in {e, s2[u][c]}
      /\ \A v \in Session!Users, d \in Targets :
           ~(v = u /\ d = c) => s2'[v][d] = s2[v][d]
  <2>1. s2 \in [Session!Users -> [Targets -> TargetEmails \union {Session!None}]]
    BY DEF Session!IInv, Session!TypeOK
  <2>2. CASE s2' = [s2 EXCEPT ![u][c] = e]
    BY <2>1, <2>2
  <2>3. CASE s2' = s2
    BY <2>1, <2>3
  <2> QED
    BY <1>2, <2>2, <2>3
<1>7. PICK new \in SUBSET TargetEmails :
        /\ s4' = [s4 EXCEPT ![u][c].emails = @ \union new]
        /\ s2'[u][c] # Session!None => s2'[u][c] \in new
        /\ new \subseteq {e, s2[u][c]} \ {Session!None}
  <2>1. {s2'[u][c]} \ {Session!None} \in SUBSET TargetEmails
    BY <1>6
  <2> QED
    BY <1>2, <1>6, <2>1
<1>8. /\ s4' \in [Session!Users -> [Targets -> [tables : SUBSET TargetTables, emails : SUBSET TargetEmails]]]
      /\ \A v \in Session!Users, d \in Targets :
           /\ s4'[v][d].tables = s4[v][d].tables
           /\ s4'[v][d].emails = IF v = u /\ d = c THEN s4[v][d].emails \union new
                                   ELSE s4[v][d].emails
  <2>1. s4[u][c] \in [tables : SUBSET TargetTables, emails : SUBSET TargetEmails]
    BY SessionTypes DEF Session!IInv
  <2> QED
    BY <1>7, <2>1 DEF Session!IInv, Session!TypeOK
<1>9. \* A member has only what he was given before.
      u \in Members => new \subseteq s4[u][c].emails
  <2>1. u \in Members => e \in s4[u][c].emails
    BY <1>1, <1>2 DEF Session!IInv, Session!ConnectFits
  <2>2. s2[u][c] # Session!None => s2[u][c] \in s4[u][c].emails
    BY DEF Session!IInv, Session!HistoryIsKept
  <2> QED
    BY <1>7, <2>1, <2>2
<1>10. \A v \in Members, d \in Targets : s4'[v][d].emails = s4[v][d].emails
  BY <1>8, <1>9 DEF Session!Users
<1>11. s7' \in [Browsers -> Session!Forms \union {Session!IdleConnect}]
  BY <1>4, <1>5 DEF Session!IInv, Session!TypeOK
<1>12. Session!TypeOK'
  BY <1>2, <1>6, <1>8, <1>11 DEF Session!IInv, Session!TypeOK
<1>13. \A v \in Session!Users, d \in Targets : Session!Resolved(v, d)' = Session!Resolved(v, d)
  BY <1>2 DEF Session!Resolved
<1>14. Session!HistoryIsKept'
  BY <1>6, <1>7, <1>8, <1>13 DEF Session!IInv, Session!HistoryIsKept
<1>15. Session!AccountsApart' /\ Session!ProvisionsApart'
  BY <1>2, <1>10
     DEF Session!IInv, Session!AccountsApart, Session!ProvisionsApart, Session!Owns
<1>16. Session!ClaimsWereGranted'
  <2>1. \A d \in Targets, x \in TargetEmails : s3[d][x].for \in Session!Users \union {Session!None}
    BY SessionTypes DEF Session!IInv
  <2> QED
    BY <1>2, <1>8, <2>1 DEF Session!IInv, Session!ClaimsWereGranted
<1>17. ASSUME NEW q \in Provisions PROVE Session!ProvisionFits(q)'
  <2>1. CASE s5[q].at = "idle"
    BY <1>2, <2>1 DEF Session!ProvisionFits, Session!Owns
  <2>2. CASE s5[q].at # "idle"
    <3>1. s5[q].user \in Session!Users /\ s5[q].connection \in Targets
      BY <2>2, SessionTypes DEF Session!Ways, Session!IInv
    <3>2. Session!ProvisionFits(q)
      BY DEF Session!IInv
    <3> QED
      BY <1>2, <1>8, <1>10, <3>1, <3>2 DEF Session!ProvisionFits, Session!Owns
  <2> QED
    BY <2>1, <2>2
<1>18. \A d \in Browsers : d # b => s7'[d] = s7[d]
  BY <1>4 DEF Session!IInv, Session!TypeOK
<1>19. Session!ConnectFits(b)'
  <2>1. Session!Key(b)' = Session!Key(b)
    BY <1>1, <1>4, <1>5 DEF Session!Key, Session!Own
  <2>2. Session!ConnectFits(b) /\ Session!Resolved(u, c)' = Session!Resolved(u, c)
    BY <1>13 DEF Session!IInv
  <2>3. s4[u][c].emails \subseteq s4'[u][c].emails
    BY <1>8
  <2> QED
    BY <1>1, <1>2, <1>4, <1>5, <2>1, <2>2, <2>3
       DEF Session!ConnectFits, Session!Resolved
<1>20. ASSUME NEW d \in Browsers, d # b PROVE Session!ConnectFits(d)'
  <2>1. Session!ConnectFits(d) /\ Session!Key(d)' = Session!Key(d)
    BY <1>18, <1>20 DEF Session!IInv, Session!Key, Session!Own
  <2>2. CASE s7[d].at = "idle"
    BY <1>18, <1>20, <2>2 DEF Session!ConnectFits
  <2>3. CASE s7[d].at # "idle"
    <3>1. s7[d].user \in Session!Users /\ s7[d].connection \in Targets
      BY <2>3, SessionTypes DEF Session!Forms, Session!IInv
    <3>2. /\ s4[s7[d].user][s7[d].connection].tables
               \subseteq s4'[s7[d].user][s7[d].connection].tables
          /\ s4[s7[d].user][s7[d].connection].emails
               \subseteq s4'[s7[d].user][s7[d].connection].emails
      BY <1>8, <3>1
    <3> QED
      BY <1>2, <1>18, <1>20, <2>1, <3>1, <3>2 DEF Session!ConnectFits, Session!Resolved
  <2> QED
    BY <2>2, <2>3
<1>21. ASSUME NEW d \in Browsers, NEW k \in Keys PROVE Session!SlotFits(d, k)'
  <2>1. Session!SlotFits(d, k)
    BY DEF Session!IInv
  <2>2. s6[d][k].by \in Members =>
          s6[d][k].by \in Session!Users /\ s6[d][k].connection \in Targets
    BY SessionTypes, SessionAssumption DEF Session!Sessions, Session!IInv, Session!Users
  <2>3. s7[d].at \in {"access", "mapping"} <=> s7'[d].at \in {"access", "mapping"}
    BY <1>2, <1>4, <1>5, <1>18
  <2>4. Session!Key(d)' = Session!Key(d)
    BY <1>1, <1>4, <1>5, <1>18 DEF Session!Key, Session!Own
  <2> QED
    BY <1>2, <1>8, <2>1, <2>2, <2>3, <2>4 DEF Session!SlotFits
<1> QED
  BY <1>12, <1>14, <1>15, <1>16, <1>17, <1>19, <1>20, <1>21 DEF Session!IInv

LEMMA SessionStep == Session!IInv /\ [Session!Next]_(Session!vars) => Session!IInv'
<1> SUFFICES ASSUME Session!IInv, [Session!Next]_(Session!vars) PROVE Session!IInv'
  OBVIOUS
<1>1. ASSUME NEW u \in Members, NEW c \in Targets, Session!ChangePermissions(u, c)
      PROVE  Session!IInv'
  BY <1>1, ChangePermissionsKeeps
<1>2. ASSUME NEW p \in Provisions, Session!Provision(p) PROVE Session!IInv'
  BY <1>2, StartProvisionKeeps, ProvisionBuildKeeps, CreateUserKeeps,
     DeleteMappingKeeps,
     InsertMappingKeeps, ProvisionFailsKeeps DEF Session!Provision
<1>3. ASSUME NEW b \in Browsers, NEW u \in Session!Users, NEW c \in Targets,
             NEW e \in TargetEmails,
             Session!Submit(b, u, c, e)
      PROVE  Session!IInv'
  BY <1>3, SubmitKeeps
<1>4. ASSUME NEW b \in Browsers, Session!Step(b) PROVE Session!IInv'
  <2>1. CASE Session!SignInFails(b) \/ Session!RefreshFails(b)
    BY <2>1, GivesUpKeeps DEF Session!SignInFails, Session!RefreshFails
  <2> QED
    BY <1>4, <2>1, SignInKeeps, CheckAccessKeeps, CheckMappingKeeps, BuildKeeps,
       UpdateUserKeeps,
       UpsertMappingKeeps, SyncFailsKeeps, RefreshKeeps DEF Session!Step
<1>5. ASSUME NEW b \in Browsers, Session!LeaveForm(b) PROVE Session!IInv'
  BY <1>5, GivesUpKeeps DEF Session!LeaveForm
<1>6. ASSUME NEW b \in Browsers, NEW k \in Keys, Session!AutoRefresh(b, k)
      PROVE  Session!IInv'
  BY <1>6, AutoRefreshKeeps
<1>7. CASE UNCHANGED Session!vars
  BY <1>7 DEF Session!vars, Session!IInv, Session!TypeOK, Session!HistoryIsKept,
              Session!AccountsApart, Session!ClaimsWereGranted, Session!ProvisionFits,
     Session!ProvisionsApart, Session!Owns, Session!ConnectFits, Session!SlotFits,
        Session!Key, Session!Own, Session!Resolved
<1> QED
  BY <1>1, <1>2, <1>3, <1>4, <1>5, <1>6, <1>7 DEF Session!Next

\* What the invariant says of accounts and of sessions.
LEMMA SessionTells ==
    Session!IInv => Session!ClaimsWereGranted /\ Session!OneMemberPerAccount /\ Session!QuietConnectIsExact /\ Session!MembersKeepTheirAccounts
<1> SUFFICES ASSUME Session!IInv
             PROVE  Session!OneMemberPerAccount /\ Session!QuietConnectIsExact /\ Session!MembersKeepTheirAccounts
  BY DEF Session!IInv
<1>1. Session!OneMemberPerAccount
  <2> SUFFICES ASSUME NEW u \in Members, NEW v \in Members, NEW c \in Targets,
                      s2[u][c] = s2[v][c], s2[u][c] # Session!None, u # v
               PROVE  FALSE
    BY DEF Session!OneMemberPerAccount
  <2>1. s2[u][c] \in s4[u][c].emails /\ s2[v][c] \in s4[v][c].emails
    BY DEF Session!IInv, Session!HistoryIsKept, Session!Users
  <2> QED
    BY <2>1 DEF Session!IInv, Session!AccountsApart
<1>2. Session!QuietConnectIsExact
  <2> SUFFICES ASSUME NEW b \in Browsers, s7[b].at = "connected", s7[b].quiet
               PROVE  s6[b][Session!Key(b)] = [connection |-> Session!Own(b), email |-> s7[b].email,
                                         claims |-> Session!Resolved(s7[b].user, Session!Own(b)),
                                         by |-> s7[b].user]
    BY DEF Session!QuietConnectIsExact
  <2>1. s7[b] \in Session!Forms /\ Session!Key(b) \in Keys /\ s7[b].user \in Session!Users
    BY SessionTypes, SessionAssumption
       DEF Session!IInv, Session!Forms, Session!Key, Session!Own
  <2>2. /\ s6[b][Session!Key(b)].connection = Session!Own(b) /\ s6[b][Session!Key(b)].email = s7[b].email
        /\ s6[b][Session!Key(b)].by = s7[b].user
        /\ s6[b][Session!Key(b)].claims = Session!Resolved(s7[b].user, Session!Own(b))
    BY DEF Session!IInv, Session!ConnectFits, Session!Own
  <2>3. s6[b][Session!Key(b)] \in Session!Sessions
    BY <2>1, <2>2, SessionTypes, SessionAssumption DEF Session!IInv
  <2> QED
    BY <2>2, <2>3 DEF Session!Sessions
<1>3. Session!MembersKeepTheirAccounts
  BY DEF Session!IInv, Session!MembersKeepTheirAccounts, Session!SlotFits,
         Session!ConnectEnds
<1> QED
  BY <1>1, <1>2, <1>3

LEMMA SessionInvariant == ServerSpec => [](part = "session" => Session!IInv)
<1> DEFINE Holds == part = "session" => Session!IInv
<1>1. ServerInit => Holds
  BY SessionInit DEF ServerInit
<1>2. Holds /\ [ServerNext]_<<part, vars, state>> => Holds'
  BY SessionStep DEF ServerNext, state, Session!vars
<1> QED
  BY <1>1, <1>2, PTL DEF ServerSpec

\* Provisioning, login and refresh write app_metadata, mapping and session one
\* after the other, and may stop between any two: the claims of an account were
\* granted to the user they name, and undisturbed they are exact.
THEOREM ClaimsAlwaysGranted == ServerSpec => []ClaimsAreGranted
<1>1. (part = "session" => Session!IInv) => ClaimsAreGranted
  BY SessionTells DEF ClaimsAreGranted
<1> QED
  BY <1>1, SessionInvariant, PTL

\* Although no constraint of target_user_mappings says so, two members never have
\* the same account, and a session that a member's form leaves behind is on one
\* that was given to him.
THEOREM AccountsStayPersonal == ServerSpec => []AccountsArePersonal
<1>1. (part = "session" => Session!IInv) => AccountsArePersonal
  BY SessionTells DEF AccountsArePersonal
<1> QED
  BY <1>1, SessionInvariant, PTL

=============================================================================
