----------------------------- MODULE TargetSession -----------------------------
(***************************************************************************)
(* Accounts and sessions on the Target projects.  An administrator gives a  *)
(* user an account on a Target (provisionTargetUser); the connect form      *)
(* signs in there, has the account's app_metadata brought up to date        *)
(* (syncTargetUserPermissions) and refreshes the session, whose JWT carries *)
(* a copy of it.  Every await is a step, and every call may fail.           *)
(***************************************************************************)
EXTENDS Naturals, FiniteSets

CONSTANTS Admins, Members,  \* Meta users; roles do not change here
          Connections, Tables, Emails,
          Browsers,
          Provisions,       \* calls of provisionTargetUser under way at once
          Keys, KeyOf,      \* storage key of each connection's sessions
          MaxChanges        \* bound: changes of permissions

Users == Admins \union Members

VARIABLES granted,   \* what each member's permissions resolve to
          mapping,   \* target_user_mappings: user and connection to e-mail
          account,   \* accounts of each Target: app_metadata, and for whom
          ever,      \* all that a user was granted, or had as account (history)
          provision, \* the provisioning calls
          slot,      \* each browser's stored sessions, by storage key
          connect,   \* each browser's connect form and its call
          changes

vars == <<granted, mapping, account, ever, provision, slot, connect, changes>>

None == "none"
NoAccount == [claims |-> {}, for |-> None]
NoSession == [connection |-> None, email |-> None, claims |-> {}, by |-> None]

\* buildTargetJwtPermissions: an administrator has every table.
Resolved(u, c) == IF u \in Admins THEN Tables ELSE granted[u][c]

ConnectAwaits == {"signIn", "access", "mapping", "build", "update",
                  "upsert", "refresh"}
ConnectEnds == {"idle", "connected"}

IdleProvision == [at |-> "idle", user |-> None, connection |-> None,
                  email |-> None, claims |-> {}]
IdleConnect == [at |-> "idle", user |-> None, connection |-> None,
                email |-> None, claims |-> {}, quiet |-> TRUE]

Init == /\ granted \in [Members -> [Connections -> SUBSET Tables]]
        /\ mapping = [u \in Users |-> [c \in Connections |-> None]]
        /\ account = [c \in Connections |-> [e \in Emails |-> NoAccount]]
        /\ ever = [u \in Users |-> [c \in Connections |->
                     [tables |-> IF u \in Admins THEN Tables ELSE granted[u][c],
                      emails |-> {}]]]
        /\ provision = [p \in Provisions |-> IdleProvision]
        /\ slot = [b \in Browsers |-> [k \in Keys |-> NoSession]]
        /\ connect = [b \in Browsers |-> IdleConnect]
        /\ changes = 0

-----------------------------------------------------------------------------

\* Calls of user u on connection c that are under way are no longer quiet.
Disturb(u, c) ==
    connect' = [b \in Browsers |->
                  IF connect[b].user = u /\ connect[b].connection = c
                  THEN [connect[b] EXCEPT !.quiet = FALSE] ELSE connect[b]]

\* An administrator edits roles or overrides, or takes somebody off.
ChangePermissions(u, c) ==
    /\ changes < MaxChanges
    /\ changes' = changes + 1
    /\ \E tables \in SUBSET Tables \ {granted[u][c]} :
         /\ granted' = [granted EXCEPT ![u][c] = tables]
         /\ ever' = [ever EXCEPT ![u][c].tables = @ \union tables]
    /\ Disturb(u, c)
    /\ UNCHANGED <<mapping, account, provision, slot>>

-----------------------------------------------------------------------------
(* provisionTargetUser: calls p, by whichever administrators.               *)

\* findById and findProfileById have been answered.
StartProvision(p, u, c, e) ==
    /\ provision[p].at = "idle"
    /\ provision' = [provision EXCEPT ![p] = [IdleProvision EXCEPT
                     !.at = "build", !.user = u, !.connection = c, !.email = e]]
    /\ UNCHANGED <<granted, mapping, account, ever, slot, connect, changes>>

Remember(u, c) == ever' = [ever EXCEPT ![u][c].emails = @ \union ({mapping'[u][c]} \ {None})]

ProvisionGoes(p, at, claims) ==
    provision' = [provision EXCEPT ![p].at = at, ![p].claims = claims]

ProvisionBuild(p) ==
    /\ provision[p].at = "build"
    /\ ProvisionGoes(p, "createUser", Resolved(provision[p].user, provision[p].connection))
    /\ UNCHANGED <<granted, mapping, account, ever, slot, connect, changes>>

\* The Target refuses an e-mail that it has.
CreateUser(p) ==
    /\ provision[p].at = "createUser"
    /\ account[provision[p].connection][provision[p].email] = NoAccount
    /\ account' = [account EXCEPT ![provision[p].connection][provision[p].email] =
                     [claims |-> provision[p].claims, for |-> provision[p].user]]
    /\ ProvisionGoes(p, "delete", {})
    /\ UNCHANGED <<granted, mapping, ever, slot, connect, changes>>

DeleteMapping(p) ==
    /\ provision[p].at = "delete"
    /\ mapping' = [mapping EXCEPT ![provision[p].user][provision[p].connection] = None]
    /\ ProvisionGoes(p, "insert", {})
    /\ Disturb(provision[p].user, provision[p].connection)
    /\ UNCHANGED <<granted, account, ever, slot, changes>>

\* One row for a user and a connection: if a login wrote one in between the
\* insertion fails.
InsertMapping(p) ==
    /\ provision[p].at = "insert"
    /\ mapping' = [mapping EXCEPT ![provision[p].user][provision[p].connection] =
                     IF @ = None THEN provision[p].email ELSE @]
    /\ Remember(provision[p].user, provision[p].connection)
    /\ provision' = [provision EXCEPT ![p] = IdleProvision]
    /\ Disturb(provision[p].user, provision[p].connection)
    /\ UNCHANGED <<granted, account, slot, changes>>

\* A call fails, or the server goes down; nothing is taken back.
ProvisionFails(p) ==
    /\ provision[p].at # "idle"
    /\ provision' = [provision EXCEPT ![p] = IdleProvision]
    /\ UNCHANGED <<granted, mapping, account, ever, slot, connect, changes>>

Provision(p) == \/ \E u \in Users, c \in Connections, e \in Emails : StartProvision(p, u, c, e)
                \/ ProvisionBuild(p) \/ CreateUser(p) \/ DeleteMapping(p) \/ InsertMapping(p)
                \/ ProvisionFails(p)

-----------------------------------------------------------------------------
(* The connect form of browser b and the call of its syncPermissions.       *)

Goes(b, at) == connect' = [connect EXCEPT ![b].at = at]

GivesUp(b) == connect' = [connect EXCEPT ![b] = IdleConnect]

Own(b) == connect[b].connection
Key(b) == KeyOf[Own(b)]
Session(c, e, u) == [connection |-> c, email |-> e,
                     claims |-> account[c][e].claims, by |-> u]

\* The button is disabled while the form is loading.
Submit(b, u, c, e) ==
    /\ connect[b].at \in ConnectEnds
    /\ connect' = [connect EXCEPT ![b] = [IdleConnect EXCEPT !.at = "signIn",
                     !.user = u, !.connection = c, !.email = e]]
    /\ UNCHANGED <<granted, mapping, account, ever, provision, slot, changes>>

\* signInWithPassword, with the password of the account; the session is stored
\* under the connection's key with the claims the account has.
SignIn(b) ==
    /\ connect[b].at = "signIn"
    /\ account[Own(b)][connect[b].email] # NoAccount
    /\ slot' = [slot EXCEPT ![b][Key(b)] = Session(Own(b), connect[b].email, connect[b].user)]
    /\ Goes(b, "access")
    /\ UNCHANGED <<granted, mapping, account, ever, provision, changes>>

SignInFails(b) ==
    /\ connect[b].at = "signIn"
    /\ GivesUp(b)
    /\ UNCHANGED <<granted, mapping, account, ever, provision, slot, changes>>

\* userCanAccessConnection; membership is not followed here, so this may pass or
\* be refused.  What an administrator signs in as need not be mapped to him.
CheckAccess(b) ==
    /\ connect[b].at = "access"
    /\ Goes(b, IF connect[b].user \in Members THEN "mapping" ELSE "build")
    /\ UNCHANGED <<granted, mapping, account, ever, provision, slot, changes>>

CheckMapping(b) ==
    /\ connect[b].at = "mapping"
    /\ mapping[connect[b].user][Own(b)] = connect[b].email
    /\ Goes(b, "build")
    /\ UNCHANGED <<granted, mapping, account, ever, provision, slot, changes>>

Builds(b, claims) == connect' = [connect EXCEPT ![b].at = "update", ![b].claims = claims]

\* Mutant: the role is not passed on and taken to be an administrator's.
BuildAsAdmin(b) ==
    /\ connect[b].at = "build"
    /\ Builds(b, Tables)
    /\ UNCHANGED <<granted, mapping, account, ever, provision, slot, changes>>

\* findTargetUserByEmail finds it, since nobody deletes accounts; then
\* buildTargetJwtPermissions.
Build(b) ==
    /\ connect[b].at = "build"
    /\ Builds(b, Resolved(connect[b].user, Own(b)))
    /\ UNCHANGED <<granted, mapping, account, ever, provision, slot, changes>>

\* updateUserById, after which calls for the same account are not quiet.
UpdateUser(b) ==
    /\ connect[b].at = "update"
    /\ account' = [account EXCEPT ![Own(b)][connect[b].email] =
                     [claims |-> connect[b].claims, for |-> connect[b].user]]
    /\ connect' = [d \in Browsers |->
                     IF d = b THEN [connect[b] EXCEPT !.at = "upsert", !.claims = {}]
                     ELSE IF Own(d) = Own(b) /\ connect[d].email = connect[b].email
                     THEN [connect[d] EXCEPT !.quiet = FALSE] ELSE connect[d]]
    /\ UNCHANGED <<granted, mapping, ever, provision, slot, changes>>

\* The result of the upsert is not looked at.
UpsertMapping(b) ==
    /\ connect[b].at = "upsert"
    /\ \/ mapping' = [mapping EXCEPT ![connect[b].user][Own(b)] = connect[b].email]
       \/ UNCHANGED mapping
    /\ Remember(connect[b].user, Own(b))
    /\ Goes(b, "refresh")
    /\ UNCHANGED <<granted, account, provision, slot, changes>>

\* Mutant: the session that is not to be used is kept.
SyncRefusedOnly(b) ==
    /\ connect[b].at \in {"access", "mapping", "build", "update", "upsert"}
    /\ GivesUp(b)
    /\ UNCHANGED <<granted, mapping, account, ever, provision, slot, changes>>

\* The call is refused, fails, or its answer is lost: the form signs out.
SyncFails(b) ==
    /\ connect[b].at \in {"access", "mapping", "build", "update", "upsert", "refresh"}
    /\ slot' = [slot EXCEPT ![b][Key(b)] = NoSession]
    /\ GivesUp(b)
    /\ UNCHANGED <<granted, mapping, account, ever, provision, changes>>

\* refreshSession refreshes what is stored under the key.
Refreshed(b, k) ==
    slot' = [slot EXCEPT ![b][k] =
               IF @ = NoSession THEN @ ELSE Session(@.connection, @.email, @.by)]

Refresh(b) ==
    /\ connect[b].at = "refresh"
    /\ Refreshed(b, Key(b))
    /\ Goes(b, "connected")
    /\ UNCHANGED <<granted, mapping, account, ever, provision, changes>>

\* The form shows the error; the session of the first step is kept.
RefreshFails(b) ==
    /\ connect[b].at = "refresh"
    /\ GivesUp(b)
    /\ UNCHANGED <<granted, mapping, account, ever, provision, slot, changes>>

\* The client refreshes a session on its own before its JWT expires.
AutoRefresh(b, k) ==
    /\ slot[b][k] # NoSession
    /\ Refreshed(b, k)
    /\ UNCHANGED <<granted, mapping, account, ever, provision, connect, changes>>

\* Another page, or a logout and the login of somebody else: UserMenu ends the
\* Meta session only, the Target sessions stay.
LeaveForm(b) ==
    /\ connect[b].at = "connected"
    /\ GivesUp(b)
    /\ UNCHANGED <<granted, mapping, account, ever, provision, slot, changes>>

Step(b) == \/ SignIn(b) \/ SignInFails(b) \/ CheckAccess(b) \/ CheckMapping(b)
           \/ Build(b) \/ UpdateUser(b) \/ UpsertMapping(b)
           \/ SyncFails(b) \/ Refresh(b) \/ RefreshFails(b)

Next == \/ \E u \in Members, c \in Connections : ChangePermissions(u, c)
        \/ \E p \in Provisions : Provision(p)
        \/ \E b \in Browsers :
             \/ \E u \in Users, c \in Connections, e \in Emails : Submit(b, u, c, e)
             \/ Step(b) \/ LeaveForm(b)
             \/ \E k \in Keys : AutoRefresh(b, k)

Spec == Init /\ [][Next]_vars

\* The form's calls are answered, or fail.
FairSpec == Spec /\ \A b \in Browsers : WF_vars(Step(b))

-----------------------------------------------------------------------------

\* Two members are never mapped to the same account, although the table has no
\* constraint that says so and mappings are written by two different paths.
OneMemberPerAccount ==
    \A u, v \in Members, c \in Connections :
      mapping[u][c] = mapping[v][c] /\ mapping[u][c] # None => u = v

\* If nobody changed his permissions or used the account elsewhere meanwhile, a
\* user whom the form has connected has a session on the connection he chose,
\* with exactly what his permissions resolve to.
QuietConnectIsExact ==
    \A b \in Browsers :
      connect[b].at = "connected" /\ connect[b].quiet =>
        slot[b][Key(b)] = [connection |-> Own(b), email |-> connect[b].email,
                           claims |-> Resolved(connect[b].user, Own(b)),
                           by |-> connect[b].user]

\* What a session of a member's account permits, a user for whom it was last
\* written was granted at some time: overlapping calls, failures and refreshes
\* may make it old, but not another user's.
ClaimsWereGranted ==
    \A c \in Connections, e \in Emails :
      account[c][e].for # None => account[c][e].claims \subseteq ever[account[c][e].for][c].tables

\* A session that a member's form leaves behind is on an account that was given
\* to him, whatever he typed and wherever the call stopped.
MembersKeepTheirAccounts ==
    \A b \in Browsers, k \in Keys :
      LET s == slot[b][k] IN
      /\ s.by \in Members
      /\ connect[b].at \in ConnectEnds \/ Key(b) # k
      => s.email \in ever[s.by][s.connection].emails

-----------------------------------------------------------------------------
(* The inductive invariant behind these properties.                         *)

Ways == [at : {"build", "createUser", "delete", "insert"}, user : Users,
         connection : Connections, email : Emails, claims : SUBSET Tables]
Forms == [at : ConnectAwaits \union {"connected"}, user : Users, connection : Connections,
          email : Emails, claims : SUBSET Tables, quiet : BOOLEAN]
Sessions == [connection : Connections, email : Emails, claims : SUBSET Tables, by : Users]

TypeOK ==
    /\ granted \in [Members -> [Connections -> SUBSET Tables]]
    /\ mapping \in [Users -> [Connections -> Emails \union {None}]]
    /\ account \in [Connections -> [Emails ->
                      [claims : SUBSET Tables, for : Users \union {None}]]]
    /\ ever \in [Users -> [Connections -> [tables : SUBSET Tables, emails : SUBSET Emails]]]
    /\ provision \in [Provisions -> Ways \union {IdleProvision}]
    /\ slot \in [Browsers -> [Keys -> Sessions \union {NoSession}]]
    /\ connect \in [Browsers -> Forms \union {IdleConnect}]

\* The history has what is so now.
HistoryIsKept ==
    \A u \in Users, c \in Connections :
        /\ Resolved(u, c) \subseteq ever[u][c].tables
        /\ mapping[u][c] # None => mapping[u][c] \in ever[u][c].emails

\* Members were never given the same account, and only accounts that exist.
AccountsApart ==
    \A u \in Members, c \in Connections :
        /\ \A e \in ever[u][c].emails : account[c][e] # NoAccount
        /\ \A v \in Members : u # v => ever[u][c].emails \intersect ever[v][c].emails = {}

\* A provisioning call between its account and its mapping: the account is its
\* own, nobody's so far.
Owns(p) == provision[p].at \in {"delete", "insert"}
ProvisionFits(p) ==
    LET r == provision[p] IN
    /\ r.at = "createUser" => r.claims \subseteq ever[r.user][r.connection].tables
    /\ Owns(p) => /\ account[r.connection][r.email] # NoAccount
                  /\ \A v \in Members : r.email \notin ever[v][r.connection].emails
ProvisionsApart ==
    \A p, q \in Provisions :
        /\ p # q /\ Owns(p) /\ Owns(q)
        /\ provision[p].connection = provision[q].connection
        => provision[p].email # provision[q].email

\* How far a form is, what it has stored, and what its account's claims are.
ConnectFits(b) ==
    LET r == connect[b]
        s == slot[b][Key(b)]
        now == Resolved(r.user, r.connection)
    IN
    /\ r.at = "update" => /\ r.claims \subseteq ever[r.user][r.connection].tables
                          /\ r.quiet => r.claims = now
    /\ r.at \notin {"idle", "signIn"} =>
         /\ account[r.connection][r.email] # NoAccount
         /\ s.connection = r.connection /\ s.email = r.email /\ s.by = r.user
    /\ r.at \in {"upsert", "refresh", "connected"} /\ r.quiet =>
         account[r.connection][r.email].claims = now
    /\ r.at = "connected" /\ r.quiet => s.claims = now
    /\ r.at \in {"build", "update", "upsert", "refresh", "connected"} /\ r.user \in Members =>
         r.email \in ever[r.user][r.connection].emails

\* A stored session is on an account given to its member, but while the form is
\* still finding that out.
SlotFits(b, k) ==
    LET s == slot[b][k] IN
    s.by \in Members /\ ~(connect[b].at \in {"access", "mapping"} /\ Key(b) = k) =>
      s.email \in ever[s.by][s.connection].emails

IInv == /\ TypeOK
        /\ HistoryIsKept
        /\ AccountsApart
        /\ ClaimsWereGranted
        /\ \A p \in Provisions : ProvisionFits(p)
        /\ ProvisionsApart
        /\ \A b \in Browsers : ConnectFits(b) /\ \A k \in Keys : SlotFits(b, k)
=============================================================================
