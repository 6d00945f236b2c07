---------------------------- MODULE ConnectionList ----------------------------
(***************************************************************************)
(* The connections page in a browser: the list with its buttons, the       *)
(* dialogs for RLS, Target setup and webhook secrets, and the query cache   *)
(* behind it.  A request and its answer are two steps, and the page goes on *)
(* in between; a dialog that is open is modal.                             *)
(***************************************************************************)
EXTENDS Naturals, FiniteSets

CONSTANTS Connections,  \* ids
          MaxPending    \* bound: requests under way at the same time

VARIABLES registered,   \* what Meta holds: each id's status, or Absent
          cache,        \* the list in the query cache, or NoList
          mounted,      \* whether the page is shown
          active,       \* activeId
          rls,          \* RLS dialog: open, and whose SQL
          setup,        \* setup dialog: open, loading, and whose SQL
          secret,       \* webhook dialog: open, and whose secret
          pending,      \* requests under way
          overlapped    \* a button was pressed while one was (history)

dialogs == <<active, rls, setup, secret>>
vars == <<registered, cache, mounted, dialogs, pending, overlapped>>

None == "none"
Absent == "absent"
Status == {"pending", "ready"}
Lists == [Connections -> Status \union {Absent}]
NoList == <<>>

SetupRequests == {"probe", "verify"}
Kinds == SetupRequests \union {"sync", "preview", "apply", "delete", "reveal", "rotate"}

Closed == /\ active' = None
          /\ rls' = [open |-> FALSE, sql |-> None]
          /\ setup' = [open |-> FALSE, loading |-> FALSE, sql |-> None]
          /\ secret' = [open |-> FALSE, value |-> None]
          /\ pending' = {}
          /\ overlapped' = FALSE

Init == /\ registered \in Lists
        /\ cache = NoList
        /\ mounted = FALSE
        /\ active = None
        /\ rls = [open |-> FALSE, sql |-> None]
        /\ setup = [open |-> FALSE, loading |-> FALSE, sql |-> None]
        /\ secret = [open |-> FALSE, value |-> None]
        /\ pending = {}
        /\ overlapped = FALSE

-----------------------------------------------------------------------------

\* Another page or another administrator creates, sets up or deletes.
Elsewhere ==
    /\ \E c \in Connections, s \in Status \union {Absent} :
         /\ registered[c] # s
         /\ registered' = [registered EXCEPT ![c] = s]
    /\ UNCHANGED <<cache, mounted, dialogs, pending, overlapped>>

\* ConnectionsPage renders the list of the moment, but the query takes it only
\* if it has nothing cached, and is disabled, so it never fetches.
Open ==
    /\ ~mounted
    /\ mounted' = TRUE
    /\ cache' = IF cache = NoList THEN registered ELSE cache
    /\ UNCHANGED <<registered, dialogs, pending, overlapped>>

\* Another page of the application; the query cache outlives the component.
Leave ==
    /\ mounted
    /\ mounted' = FALSE
    /\ Closed
    /\ UNCHANGED <<registered, cache>>

\* The cached list is dropped some minutes after the page was left.
CollectGarbage ==
    /\ ~mounted
    /\ cache' = NoList
    /\ UNCHANGED <<registered, mounted, dialogs, pending, overlapped>>

\* A reload of the document, by hand or by verifySetup.
Reload == /\ mounted
          /\ cache' = registered
          /\ Closed
          /\ UNCHANGED <<registered, mounted>>

-----------------------------------------------------------------------------

Modal == rls.open \/ setup.open \/ secret.open

Listed(c) == mounted /\ ~Modal /\ cache[c] # Absent

Send(kind, c) ==
    /\ [kind |-> kind, id |-> c] \notin pending
    /\ Cardinality(pending) < MaxPending
    /\ pending' = pending \union {[kind |-> kind, id |-> c]}
    /\ overlapped' = (overlapped \/ pending # {})

\* The buttons of a row; some are there only for connections that are ready.
\* Rotation and deletion ask for a confirmation.
Press(kind, c) ==
    /\ Listed(c)
    /\ kind \in {"sync", "delete"} \/ cache[c] = "ready"
    /\ Send(kind, c)
    /\ UNCHANGED <<registered, cache, mounted, dialogs>>

\* Mutant: the id of the first preview stays the active one.
PreviewKeepingActive(c) ==
    /\ Listed(c)
    /\ cache[c] = "ready"
    /\ Send("preview", c)
    /\ active' = IF active = None THEN c ELSE active
    /\ UNCHANGED <<registered, cache, mounted, rls, setup, secret>>

\* previewRls: the id is remembered before the answer comes.
PreviewRls(c) ==
    /\ Listed(c)
    /\ cache[c] = "ready"
    /\ Send("preview", c)
    /\ active' = c
    /\ UNCHANGED <<registered, cache, mounted, rls, setup, secret>>

\* applyRls applies to the active connection, which need not be the one shown.
ApplyRls ==
    /\ rls.open
    /\ active # None
    /\ Send("apply", active)
    /\ UNCHANGED <<registered, cache, mounted, dialogs>>

\* openSetup: the dialog is opened by its property, which does not call the
\* onOpenChange that would load the SQL.
OpenSetup(c) ==
    /\ Listed(c)
    /\ cache[c] = "pending"
    /\ active' = c
    /\ setup' = [setup EXCEPT !.open = TRUE]
    /\ overlapped' = (overlapped \/ pending # {})
    /\ UNCHANGED <<registered, cache, mounted, rls, secret, pending>>

\* loadSetupSql and verifySetup, from their buttons.
PressInSetup(kind) ==
    /\ setup.open
    /\ ~setup.loading
    /\ Send(kind, active)
    /\ setup' = [setup EXCEPT !.loading = TRUE]
    /\ UNCHANGED <<registered, cache, mounted, active, rls, secret>>

\* Closing the topmost dialog; only the secret is forgotten.
CloseDialog ==
    /\ \/ rls.open /\ rls' = [rls EXCEPT !.open = FALSE] /\ UNCHANGED <<setup, secret>>
       \/ setup.open /\ setup' = [setup EXCEPT !.open = FALSE] /\ UNCHANGED <<rls, secret>>
       \/ /\ secret.open
          /\ secret' = [open |-> FALSE, value |-> None]
          /\ UNCHANGED <<rls, setup>>
    /\ UNCHANGED <<registered, cache, mounted, active, pending, overlapped>>

-----------------------------------------------------------------------------

Received(r) == /\ pending' = pending \ {r}
               /\ UNCHANGED overlapped

\* schemaSync, connections.delete and apply end with invalidateConnections, which
\* does nothing to a disabled query.
InvalidateConnections == UNCHANGED cache

Answer(r) ==
    /\ r \in pending
    /\ registered[r.id] # Absent \/ r.kind = "delete"
    /\ \/ /\ r.kind = "sync"
          /\ InvalidateConnections
          /\ UNCHANGED <<registered, dialogs>>
       \/ /\ r.kind = "delete"
          /\ registered' = [registered EXCEPT ![r.id] = Absent]
          /\ InvalidateConnections
          /\ UNCHANGED dialogs
       \/ /\ r.kind = "preview"
          /\ rls' = [open |-> TRUE, sql |-> r.id]
          /\ UNCHANGED <<registered, cache, active, setup, secret>>
       \/ /\ r.kind = "apply"
          /\ rls' = [rls EXCEPT !.open = FALSE]
          /\ InvalidateConnections
          /\ UNCHANGED <<registered, active, setup, secret>>
       \/ /\ r.kind \in {"reveal", "rotate"}
          /\ secret' = [open |-> TRUE, value |-> r.id]
          /\ UNCHANGED <<registered, cache, active, rls, setup>>
    /\ Received(r)
    /\ UNCHANGED mounted

\* The answer of bootstrap.probe: "ready" closes the dialog, whichever connection
\* it shows by now; otherwise the SQL is shown there.  The list stays as it is.
ProbeAnswer(r) ==
    /\ r \in pending
    /\ r.kind = "probe"
    /\ registered[r.id] # Absent
    /\ \/ /\ registered' = [registered EXCEPT ![r.id] = "ready"]
          /\ setup' = [setup EXCEPT !.open = FALSE, !.loading = FALSE]
       \/ /\ setup' = [setup EXCEPT !.loading = FALSE, !.sql = r.id]
          /\ UNCHANGED registered
    /\ Received(r)
    /\ UNCHANGED <<cache, mounted, active, rls, secret>>

\* A verified connection makes the page reload.
VerifyAnswer(r) ==
    /\ r \in pending
    /\ r.kind = "verify"
    /\ registered[r.id] # Absent
    /\ registered' = [registered EXCEPT ![r.id] = "ready"]
    /\ cache' = registered'
    /\ Closed
    /\ UNCHANGED mounted

\* A toast, and for the setup dialog the end of loading.
AnswerFails(r) ==
    /\ r \in pending
    /\ setup' = IF r.kind \in SetupRequests THEN [setup EXCEPT !.loading = FALSE] ELSE setup
    /\ Received(r)
    /\ UNCHANGED <<registered, cache, mounted, active, rls, secret>>

Answers == \E r \in pending : \/ Answer(r)
                              \/ ProbeAnswer(r)
                              \/ VerifyAnswer(r)
                              \/ AnswerFails(r)

User == \/ Open
        \/ Leave
        \/ Reload
        \/ \E c \in Connections :
             \/ \E kind \in {"sync", "delete", "reveal", "rotate"} : Press(kind, c)
             \/ PreviewRls(c)
             \/ OpenSetup(c)
        \/ ApplyRls
        \/ \E kind \in SetupRequests : PressInSetup(kind)
        \/ CloseDialog

Next == Elsewhere \/ CollectGarbage \/ User \/ Answers

\* The browser's fetch ends, with an answer or with an error.
Spec == Init /\ [][Next]_vars /\ \A kind \in Kinds, c \in Connections :
            LET r == [kind |-> kind, id |-> c]
            IN  WF_vars(Answer(r) \/ ProbeAnswer(r) \/ VerifyAnswer(r) \/ AnswerFails(r))

-----------------------------------------------------------------------------

\* Whoever waits for every answer before the next press applies what the dialog
\* shows: the SQL is that of the active connection.
PatientAppliesShown == rls.open /\ ~overlapped => rls.sql = active

\* A webhook secret is gone from the page as soon as its dialog is, also when an
\* answer opens the dialog again.
SecretGoesWithDialog == secret.open <=> secret.value # None

\* The setup dialog has at most one request under way and says so while it has,
\* for whichever connection it was opened meanwhile.
LoadingIsOneRequest ==
    LET asked == {r \in pending : r.kind \in SetupRequests}
    IN  Cardinality(asked) = IF setup.loading THEN 1 ELSE 0

Ids == Connections \union {None}

\* What every step keeps: whoever waits has one request under way, a preview only
\* of the active connection; secrets come of requests for a connection.
IInv ==
    /\ active \in Ids
    /\ rls \in [open : BOOLEAN, sql : Ids]
    /\ setup \in [open : BOOLEAN, loading : BOOLEAN, sql : Ids]
    /\ \A r \in pending : r.id \in Ids
    /\ \A r \in pending : r.kind \in {"reveal", "rotate"} => r.id \in Connections
    /\ ~overlapped => /\ \A r, o \in pending : r = o
                      /\ \A r \in pending : r.kind = "preview" => active = r.id
    /\ PatientAppliesShown /\ SecretGoesWithDialog
    /\ \A r, o \in {p \in pending : p.kind \in SetupRequests} : r = o
    /\ setup.loading <=> \E r \in pending : r.kind \in SetupRequests
=============================================================================
