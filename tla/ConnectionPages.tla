---------------------------- MODULE ConnectionPages ----------------------------
(***************************************************************************)
(* The pages of one connection: its tables, its setup checklist and its     *)
(* login.  The server renders a page in a chain of reads and may answer     *)
(* with a redirect to another of them; the setup panel in the browser       *)
(* probes the Target when it is mounted and goes to the tables when the     *)
(* answer is "ready".  Everything the pages read may change meanwhile.      *)
(***************************************************************************)
EXTENDS Naturals

CONSTANT MaxChanges  \* bound: changes elsewhere and failing reads, together

MaxRedirects == 2 * MaxChanges + 2  \* cap of the count of redirects

VARIABLES done,      \* onboarding steps that hold in Meta
          exists,    \* the connection is registered
          role,      \* the user's role
          target,    \* whether the Target has the RPCs, and whether they run
          page,      \* the page the browser is at or has asked for
          render,    \* how far the server is with it, and what it has read
          panel,     \* TargetSetupPanel: mounted, loading, shows its SQL
          request,   \* the request of the panel, or "none"
          late,      \* requests of panels that are gone
          changes,   \* changes and failing reads so far
          noise,     \* those since the last navigation (history)
          redirects  \* redirects since the last navigation (history)

world == <<done, exists, role, target>>
vars == <<world, page, render, panel, request, late, changes, noise, redirects>>

Steps == {"bootstrap", "schemaSynced", "rolesConfigured", "usersProvisioned"}
PageNames == {"tables", "setup", "connect", "new"}
UserRoles == {"platform_admin", "member"}
Complete == done = Steps

Awaits == {"profile", "status", "access", "admin", "exists", "connection",
           "permissions", "mappings"}
Outcomes == {"shown", "wizard", "blocked", "notFound", "error"}
\* The read after which getConnectionOnboardingStatus has each step.
ReadAt == [connection |-> {"bootstrap", "schemaSynced"},
           permissions |-> {"rolesConfigured"},
           mappings |-> {"usersProvisioned"}]
After == [connection |-> "permissions", permissions |-> "mappings"]

\* role: as read first; ready: whether the status read was "ready"; isAdmin:
\* as read second; steps: onboarding steps read; again: the second onboarding.
Fresh == [at |-> "profile", role |-> "member", ready |-> FALSE,
          isAdmin |-> FALSE, steps |-> {}, again |-> FALSE]
NoPanel == [mounted |-> FALSE, loading |-> FALSE, sql |-> FALSE]

Init == /\ done \in SUBSET Steps
        /\ exists \in BOOLEAN
        /\ ~exists => done = {}
        /\ role \in UserRoles
        /\ target \in [installed : BOOLEAN, runnable : BOOLEAN]
        /\ page \in IF role = "platform_admin" THEN PageNames ELSE PageNames \ {"new"}
        /\ render = IF page = "new" THEN [Fresh EXCEPT !.at = "shown"] ELSE Fresh
        /\ panel = NoPanel
        /\ request = "none"
        /\ late = {}
        /\ changes = 0
        /\ noise = 0
        /\ redirects = 0

-----------------------------------------------------------------------------

Disturb == /\ changes < MaxChanges
           /\ changes' = changes + 1
           /\ noise' = noise + 1

\* Other pages, administrators and the owner of the Target.  The status never
\* goes back to "pending"; a synchronisation makes the GRANTs run again.
Elsewhere ==
    /\ Disturb
    /\ \/ /\ exists
          /\ \E s \in Steps \ {"bootstrap"} : done' = done \union {s}
          /\ UNCHANGED <<exists, role, target>>
       \/ /\ exists
          /\ \E s \in {"rolesConfigured", "usersProvisioned"} : done' = done \ {s}
          /\ UNCHANGED <<exists, role, target>>
       \/ /\ exists' = FALSE
          /\ done' = {}
          /\ UNCHANGED <<role, target>>
       \/ /\ role' \in UserRoles
          /\ UNCHANGED <<done, exists, target>>
       \/ /\ target' \in {[target EXCEPT !.runnable = r] : r \in BOOLEAN}
          /\ UNCHANGED <<done, exists, role>>
    /\ UNCHANGED <<page, render, panel, request, late, redirects>>

\* The owner runs the SQL that the panel shows.
RunSetupSql ==
    /\ panel.sql
    /\ target.runnable
    /\ target' = [target EXCEPT !.installed = TRUE]
    /\ UNCHANGED <<done, exists, role, page, render, panel, request, late, changes, noise, redirects>>

Goto(p) == /\ page' = p
           /\ render' = Fresh

Leave(p) == /\ render.at \in Outcomes
            /\ Goto(p)
            /\ panel' = NoPanel
            /\ request' = "none"
            /\ noise' = 0
            /\ redirects' = 0
            /\ UNCHANGED <<world, changes>>

\* A link: the panel goes with its page, what it asked for does not.
Follow(p) == /\ Leave(p)
             /\ late' = late \union ({request} \ {"none"})

\* The document is loaded anew, and nothing is left of the old one.
Reload == Leave(page) /\ page # "new" /\ late' = {}

-----------------------------------------------------------------------------

At(await) == render.at = await /\ page # "new"

Continue(r) ==
    /\ render' = r
    /\ UNCHANGED <<page, panel, request, late, redirects>>

\* redirect(): the browser shows what is there of the page, nothing, and asks
\* for the other one; the count of them is capped.
Redirect(p) ==
    /\ Goto(p)
    /\ redirects' = IF redirects = MaxRedirects THEN redirects ELSE redirects + 1
    /\ UNCHANGED <<panel, request, late>>

Calm == UNCHANGED <<world, changes, noise>>

\* getShellProfile.
ReadProfile ==
    /\ At("profile")
    /\ Continue([render EXCEPT !.at = "status", !.role = role])
    /\ Calm

\* Mutant: any status but null will do.
ReadStatusRegistered ==
    /\ At("status")
    /\ IF exists \/ page = "setup"
       THEN Continue([render EXCEPT !.at = IF page = "tables" /\ render.role = "platform_admin"
                                           THEN "exists" ELSE "access",
                                    !.ready = "bootstrap" \in done])
       ELSE Redirect("setup")
    /\ Calm

\* getConnectionBootstrapStatus: the tables and the login need "ready".
ReadStatus ==
    /\ At("status")
    /\ \E ready \in BOOLEAN :
         /\ ready => "bootstrap" \in done
         /\ IF ready <=> "bootstrap" \in done THEN Calm
            ELSE Disturb /\ UNCHANGED world  \* a failing call gives null
         /\ IF page # "setup" /\ ~ready THEN Redirect("setup")
            ELSE Continue([render EXCEPT !.ready = ready,
                             !.at = IF page = "tables" /\ render.role = "platform_admin"
                                    THEN "exists" ELSE "access"])

\* connections.getAccessible throws for a connection that is gone; what a
\* member may see is the layout's business.
ReadAccess ==
    /\ At("access")
    /\ Continue([render EXCEPT !.at = IF ~exists THEN "error"
                                      ELSE IF page = "setup" THEN "admin" ELSE "shown"])
    /\ Calm

\* requirePlatformAdmin reads the profile once more.
ReadAdmin ==
    /\ At("admin")
    /\ LET isAdmin == role = "platform_admin" IN
       Continue([render EXCEPT !.isAdmin = isAdmin,
                               !.at = IF render.ready \/ isAdmin THEN "exists" ELSE "blocked",
                               !.again = ~render.ready])
    /\ Calm

\* userCanAccessConnection; completeOnboarding refuses what is gone.
ReadExists ==
    /\ At("exists")
    /\ IF exists THEN Continue([render EXCEPT !.at = "connection", !.steps = {}])
       ELSE IF page = "tables" THEN Continue([render EXCEPT !.at = "access"])
       ELSE IF render.again \/ ~render.isAdmin THEN Continue([render EXCEPT !.at = "notFound"])
       ELSE Continue([render EXCEPT !.again = TRUE])
    /\ Calm

\* Mutant: the checklist is left as soon as one step is done.
DecideSome(steps) ==
    \/ page = "tables" /\ steps = Steps /\ Continue([render EXCEPT !.at = "access", !.steps = steps])
    \/ page = "tables" /\ steps # Steps /\ Redirect("setup")
    \/ page = "setup" /\ ~render.again /\ steps # {} /\ Redirect("tables")
    \/ /\ page = "setup" /\ ~render.again /\ steps = {}
       /\ IF render.isAdmin THEN Continue([render EXCEPT !.at = "exists", !.again = TRUE])
          ELSE Continue([render EXCEPT !.at = "notFound"])
    \/ /\ page = "setup" /\ render.again
       /\ Continue([render EXCEPT !.at = "wizard", !.steps = steps])

\* With all four steps the tables are shown, with fewer the checklist.
Decide(steps) ==
    \/ page = "tables" /\ steps = Steps /\ Continue([render EXCEPT !.at = "access", !.steps = steps])
    \/ page = "tables" /\ steps # Steps /\ Redirect("setup")
    \/ page = "setup" /\ ~render.again /\ steps = Steps /\ Redirect("tables")
    \/ /\ page = "setup" /\ ~render.again /\ steps # Steps
       /\ IF render.isAdmin THEN Continue([render EXCEPT !.at = "exists", !.again = TRUE])
          ELSE Continue([render EXCEPT !.at = "notFound"])
    \/ /\ page = "setup" /\ render.again
       /\ render' = [render EXCEPT !.at = "wizard", !.steps = steps]
       /\ IF "bootstrap" \notin steps /\ ~render.ready
          THEN /\ panel' = [mounted |-> TRUE, loading |-> TRUE, sql |-> FALSE]
               /\ request' = "probe"  \* the effect of mounting it
          ELSE UNCHANGED <<panel, request>>
       /\ UNCHANGED <<page, late, redirects>>

\* The three reads of getConnectionOnboardingStatus, in the user's session:
\* a member sees of the three tables at most a mapping of his own.
ReadOnboarding(at) ==
    /\ At(at)
    /\ LET visible == IF role = "platform_admin" THEN done
                      ELSE done \intersect {"usersProvisioned"}
       IN \E read \in {visible \intersect ReadAt[at], {}} :
            /\ IF read = done \intersect ReadAt[at] THEN Calm
               ELSE IF role = "platform_admin" THEN Disturb /\ UNCHANGED world
               ELSE Calm
            /\ IF at = "mappings" THEN Decide(render.steps \union read)
               ELSE Continue([render EXCEPT !.at = After[at], !.steps = @ \union read])

Render == \/ ReadProfile \/ ReadStatus \/ ReadAccess \/ ReadAdmin \/ ReadExists
          \/ \E at \in DOMAIN ReadAt : ReadOnboarding(at)

-----------------------------------------------------------------------------

\* The panel's two buttons, disabled while it loads.
Mounted == render.at = "wizard" /\ panel.mounted

PanelSends(kind) ==
    /\ Mounted
    /\ ~panel.loading
    /\ request' = kind
    /\ panel' = [panel EXCEPT !.loading = TRUE]
    /\ UNCHANGED <<world, page, render, late, changes, noise, redirects>>

\* A request of the panel at hand, or of one that was unmounted since.
Pending(kind, own) == IF own THEN request = kind ELSE kind \in late

\* The push to the tables: a navigation nobody asked for.
Push(kind, own) ==
    /\ Goto("tables")
    /\ panel' = NoPanel
    /\ request' = "none"
    /\ late' = IF own THEN late ELSE (late \ {kind}) \union ({request} \ {"none"})
    /\ noise' = 0
    /\ redirects' = 0

\* An answer that leads nowhere; only the panel that asked shows anything of it.
Stay(kind, own, sql) ==
    /\ IF own
       THEN /\ panel' = [panel EXCEPT !.loading = FALSE, !.sql = (sql \/ @)]
            /\ request' = "none"
            /\ UNCHANGED late
       ELSE /\ late' = late \ {kind}
            /\ UNCHANGED <<panel, request>>
    /\ UNCHANGED <<done, page, render, noise, redirects>>

Runs == target.installed /\ target.runnable

\* bootstrapProbe: "ready" when the RPC is there; executing it is tried, and
\* marks the connection ready, but what comes of it is not looked at.
ProbeAnswer(own) ==
    /\ Pending("probe", own)
    /\ IF exists /\ target.installed
       THEN /\ done' = IF Runs THEN done \union {"bootstrap"} ELSE done
            /\ Push("probe", own)
       ELSE Stay("probe", own, exists)
    /\ UNCHANGED <<exists, role, target, changes>>

\* bootstrapVerify throws unless the connection has become ready.
VerifyAnswer(own) ==
    /\ Pending("verify", own)
    /\ IF exists /\ Runs
       THEN done' = done \union {"bootstrap"} /\ Push("verify", own)
       ELSE Stay("verify", own, FALSE)
    /\ UNCHANGED <<exists, role, target, changes>>

\* A call of the panel that fails; the catch says so and the buttons are back.
PanelFails ==
    /\ Mounted
    /\ request # "none"
    /\ Disturb
    /\ request' = "none"
    /\ panel' = [panel EXCEPT !.loading = FALSE]
    /\ UNCHANGED <<world, page, render, late, redirects>>

\* The second step of the checklist: the schema is synchronised, then the page
\* is loaded anew; if it fails nothing happens.
WizardSyncs ==
    /\ render.at = "wizard"
    /\ exists
    /\ "schemaSynced" \notin render.steps
    /\ done' = done \union {"schemaSynced"}
    /\ target' = [target EXCEPT !.runnable = TRUE]
    /\ Goto("setup")
    /\ panel' = NoPanel
    /\ late' = late \union ({request} \ {"none"})
    /\ request' = "none"
    /\ noise' = 0
    /\ redirects' = 0
    /\ UNCHANGED <<exists, role, changes>>

\* ConnectionForm: an answered creation leads to the setup page.  The schema
\* may not have been fetched, and the Target may have been set up already.
CreateAnswer ==
    /\ page = "new"
    /\ ~exists
    /\ role = "platform_admin"
    /\ exists' = TRUE
    /\ done' \in SUBSET {"bootstrap", "schemaSynced"}
    /\ "bootstrap" \in done' => Runs
    /\ Goto("setup")
    /\ UNCHANGED <<role, target, panel, request, late, changes, noise, redirects>>

Answer == \E own \in BOOLEAN : ProbeAnswer(own) \/ VerifyAnswer(own)

Next == \/ Elsewhere \/ RunSetupSql \/ Render \/ Answer \/ PanelFails
        \/ Reload \/ WizardSyncs \/ CreateAnswer
        \/ \E p \in PageNames \ {"new"} : Follow(p)
        \/ \E kind \in {"probe", "verify"} : PanelSends(kind)

Spec == Init /\ [][Next]_vars

\* A server renders a page it was asked for, and a request is answered.
Fairness == /\ WF_vars(Render)
            /\ WF_vars(Answer \/ PanelFails)
FairSpec == Spec /\ Fairness

-----------------------------------------------------------------------------

\* If nothing changed and nothing failed since the browser was sent somewhere,
\* the page it ended at is the one for the connection as it is: tables and
\* login for what is set up, to an administrator only with all steps done, the
\* checklist with the steps as they are, "blocked" for members.  Each page
\* decides on several reads and on redirects of the others.
QuietPageIsRight ==
    noise = 0 /\ page # "new" =>
      /\ render.at = "shown" =>
           /\ exists /\ "bootstrap" \in done
           /\ page # "setup"
           /\ page = "tables" /\ role = "platform_admin" => Complete
      /\ render.at = "wizard" =>
           /\ exists /\ role = "platform_admin" /\ ~Complete
           /\ render.steps = done
           /\ panel.mounted <=> "bootstrap" \notin done
      /\ render.at = "blocked" => role = "member" /\ "bootstrap" \notin done
      /\ render.at = "notFound" => role = "member" /\ page = "setup"
      /\ render.at = "error" => ~exists

\* The tables and the setup page redirect to each other on different reads of
\* what may change in between: only a change or a failing read sends the
\* browser on once more than the first time, and it costs two redirects.
RedirectsBounded == redirects <= 1 + 2 * noise

\* What a page has read is what there is, and an outcome is the one for it.
Onboarding == {"exists", "connection", "permissions", "mappings"}
Visible == IF role = "platform_admin" THEN done ELSE {}

Current ==
    page # "new" =>
      /\ render.at # "profile" => render.role = role
      /\ render.at \notin {"profile", "status"} =>
           /\ render.ready <=> "bootstrap" \in done
           /\ page # "setup" => render.ready
      /\ render.at \in Onboarding \union {"admin"} => exists /\ page \in {"tables", "setup"}
      /\ render.at = "admin" => page = "setup"
      /\ render.at \in Onboarding =>
           IF page = "tables" THEN role = "platform_admin"
           ELSE /\ render.isAdmin <=> role = "platform_admin"
                /\ ~render.ready => render.again
                /\ render.again => render.isAdmin /\ ~Complete
      /\ render.at = "connection" => render.steps = {}
      /\ render.at = "permissions" => render.steps = Visible \intersect ReadAt["connection"]
      /\ render.at = "mappings" =>
           render.steps = Visible \intersect (ReadAt["connection"] \union ReadAt["permissions"])
      /\ render.at = "access" /\ page = "tables" /\ role = "platform_admin" => Complete
      /\ (noise = 0 => QuietPageIsRight)

\* No page that is current leads anywhere else.
Settled ==
    /\ Current
    /\ page \in {"tables", "connect"} => "bootstrap" \in done
    /\ page = "tables" /\ role = "platform_admin" => Complete
    /\ page = "setup" => ~(role = "platform_admin" /\ Complete)

Renders == [at : Awaits \union Outcomes, role : UserRoles, ready : BOOLEAN, isAdmin : BOOLEAN,
            steps : SUBSET Steps, again : BOOLEAN]
Panels == [mounted : BOOLEAN, loading : BOOLEAN, sql : BOOLEAN]

\* What every step keeps.  A change may make what was read stale, which costs at
\* most two redirects: one to a page that reads anew, and one from there.
IInv ==
    /\ render \in Renders /\ panel \in Panels
    /\ done \subseteq Steps /\ (~exists => done = {}) /\ role \in UserRoles /\ page \in PageNames
    /\ render.at # "wizard" => ~panel.mounted
    /\ redirects \in Nat /\ noise \in Nat
    /\ redirects <= 2 * noise + 1
    /\ ~Settled => redirects <= 2 * noise
    /\ ~Current => redirects + 1 <= 2 * noise
    /\ page = "new" => redirects = 0 /\ ~panel.mounted

\* The browser has asked for a page and not got one yet.
Rendering == render.at \in Awaits
=============================================================================
