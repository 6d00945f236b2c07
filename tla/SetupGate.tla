------------------------------ MODULE SetupGate ------------------------------
(***************************************************************************)
(* The gate the web application's middleware keeps in front of its pages   *)
(* while setup is under way, composed with createAdmin (SetupLock).        *)
(*                                                                         *)
(* A browser holds a Meta session and the sa_setup cookie.  Each page load *)
(* runs the middleware, which decides from the cookie, the session and, if *)
(* it has to, the setup_complete row; a redirect is another page load.     *)
(***************************************************************************)
EXTENDS SetupLock, Naturals

CONSTANTS Browsers,
          NoUser,     \* no Meta session
          NoRequest   \* no createAdmin call awaited

VARIABLES cookie,     \* is sa_setup set in the browser
          user,       \* the account signed in to Meta, or NoUser
          page,       \* the path loaded or shown
          loading,    \* is the page being loaded
          hops,       \* redirects followed since the user last navigated
          form        \* the createAdmin call the setup form waits for

gateVars == <<cookie, user, page, loading, hops, form>>
vars == <<setupVars, gateVars>>

\* "/users" stands for every page that is neither public nor the dashboard.
Pages == {"/", "/login", "/setup", "/users"}
PublicPages == {"/login", "/setup"}

GateInit == /\ Init
            /\ cookie = [b \in Browsers |-> FALSE]
            /\ user = [b \in Browsers |-> NoUser]
            /\ page = [b \in Browsers |-> "/login"]
            /\ loading = [b \in Browsers |-> FALSE]
            /\ hops = [b \in Browsers |-> 0]
            /\ form = [b \in Browsers |-> NoRequest]

Load(b, path) == /\ page' = [page EXCEPT ![b] = path]
                 /\ loading' = [loading EXCEPT ![b] = TRUE]
                 /\ hops' = [hops EXCEPT ![b] = 0]

Shown(b) == ~loading[b] /\ form[b] = NoRequest

\* The user follows a link or types an address.
Visit(b) == /\ Shown(b)
            /\ \E path \in Pages : Load(b, path)
            /\ UNCHANGED <<setupVars, cookie, user, form>>

\* signInWithPassword of the login form: any account of Meta Auth.
SignIn(b) == /\ Shown(b)
             /\ page[b] = "/login"
             /\ \E a \in Accounts : /\ profile[a] # "none"
                                    /\ user' = [user EXCEPT ![b] = a]
             /\ Load(b, "/")
             /\ UNCHANGED <<setupVars, cookie, form>>

\* handleLogout of the user menu, which every page behind the login shows.
SignOut(b) == /\ Shown(b)
              /\ page[b] \notin PublicPages
              /\ user' = [user EXCEPT ![b] = NoUser]
              /\ Load(b, "/login")
              /\ UNCHANGED <<setupVars, cookie, form>>

\* The setup form posts: the call starts with tryLockSetup.
Submit(b, r) == /\ Shown(b)
                /\ page[b] = "/setup"
                /\ pc[r] = "idle"
                /\ form' = [form EXCEPT ![b] = r]
                /\ TryLockSetup(r) \/ TryLockSetupDenied(r)
                /\ UNCHANGED <<cookie, user, page, loading, hops>>

\* The form's answer.  A success may carry the cookie, if the client's URL is
\* the path the route handler looks for, and sends the browser to the login.
Answer(b) ==
    LET r == form[b] IN
    /\ r # NoRequest
    /\ pc[r] \notin Holding
    /\ form' = [form EXCEPT ![b] = NoRequest]
    /\ IF pc[r] = "succeeded"
       THEN /\ \E set \in BOOLEAN : cookie' = [cookie EXCEPT ![b] = @ \/ set]
            /\ Load(b, "/login")
       ELSE UNCHANGED <<cookie, page, loading, hops>>
    /\ UNCHANGED <<setupVars, user>>

-----------------------------------------------------------------------------

\* Mutant: isSetupCompleteViaService takes any value but false for complete.
SetupCompleteUnlessFalse(b, answered) ==
    cookie[b] \/ (user[b] # NoUser /\ answered /\ setting # Open)

\* The cookie spares the query; without a session the row is not consulted, and
\* a query that fails counts as "not complete".
SetupComplete(b, answered) ==
    cookie[b] \/ (user[b] # NoUser /\ answered /\ IsSetupComplete)

\* Mutant: the dashboard asks the row where the setup page asks the cookie.
RedirectByRow(b, complete) ==
    CASE page[b] = "/setup" /\ complete ->
            IF user[b] # NoUser THEN "/" ELSE "/login"
      [] page[b] \notin PublicPages /\ user[b] = NoUser -> "/login"
      [] page[b] = "/login" /\ user[b] # NoUser -> "/"
      [] page[b] = "/" /\ user[b] # NoUser /\ ~IsSetupComplete -> "/setup"
      [] OTHER -> page[b]

\* Where the middleware sends the load; the page itself when it is let through.
Redirect(b, complete) ==
    CASE page[b] = "/setup" /\ complete ->
            IF user[b] # NoUser THEN "/" ELSE "/login"
      [] page[b] \notin PublicPages /\ user[b] = NoUser -> "/login"
      [] page[b] = "/login" /\ user[b] # NoUser -> "/"
      [] page[b] = "/" /\ user[b] # NoUser /\ ~complete -> "/setup"
      [] OTHER -> page[b]

\* One run of the middleware.
Middleware(b) ==
    /\ loading[b]
    /\ \E answered \in BOOLEAN :
         LET complete == SetupComplete(b, answered)
             target == Redirect(b, complete)
         IN /\ cookie' = [cookie EXCEPT ![b] = complete]
            /\ page' = [page EXCEPT ![b] = target]
            /\ IF target = page[b]
               THEN loading' = [loading EXCEPT ![b] = FALSE] /\ UNCHANGED hops
               ELSE hops' = [hops EXCEPT ![b] = @ + 1] /\ UNCHANGED loading
    /\ UNCHANGED <<setupVars, user, form>>

\* The rate limit on /setup: the 429 shows in place of the page, and drops the
\* cookie the query was about to set.
TooManyRequests(b) ==
    /\ loading[b]
    /\ page[b] = "/setup"
    /\ loading' = [loading EXCEPT ![b] = FALSE]
    /\ UNCHANGED <<setupVars, cookie, user, page, hops, form>>

\* The calls of createAdmin go on whatever their browser does.
Server(r) == (Proceed(r) \/ Kill(r)) /\ UNCHANGED gateVars

GateNext == \/ \E b \in Browsers : \/ Visit(b)
                                   \/ SignIn(b)
                                   \/ SignOut(b)
                                   \/ \E r \in Requests : Submit(b, r)
                                   \/ Answer(b)
                                   \/ Middleware(b)
                                   \/ TooManyRequests(b)
            \/ \E r \in Requests : Server(r)

GateSpec == GateInit /\ [][GateNext]_vars

-----------------------------------------------------------------------------

\* A browser that is treated as set up - it has the cookie, or it is shown the
\* dashboard - means that the platform has an administrator.  The row itself
\* may have been set back to false meanwhile by an unlockSetup whose
\* completeSetup took effect unseen; the cookie lives for a year.
GateMeansAdmin ==
    \A b \in Browsers :
        cookie[b] \/ (page[b] = "/" /\ ~loading[b]) => Admins # {}

\* Page loads end: even when the row flips, or its query fails, between two
\* redirects, a load is redirected at most three times (login, dashboard, setup, dashboard).
MaxRedirects == 3
RedirectsBounded == \A b \in Browsers : hops[b] <= MaxRedirects

=============================================================================
