# A verification project for SupaAdmin

SupaAdmin is an administration front end for Supabase projects: a Next.js
application with an oRPC API over a *Meta* database (Postgres behind Drizzle and
Supabase Auth) that keeps users, roles, permissions and connections, and over
the *Target* projects those connections lead to. This directory holds TLA+
modules of it, TLC configurations that check them on small instances, and TLAPS
proofs for all sizes. Module and action names follow the source; `PROJECT.json`
maps every definition to the lines it stands for, lists every hazard at its line
and every disagreement between the code and what is said of it.

## 1. Inventory

Two facts shape every model.

*On the server, no feature opens a database transaction.* The helper
`transaction()` of the repository kit is not used; each Drizzle or Supabase call
autocommits. So every `await` is a point where another request may run, where
the process may be killed, and where an effect may be committed while its answer
is lost. A step of a model is one such call.

*In the browser, an answer runs in whatever state the page is by then.* A request
and its answer are two steps; state that a component keeps is what the last
answer made of it, unless the code compares or cancels.

| Component | State | Operations | What is hard | What makes it correct |
|---|---|---|---|---|
| First-time setup (`feature-setup`) | `app_settings.setup_complete`, `profiles` | `createAdmin`, `isSetupComplete` | overlapping calls, unconditional unlock, lost answers, kills | one call at a time; complete implies an administrator; a success is final |
| Setup gate (`middleware.ts`, forms) | `sa_setup` cookie, Meta session, page | page load, sign in/out, setup form | cookie kept for a year, row re-read between redirects, failed reads | the cookie implies an administrator; redirects end |
| Permission resolution (`projections`) | a map built in two loops | `aggregateRolePermissions`, `applyPermissionOverrides` | rows in no order, null against false | the result is what the rows say |
| Access administration | `user_roles`, `connection_members`, `role_permissions`, overrides | `updateUser`, `updateUserOverrides`, `updateRolePermissions` | DELETE, then INSERT; overlapping, cut-off saves | a save that ran alone is exact |
| User creation | auth users, `profiles` | `createUser`, trigger | account first, profile later; retries | created as asked, by whom it was asked |
| Connection context (`workflows`) | what a request has read so far | `getConnectionContext` | five reads, changes between them | what a request may rely upon |
| oRPC surface | session, role, rate counters | gates, access checks, error codes | checked, then used | an answer had its grounds; a refusal is true |
| Connections and schema cache | `connections`, `connection_tables` | create, sync, delete | partial creation, overlapping syncs | schemas are never mixed |
| Target bootstrap | functions on the Target, `bootstrap_status` | setup SQL, probe, apply, verify | ignored results, two databases | ready means prepared |
| RLS synchronisation | policies on the Target | save and sync, preview, apply | reads of permissions overtaken by saves | a granted right is usable unless told otherwise |
| Target session | mappings, `app_metadata`, stored sessions | provision, connect form, refresh | two systems, no transaction; JWT is a copy | claims are what was granted; one member per account |
| Webhook secret | `webhook_secret_enc` | reveal, rotate, deliveries | read, then overwrite | replaced secrets open nothing |
| Rate limit | Redis counters | `checkRateLimit` | INCR and EXPIRE apart, window boundary, kills | limit per window; no caller is locked out |
| Database access | pools, the actor's claim | `createDbContext`, `run`, `transaction` | pooled sessions, limited connections | no claim is seen by others; connections come back |
| Connections page, pages of a connection | dialogs, query cache, redirects | preview, apply, verify, reveal; setup, connect, tables | answers out of order, reads between redirects | what is shown belongs together; redirects end |
| Table, foreign keys, form | rows, page, search, previews, form values | load, search, sort, save, select | answers out of order, stale rows, conversions | a patient user sees his page; what is written has its type |
| Role, user and override editors | matrices, dialogs | select, toggle, save | saved before or after an answer for another selection | what is shown is what is stored |
| Dashboard frame | layout, menu, sidebar | links, redirects, refreshes, connect | the layout outlives the page it was rendered for; the menu and the gates of the pages read different tables | a frame rendered for a connection shows that connection; which entries of the menu lead to a page |
| Foreign key metadata | `connection_tables.columns` | introspect, cache, contract, page | a shape lost on the way | cached keys are real |

Interactions: the browser calls oRPC procedures, which pass a gate and call a
feature or a workflow; features share only the Meta tables. The middleware reads
the row that `createAdmin` writes. `getConnectionContext` reads what the access
administration rewrites; the JWT of a Target session is built by the same
resolution. Webhooks and administrators run the same schema sync. The table
pages go straight to the Target with the session of the connect form.

## 2. Modules

```
SetupOnce <- INSTANCE - SetupLock <- EXTENDS - SetupGate        : SetupProofs
UserUpdates <- EXTENDS - ConnectionContext                      : ConnectionContextProofs
PermissionResolution                                            : PermissionResolutionProofs
UserCreation <- EXTENDS - Server                                : UserCreationProofs (the former)
    Server has as instances
        TargetBootstrap (TargetReadiness <- INSTANCE), WebhookSecret,
        OrpcSurface, RateLimit, DbContext                       : ServerProofs
        RlsSync (TargetReadiness <- EXTENDS),
        ConnectionSchema, ForeignKeyMeta                        : TargetProofs
        TargetSession                                           : SessionProofs
    Browser has as instances                                    : BrowserProofs
        ConnectionList, ConnectionPages, DashboardShell,
        TableBrowser, ForeignKeyField, ForeignKeyPreview, RowForm,
        RoleEditor, UserEditor, OverrideEditor
```

`MC*.tla` are the instances for TLC; to the right of each colon is where its
theorems are. Components that do not share state stand side by side in one module:
`Server`, `Browser` and `MCWaiting` have a variable `part` that names one component
and never changes, and variables `s1`, `s2`, ... that hold this component's state,
whichever it is, by `INSTANCE ... WITH`. A state of such a module is a state of one
component, its next-state relation is the disjunction of theirs, and a property is
`part = "..." => ` what that component's module states under its own names; where a
component has several properties on one subject they are conjoined there. This is a
union of state spaces, not a composition: components that interact are composed by
EXTENDS (`SetupGate`, `ConnectionContext`, `RlsSync`) or related by a refinement.
`MCServer` and `MCBrowser` give `Server` and `Browser` small instances, so that the
formulas which TLC checks there are the ones that the theorems are about.

### Server

**SetupLock.** `setting` is the jsonb value of the row; `profile` the role of the
profile each e-mail has; `pc` says which call of `createAdmin` a request awaits.
`TryLockSetup` stands before the `try` block, so a lost answer strands the lock;
failures of the three calls inside it lead to `UnlockSetup`, which is
unconditional, as in the code. `Kill` ends the process at any await.
**SetupOnce** is the promise: a window that is open, held by one request, or
done. A row that says true while its request still awaits an answer counts as
held. **SetupGate** adds browsers: a cookie, a session, a page being loaded, the
redirects followed. `Middleware` is one run of the middleware with everything it
decides: the cookie spares the query, a failed query counts as "not complete",
the cookie is set whenever the query says complete.

**PermissionResolution** takes the loops one row per step, in any order, because
the SELECTs have no ORDER BY; `Permitted` says the same without any order.

**UserUpdates** follows the rows of one user on one connection. A handler is its
input and the statements it has yet to run, computed when it has read the
profile; `Goes` runs one or loses the answer, `Fails` ends it. **ConnectionContext**
adds requests that read those rows one SELECT at a time; `ever` and `always` are
the facts that held at some moment of a request, and at all of them.

**UserCreation.** The auth server's INSERT and its trigger are one step, the
profile's UPDATE another; either may take effect and be reported as failed, and a
failed call may be sent again while others ask for the same e-mail.

**TargetReadiness / TargetBootstrap / RlsSync.** The readiness module is what the
rest relies upon: which functions the Target has, which tables, and when the
connection counts as ready. The bootstrap module has the setup SQL run by hand,
every RPC, and every read or write of Meta as a step, and implements it. RlsSync
extends it with saves and synchronisations, whose reads of `role_permissions`
may be overtaken.

**ConnectionSchema** is create, sync and delete statement by statement.
`fetched` and `torn` remember what a cache may still be made of, and whose
replacement ended halfway. **WebhookSecret**: a signature stands for the secret
it was made with.

**TargetSession** has the two-system part: provisioning calls, the connect form,
the syncPermissions call, refreshes by form and client, and storage slots by key.
`ever` is what a user was granted, or had as account, at any time.

**OrpcSurface** is the way of any call through session, limiter, gate, validation,
access check and error mapping; `was` collects what was true since the call was
sent. What procedures do is only what changes their grounds.

**RateLimit** has the commands INCR, EXPIRE and TTL of the local limiter and a
clock in parts of a second. **DbContext** has a pool per context, the server's
connections, and the claim of a session; `run` and `transaction` open
transactions, `ctx.db` does not.

**ForeignKeyMeta** follows a column from the Target's OpenAPI description to the
page: what introspection, the cache, the contract and the page keep of it.

### Browser

Requests under way are a set of records of what was read or asked; an answer
removes one and runs the callback. History variables (`overlapped`, `dirty`,
`failed`, `formOf`, `linked`) say what the user did or what the cells were read
for, and guard nothing except where named below.

**ConnectionList** is the list, its dialogs and the query cache; **ConnectionPages**
the server's chain of reads for the tables, setup and connect pages with their
redirects and the panel that probes; **DashboardShell** the frame those pages
share: a link asks for the page alone, `router.refresh()` and loads for both. What
a request for a page ends in is `RenderPage`, with one operator per redirect
(`ToHome`, `ToSetup`, `ToTables`), and `Found`, with one per gate (`TableFound`,
`SetupFound`); each page decides at once there, ConnectionPages has the reads one by
one. A page's own links are to any table, whichever it was rendered with.

**TableBrowser** is the table with search, filter, sorting, pages and the row
dialogs; **ForeignKeyField** and **ForeignKeyPreview** the field and the cell of a
foreign key, effects with their `cancelled` flag; **RowForm** what a form shows,
makes of what is typed, and writes, with one column type per way through
`handleSubmit` and `interval`, whose name contains "int".

**RoleEditor**, **UserEditor** and **OverrideEditor** are the three places where
permissions are edited: a matrix is read for a selection, clicked, and saved for
the selection of that moment.

## 3. Runs that pass

| Run | Instance | Shows |
|---|---|---|
| `setup_lock` | 3 requests, 2 accounts, fair | mutual exclusion, an administrator behind every completion, success final and unique, refinement of `SetupOnce`; a taken lock is released or turned into completion unless a request was cut off |
| `setup_gate` | 2 browsers, 2 requests, 2 accounts | cookie and dashboard imply an administrator; redirects are bounded |
| `permission_resolution` | 2 tables, 2 actions, 2 roles, every set of rows | the loops agree with `Permitted` in every order of the rows |
| `user_updates` | 2 handlers, all inputs | a call that ran alone is exact, whatever was mixed up before |
| `connection_context` | 1 request, 1 handler | what an answer may be relied upon for |
| `server` | ten components, below | the promises of the server's other handlers |
| `browser` | ten components, below | what pages and dialogs show and save, where redirects lead |
| `waiting` | seven components, below, fair | what ends if requests are answered |

**`server`** has, per value of `part`:

| `part` | Module, instance | Properties |
|---|---|---|
| `users` | UserCreation: 3 calls, 2 e-mails, 2 retries | `CreatedAsAsked`: a user is as asked by the call that was told so |
| `bootstrap` | TargetBootstrap: 2 calls, a changing Target | `ReadyAnswerMeansGranted`; `ImplementsReadiness`, the refinement of TargetReadiness |
| `rls` | RlsSync: 2 requests, 2 roles | `PoliciesFollowSaves`: a right that was saved has its policy, or a save or a lost read to blame; a policy was saved |
| `schema` | ConnectionSchema: 2 requests, 3 tables and a hidden one | `CachedSchemaIsSound`: schemas stay whole, an empty one has a cause, a quiet call is exact |
| `keys` | ForeignKeyMeta: 3 tables, 9 schemas | `MetaIsReal`: cached keys are the Target's, the page has every column |
| `secret` | WebhookSecret: 2 calls, 4 secrets | `SecretsAreRetired` |
| `session` | TargetSession: administrator and member, 2 browsers, 1 provisioning | `ClaimsAreGranted`, `AccountsArePersonal` |
| `surface` | OrpcSurface: every procedure | `AnswersAreTrue`: an answer had its grounds, refusals are true |
| `limit` | RateLimit: 3 calls, limit 2, 2 s | `LimitIsKept`, also if EXPIRE is lost |
| `contexts` | DbContext: 2 contexts with 2 jobs, pools of one | `ClaimsAreLocal` |

**`browser`**:

| `part` | Module, instance | Properties |
|---|---|---|
| `list` | ConnectionList: 2 connections, 2 requests under way | `DialogsKeepApart` |
| `table` | TableBrowser: 3 rows on pages of 2, a change by others | `PatientSeesTheTable` |
| `field`, `preview` | ForeignKeyField: 2 rows on pages of 1; ForeignKeyPreview: 3 values | `FieldShowsItsValue`, `PreviewIsOfCell`: late answers change no label and no preview |
| `form` | RowForm: 2 users with numeric and json columns; 1 user with the other types | `FormsWriteWhatTheyShow`: untouched columns are written back, emptied ones are NULL |
| `roles` | RoleEditor: 2 roles, 3 requests under way | `RoleMatrixIsStored` |
| `users` | UserEditor: 2 users, 2 grants | `PatientSeesUsers` |
| `overrides` | OverrideEditor: 2 users, 2 connections | `OverridesAreOfUser` |
| `shell` | DashboardShell: 2 connections, one of them in any stage of its setup, 2 tables, one of them named `setup`, 2 locales | `MenuIsTrue`: which entries of the menu lead to a page; the menu and breadcrumbs of a layout are those of its request |
| `pages` | ConnectionPages: any two changes or failing reads | `RedirectsLeadRight`: at the right page if nothing changed or failed, and only changes and failures cost redirects |

**`waiting`**: ConnectionPages with any two changes or failures (`PageComes`: the
redirects end); TableBrowser, ConnectionList, TargetSession, ForeignKeyPreview and
RoleEditor (`LoadingEnds`: tables, the setup dialog and the connect form do not load
for ever; a preview and a permission matrix come unless the user keeps asking for
others); DbContext with two contexts for one connection of the server
(`ConnectionsComeBack`).

## 4. Where code and words disagree

Each of these runs checks one thing that a document, a message or a comment
says, and TLC finds it violated; the wording and the lines are in `PROJECT.json`.

| Run | What is said | What happens |
|---|---|---|
| `setup_refusal` | "Setup already complete" | answered while setup is only in progress |
| `overrides_narrow` | overrides are narrower than the role | they can widen |
| `allowlist` | the Target's allowlist admits RLS sync | it refuses all generated SQL: each statement begins with a line end, and each policy has a denied keyword |
| `revealed_secret` | a revealed secret is to be used | it has been replaced by one nobody knows |

### Behaviours the models reach and no run is spent on

The modules reach these states, some only with other constants than those of
section 3, whose properties are stated so as to hold beside them.

- *Bootstrap and connections.* The probe answers ready while the row stays
  pending, when the update of the row fails. A creation that is answered with an
  error leaves its connection. Two overlapping reveals of a webhook secret
  answer the same one, which is "shown once".
- *Connections page.* Whoever does not wait applies a preview, or reads setup
  SQL, of another connection; the list is the one cached when the page was first
  opened. If the bootstrap keeps failing after a probe, the setup panel, to which
  the probe answers ready, and the tables page, which reads the row, send the
  browser to each other again and again; each redirect ends in a page, which is
  what `PageComes` says.
- *Target sessions.* Connections whose URLs begin alike share a storage slot;
  the later login replaces the session of the other. A logout leaves them in the
  browser.
- *Table.* After the last row of a page was deleted the page is empty though rows
  exist; answers to two searches in the other order leave the first one's rows; a
  link to a row of the table that is shown changes the filter that the page names
  and not its rows.
- *Foreign keys.* The contract's output drops them, so pages do not receive any
  at this commit; ForeignKeyField, ForeignKeyPreview and the links of TableBrowser
  model those components as written, given the metadata they are made for. The
  dialog sets the primary key of the selected row whichever column is referenced.
- *Editors.* A role's matrix, a user's overrides, roles or password that is saved
  before the answer for a new selection is what was read, or typed, for the one
  before.
- *Frame.* A link from one connection to another keeps the menu, so that the tables
  of the first are listed below the second, where they may not be found. So may be
  a table that a role grants and the schema no longer has, and a table with the name
  `setup` or `connect`, whose link leads to the page of that name. These are the
  three exceptions of `MenuLeadsSomewhere` (`MayBeAstray`), and `browser` reaches
  each of them. The sidebar writes a cookie that nothing reads.
- *Server.* The limiter used outside production, called a sliding window, has
  fixed windows: twice the limit passes around a boundary. Each context opens a
  pool of its own. A member's claim lasts for a transaction, and what runs by
  `ctx.db` outside of one does not see it.

### Behaviours no property forbids

These are hazards with a note or exceptions of a property: a killed request leaves
the setup lock taken; a `completeSetup` whose answer is lost is undone; a request
may answer with a permission the user had at no single moment; a denial is absent
while overrides are being replaced; overlapping saves of a user leave the union
of two lists; values of columns whose type contains "int", such as `interval`,
become NULL by any save of their row.

## 5. Bounds

Where nothing counts, an instance is explored completely. The bounds that cut
are `MaxRetries`, `MaxChanges`, `MaxPending`, `MaxFetches`, `MaxLoads`,
`MaxStatements`, `MaxGets`, `MaxSaves`, `MaxTime` and `PoolMax`, all constants in
guards. Two requests under way are enough for answers in the wrong order, a third
for one that was cancelled among them; a change between two requests and one after
them are two. Three setup requests are one that holds the lock, one that takes it
after a failure, and one that meets both. Three visible tables are needed for a
cached schema that is a mixture of two and not one of them. A window and a half in
RateLimit has the boundary and the calls on both sides. Two roles, users or
connections tell mine from another's.

`browser` has the constraint `Patient`: in its TableBrowser and UserEditor it
leaves states in which something was begun while something was under way, or in
which a read has failed. All properties of these two parts are about users who
wait, and say nothing beyond it: the constraint cuts no state they speak of. Nor does
it cut any way to one: in UserEditor the history variables it looks at never go back,
and in TableBrowser only `Unmount` resets `overlapped`, which leaves a page that is
not there and some table after some changes, all of which Init and `Others` reach
without overlap. The constraint `OneSetUp` keeps one of two connections of
DashboardShell set up; the other one goes through all stages. Both are used with
safety properties only.

Symmetry is declared only where no liveness is checked, and deadlock checking is
off where everybody may have finished.

## 6. Fairness

| Run, part | Fair | Why |
|---|---|---|
| `setup_lock` | steps of a request that holds the lock | the event loop delivers a result or an error; kills and clients are not fair, and requests cut off are exempt |
| `waiting`, pages | rendering, and the answer or failure of the panel's call | the server's next step, which may be a failure |
| `waiting`, form | the next step of the connect form's calls, which may be a failure | calls are answered or fail |
| `waiting`, table, list, preview, roles | the answer of each request that something waits for, an error counting as one | the browser's `fetch` resolves or rejects |
| `waiting`, pools | statements end, idle timers fire | `idleTimeoutMillis` and Node.js timers |

No user action is fair: somebody may always stop typing. Answers to requests that
were cancelled are not fair either, as nothing waits for them. A preview and a
matrix are excepted while the user keeps opening or selecting others, since each
such step cancels the request under way.

## 7. Proofs

The theorems are for arbitrary sets of requests, accounts, roles, tables and so on,
and arbitrary bounds. Each has the form `Spec => []P` or `Spec => P`, where `Spec` is
the specification and `P` the property of a run, and rests on an inductive
invariant: it holds initially, each action keeps it (one step of the proof per
action), and it implies the property. For the components of `Server` and `Browser`
and for `UserUpdates` the invariant is stated at the end of the component's module
(`IInv`, `LoneInv`); TLC has checked each of them on the instances of section 3. The
temporal step is the same throughout: a behaviour of `Server` or `Browser` is one of a
single part, so that this part's invariant holds of it.

- **SetupProofs.** `IInv` strengthens the safety properties of SetupLock: the lock's
  holder is unique and the row is not open while somebody holds it (except that it
  may already say true for the one whose completion was not answered); a promoted
  profile stays promoted; nobody can lock after a success, because the row is true
  and no request is left that could unlock it. The last clause is what makes the
  unconditional unlock harmless. The refinement of `SetupOnce` follows step by step.
  For the gate, `GateIInv` adds that cookies imply an administrator, who is never
  lost (`AdminsStay`), and where a load can be after how many redirects (`HopsFit`):
  it passes each page at most once before the cookie is set and none after it.
- **PermissionResolutionProofs.** `LoopInv` says what the map holds halfway through
  a loop: what the rows met so far say. Uniqueness of overrides per table is needed
  in the second loop.
- **ConnectionContextProofs.** Of the handlers: the statements that are left come in
  an order (`Rank`), each is one that the input asks for (`Asks`), and each table of
  a handler that is alone is yet to be emptied, is empty and yet to be filled, or is
  as asked (`OnTheWay`). So success finds it as asked, whatever was there before. Of
  the requests: `SeenInv` ties what a request keeps to its history, what it saw is
  in `ever`, what it did not see is not in `always`. Since `ever` only grows and
  `always` only shrinks, the invariant survives any change of the rows.
- **UserCreationProofs.** `IInv` adds who made an account: a call that is past its
  account is the maker (`MadeIt`), and the maker asked with that e-mail
  (`MakerAsked`). So a call that finds the e-mail taken can neither write a profile
  nor answer "ok", and a retried call never gets past its own account.
- **ServerProofs.** *TargetBootstrap*: nothing in the code removes the helper from a
  Target, so a call that has found it may mark the connection at any later time
  (`MarkHasHelper`), and the refinement of `TargetReadiness` follows; the tables
  that a quiet call offered are the cached ones, and granted from the RPC on
  (`QuietTables`). *WebhookSecret*: what a call generates is neither stored nor was
  ever used (`StoredIsFresh`), and what it read was stored then; so a replaced
  secret never comes back, although a later write may overtake an earlier one.
  *DbContext*: a connection is held by at most one job (`OneJobEach`), its claim is
  that job's actor from BEGIN to the end of the transaction (`Fits`), and idle ones
  have none. *RateLimit*: calls that come in one window get different counts, of
  which only the limit are allowed (`CountsDiffer`), a counter that has an expiry
  outlives the window it counts, and one that has none has a call that is about to
  give it one or died. Here the lemmas are about `%` and `\div`. *OrpcSurface*: what
  holds now is in the history of each call under way (`NowIsSeen`), and what a call
  has passed was so at some time (`Sound`).
- **TargetProofs.** *RlsSync*: each row of `role_permissions` is of a save, and in
  the SQL which that save generated if it could read the rows (`RowsWereSaved`);
  each row in SQL was in a save, and what it grants is a policy once the SQL has
  run, unless the table was lost (`SqlIsApplied`). *ConnectionSchema*: what a call
  has fetched, and for which connection (`CallFits`), and which rows one that is
  alone has left so far (`QuietFits`); a stamped schema has rows unless a
  replacement is under way or ended halfway (`StampedHaveRows`). *ForeignKeyMeta*:
  while the Target has not changed since, the cache is what introspection returns;
  the rest is what contract and page keep of a column.
- **SessionProofs.** What is written to an account, a claim or a slot was granted,
  or mapped, to its user at some time (`ProvisionFits`, `ConnectFits`, `SlotFits`);
  two members have different accounts (`AccountsApart`), also those in the hands of
  provisionings that have not yet written them (`ProvisionsApart`).
- **BrowserProofs.** The dialogs, tables and editors share one argument: the request
  that is not cancelled, or the only one of somebody who waits, is for the selection
  shown, so that its answer makes the cells those of the selection, and a save
  writes them back for it. RowForm needs types: what the user did not touch is what
  was loaded, and `handleSubmit` gives it back unless `GivenBack` says why not.
  DashboardShell: the layout is what the server would render again for the connection
  it was rendered for, so that the gates let through what the menu lists of it, or
  redirect to a setup that is there (`SetupIsThere`). ConnectionPages:
  a change or failure may make what was read stale, which costs at most two
  redirects, one to a page that reads anew and one from there; therefore a page that
  is not current has a redirect to spare (`~Current => redirects + 1 <= 2 * noise`),
  and a page that is settled leads nowhere else.

Assumptions on constants are named in the modules that declare them, and TLC
evaluates them in the runs. A sentinel is none of the values it stands beside
(`KeepAssumption`, `SecretAssumption`, `SchemaAssumption`, `SurfaceAssumption`,
`SessionAssumption`, `ListAssumption`, `RolesAssumption`): in the code, null or
undefined. Numbers are numbers (`CreationAssumption`, `LimiterAssumption`: the limit, a
second and the window), and there is a request (`RequestsAssumption`). `TableAssumption`
names the two orders and the filter's being set or not, `FormAssumption` the column
types that RowForm tells apart, and `ShellAssumption` keeps the name that stands for a
connection's list of tables from being a table's; the rest of `RolesAssumption` and `SessionAssumption`
says what a table of the constants is a table of.

Every safety and action property of a passing run is a theorem, except that type
correctness is stated by theorems of its own or is part of an `IInv`. Only
model-checked are the four liveness properties, `LockIsReleased`, `PageComes`,
`LoadingEnds` and `ConnectionsComeBack`, because fairness is stated with ENABLED,
which the prover does not support; and of course what section 4 refutes.

## 8. Taken from outside the repository

Definitions marked external in the map rest on what the code expects of others:
PostgREST answers a query from one state of the table; the auth servers run an
INSERT and its trigger in one transaction and refuse an e-mail that is taken; oRPC
validates inputs before the handler and strips fields that the contract's output
does not name; Next.js keeps a shared layout on links, mounts a page anew on a
redirect, keeps a component when only the search parameters change, and lets a
navigation drop a pending refresh; the Supabase client is made anew per
call of `createBrowserClient` and refreshes sessions by itself; `pg` opens, queues
and times out as its options say; Redis answers TTL rounded to the nearest second and expires
keys by its own clock. Identical queries under way at once are one in `TableBrowser` and
`ForeignKeyField`.

## 9. Not modelled, and why

- Database faults other than a failed or unanswered statement.
- Upstash's limiter, used in production, and the middleware's limiter, which does
  nothing without it: a library.
- The middleware's locale prefixes, security headers and an Auth service that
  changes its mind between two loads; several tabs of one browser.
- The text filter of the connections page, the choice of a label column, the log
  of RLS synchronisations (written, never read), three of the four columns of the
  editors' matrices (alike).
- URL and filter validation, encryption, environment parsing, error classes,
  mappers: functions of their inputs without state.
- Rendering, the vendored UI kit (except the sidebar's state), scripts, tooling.

## 10. Plan

1. Abstract specifications, each with its refinement proved: the window of the rate
   limiter, and the one request for a selection that RoleEditor, OverrideEditor,
   ForeignKeyField and ForeignKeyPreview have in common.
2. ConnectionSchema composed with ForeignKeyMeta: a page while its cache is
   being replaced.
3. Several administrators who edit one role in RoleEditor.
