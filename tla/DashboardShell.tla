---------------------------- MODULE DashboardShell ----------------------------
(***************************************************************************)
(* What frames the pages behind the login in one browser tab: the menu, the *)
(* breadcrumbs and the sidebar they are in.  The frame is a server layout   *)
(* that all these pages share: a link from one to another asks for the page *)
(* alone and keeps the frame as it is; a document loaded anew, a change of  *)
(* locale and router.refresh() ask for both.                                *)
(***************************************************************************)
EXTENDS Naturals, FiniteSets

CONSTANTS Connections, Tables,
          Rights,     \* what may be stored of each connection: the tables its
                      \* schema has, and those this user's roles let him read
          NoConnection

VARIABLES admin,      \* is he a platform administrator, in the database
          member,     \* the connections he is a member of, in the database
          rights,     \* the tables of each connection, in the database
          setup,      \* how far each connection is set up, in the database
          locale,     \* that of the address; the default has no prefix
          path,       \* the address shown, without its locale
          going,      \* a navigation asked for and not yet shown
          refreshing, \* has a refresh been asked for and not been answered
          layout,     \* what the server rendered the frame from
          narrow,     \* is the window narrower than the breakpoint
          isMobile,   \* the hook's state
          open, openMobile,
          linked,     \* a page was reached without its frame since the frame
                      \* was rendered (history)
          stayed      \* nobody has changed his role, his connections or their
                      \* tables since the frame was rendered (history)

server == <<admin, member, rights, setup>>
router == <<locale, path, going, refreshing, layout>>
sidebar == <<narrow, isMobile, open, openMobile>>
history == <<linked, stayed>>
vars == <<server, router, sidebar, history>>

Locales == {"ja", "en"}
AdminPages == {"users", "connections"}
Routes == {"setup", "connect"}
Stages == {"pending", "ready", "complete"}
ConnectionPages == Tables \union Routes \union {"tables"}
Paths == [conn : {NoConnection}, page : {"home"} \union AdminPages]
         \union [conn : Connections, page : ConnectionPages]

Home == [conn |-> NoConnection, page |-> "home"]
TablesPage(c) == [conn |-> c, page |-> "tables"]
SetupPage(c) == [conn |-> c, page |-> "setup"]

\* A page of its own comes before that of a table of the same name.
TablePages == [conn : Connections, page : Tables \ Routes]

-----------------------------------------------------------------------------
(* The server's side.                                                      *)

Accessible == IF admin THEN Connections ELSE member

\* parseConnectionIdFromPathname of x-pathname, which the middleware sets to
\* the address with its locale.
parseConnectionIdFromPathname(loc, p) == p.conn

\* What he may read: an administrator all that the schema had when it was last
\* read, anybody else what his roles say, of tables that may be gone.
Readable(c) == IF admin THEN rights[c].cached ELSE rights[c].granted

\* A connection he has no access to gives no context.
getConnectionContext(c) ==
    {[id |-> x, tables |-> Readable(x)] : x \in {c} \cap Accessible}

\* The layout of the dashboard, of a request for the address.
RenderLayout(loc, p) ==
    [admin |-> admin, connections |-> Accessible,
     context |-> getConnectionContext(parseConnectionIdFromPathname(loc, p))]

\* The pages of administrators send others home.
ToHome(p) == p.conn = NoConnection /\ p.page \in AdminPages /\ ~admin

\* No page of a connection but that of its setup is shown before its Target is
\* ready, and to an administrator its tables are not before all steps are done.
ToSetup(p) == /\ p.conn # NoConnection /\ p.page # "setup"
              /\ \/ setup[p.conn] = "pending"
                 \/ setup[p.conn] = "ready" /\ p.page = "tables" /\ admin

\* When they are done the page of the setup gives way to the tables; nobody else
\* sees the rows that say so.
ToTables(p) == /\ p.conn # NoConnection /\ p.page = "setup"
               /\ setup[p.conn] = "complete" /\ admin

\* Where the request for a page ends: at the page, or where it redirects to.
RenderPage(p) == CASE ToHome(p) -> Home
                   [] ToSetup(p) -> SetupPage(p.conn)
                   [] ToTables(p) -> TablesPage(p.conn)
                   [] OTHER -> p

\* Mutant: the gate asks for what roles let one read, and not who is asking.
TableFoundByRoles(p) == p.page \in rights[p.conn].granted \cap rights[p.conn].cached

\* The page of a table is there for who may read it if the schema has it.
TableFound(p) == p.page \in Readable(p.conn) \cap rights[p.conn].cached

\* The page of a setup is an administrator's; anybody else is told that the
\* Target is not ready, while it is not.
SetupFound(p) == admin \/ setup[p.conn] = "pending"

\* The pages of a connection are there for those who have access to it.
Found(p) == /\ p.conn \in Accessible \union {NoConnection}
            /\ RenderPage(p) = p =>
                 /\ p \in TablePages => TableFound(p)
                 /\ p \in {SetupPage(c) : c \in Connections} => SetupFound(p)

-----------------------------------------------------------------------------

Init == /\ admin \in BOOLEAN /\ member \in SUBSET Connections
        /\ rights \in Rights /\ setup \in [Connections -> Stages]
        /\ locale = "ja" /\ path = Home /\ going = {} /\ refreshing = FALSE
        /\ layout = RenderLayout("ja", Home)
        /\ narrow \in BOOLEAN /\ isMobile = narrow
        /\ open = TRUE /\ openMobile = FALSE
        /\ linked = FALSE /\ stayed = TRUE

\* SidebarProvider is mounted with the frame: its cookie is written and not read.
SidebarMounted == isMobile' = narrow /\ open' = TRUE /\ openMobile' = FALSE

\* A document, or all below the locale, is loaded: a page that is not found
\* has no menu, and is left for home here.
Loaded(loc, p) ==
    /\ Found(p)
    /\ locale' = loc /\ path' = RenderPage(p)
    /\ going' = {} /\ refreshing' = FALSE
    /\ layout' = RenderLayout(loc, RenderPage(p))
    /\ SidebarMounted
    /\ linked' = FALSE /\ stayed' = TRUE
    /\ UNCHANGED <<server, narrow>>

Reload == Loaded(locale, path)
TypeAddress == \E p \in Paths : Loaded(locale, p)
LocaleSwitcher == \E loc \in Locales \ {locale} : Loaded(loc, path)

\* An administrator changes what he may see.
Promoted == admin' = ~admin /\ UNCHANGED <<member, rights>>
Granted == /\ \E c \in Connections : member' = IF c \in member THEN member \ {c}
                                               ELSE member \union {c}
           /\ UNCHANGED <<admin, rights>>
TablesChange == rights' \in Rights \ {rights} /\ UNCHANGED <<admin, member>>
OthersChange == /\ Promoted \/ Granted \/ TablesChange
                /\ stayed' = FALSE
                /\ UNCHANGED <<setup, router, sidebar, linked>>

\* The steps of a setup are done, or one of them is undone; once a Target was
\* ready its row says so for good.
SetupChange(c) == /\ \E stage \in (Stages \ {"pending", setup[c]}) :
                       setup' = [setup EXCEPT ![c] = stage]
                  /\ UNCHANGED <<admin, member, rights, router, sidebar, history>>

-----------------------------------------------------------------------------
(* The frame.                                                              *)

\* deriveConnectionId: from the address, not from what the server rendered.
activeConnectionId == path.conn

\* The menu's entries for the connections, and below the active one the tables
\* that the layout was rendered with, of whichever connection they are.
MenuTables == IF activeConnectionId \in layout.connections
              THEN UNION {x.tables : x \in layout.context} ELSE {}

MenuLinks == {Home} \union {TablesPage(c) : c \in layout.connections}
             \union [conn : {activeConnectionId}, page : MenuTables]
             \union (IF layout.admin
                     THEN [conn : {NoConnection}, page : AdminPages] ELSE {})

\* The connection the breadcrumbs name: that of the context, if there is one.
buildBreadcrumbs ==
    IF activeConnectionId = NoConnection THEN {}
    ELSE IF layout.context # {} THEN {x.id : x \in layout.context} ELSE {activeConnectionId}

\* The links of the page itself, rendered with it: to tables and to the form
\* that connects, and from the steps of a setup to the pages of administrators.
PageLinks == IF path.conn = NoConnection THEN {}
             ELSE [conn : {path.conn}, page : Tables \union {"connect", "tables"}]
                  \union (IF path.page = "setup"
                          THEN [conn : {NoConnection}, page : AdminPages] ELSE {})

\* The sidebar as a sheet over the page on a narrow window, beside it otherwise.
SidebarShown == IF isMobile THEN openMobile ELSE open
PageReached == ~(isMobile /\ openMobile)

\* A link: an earlier navigation, or refresh, that is under way is dropped.
Navigate(p) == /\ going' = {p} /\ refreshing' = FALSE
               /\ UNCHANGED <<server, locale, path, layout, sidebar, history>>

FollowMenu == SidebarShown /\ \E p \in MenuLinks : Navigate(p)
FollowPage == PageReached /\ \E p \in PageLinks : Navigate(p)
FollowBreadcrumb == PageReached /\ path.conn # NoConnection /\ Navigate(TablesPage(path.conn))

\* The connect form, when it has connected: push and refresh.
Connect ==
    /\ PageReached /\ path.page = "connect"
    /\ going' = {TablesPage(path.conn)} /\ refreshing' = TRUE
    /\ UNCHANGED <<server, locale, path, layout, sidebar, history>>

\* The page is there: the frame stays.
Arrive(p) ==
    /\ going = {p} /\ Found(p) /\ RenderPage(p) = p
    /\ path' = p /\ going' = {}
    /\ linked' = (linked \/ p.conn # path.conn)
    /\ UNCHANGED <<server, locale, refreshing, layout, sidebar, stayed>>

\* The page sends him on, which is a navigation again where the router does it.
Redirected(p) ==
    /\ going = {p} /\ Found(p) /\ RenderPage(p) # p
    /\ going' = {RenderPage(p)} /\ refreshing' \in {refreshing, FALSE}
    /\ UNCHANGED <<server, locale, path, layout, sidebar, history>>

\* A page that is not found, or is an error, has no frame: he goes back, and it is
\* mounted again as it was rendered.
NotFound(p) == /\ going = {p} /\ ~Found(p)
               /\ going' = {} /\ refreshing' = FALSE
               /\ SidebarMounted
               /\ UNCHANGED <<server, locale, path, layout, narrow, history>>

\* The refresh is answered once the navigation before it has been, and the page
\* may send him on.
Refreshed ==
    /\ refreshing /\ going = {} /\ Found(path)
    /\ refreshing' = FALSE
    /\ layout' = RenderLayout(locale, path)
    /\ going' = {RenderPage(path)} \ {path}
    /\ linked' = FALSE /\ stayed' = TRUE
    /\ UNCHANGED <<server, locale, path, sidebar>>

\* It finds that the page is no longer his: he goes home.
RefreshedAway == refreshing /\ going = {} /\ ~Found(path) /\ Loaded(locale, Home)

-----------------------------------------------------------------------------
(* The sidebar.                                                            *)

\* useIsMobile: the listener of the media query.
Resize == /\ narrow' = ~narrow /\ isMobile' = ~narrow
          /\ UNCHANGED <<server, router, open, openMobile, history>>

\* setOpen of the provider, which no one controls.
setOpen(value) == open' = value

toggleSidebar == IF isMobile THEN openMobile' = ~openMobile /\ UNCHANGED open
                 ELSE setOpen(~open) /\ UNCHANGED openMobile

\* The button of the header, which the sheet covers, and the shortcut.
Trigger == /\ toggleSidebar
           /\ UNCHANGED <<server, router, narrow, isMobile, history>>

\* The sheet is dismissed.
Dismiss == /\ isMobile /\ openMobile
           /\ openMobile' = FALSE
           /\ UNCHANGED <<server, router, narrow, isMobile, open, history>>

ServerAnswer == \/ Refreshed \/ RefreshedAway
                \/ \E p \in going : Arrive(p) \/ Redirected(p) \/ NotFound(p)

Next == \/ Reload \/ TypeAddress \/ LocaleSwitcher
        \/ OthersChange \/ \E c \in Connections : SetupChange(c)
        \/ FollowMenu \/ FollowPage \/ FollowBreadcrumb \/ Connect
        \/ ServerAnswer
        \/ Resize \/ Trigger \/ Dismiss

Spec == Init /\ [][Next]_vars

-----------------------------------------------------------------------------

\* While the connection is the one the frame was rendered for, and nobody has
\* changed what he may see, the menu has its tables and the breadcrumbs its
\* name, in either locale.
FrameIsOfItsRequest ==
    ~linked /\ stayed /\ path.conn # NoConnection =>
       MenuTables = Readable(path.conn) /\ buildBreadcrumbs = {path.conn}

\* A link leads to its page, or to the setup of a connection that needs more.
LeadsTo(p) ==
    /\ Found(p)
    /\ \/ RenderPage(p) = p
       \/ /\ p.conn \in Connections /\ setup[p.conn] # "complete"
          /\ RenderPage(p) = SetupPage(p.conn) /\ Found(SetupPage(p.conn))

\* An entry for a table may lead nowhere: below another connection than the
\* frame was rendered for, of a table that the schema no longer has, or of one
\* that has the name of a page.
MayBeAstray(p) == /\ p.conn # NoConnection /\ p.page \in MenuTables
                  /\ \/ p.conn \notin {x.id : x \in layout.context}
                     \/ p.page \notin rights[p.conn].cached
                     \/ p.page \in Routes

\* While nobody has changed what he may see every other entry of the menu leads
\* to a page: the list of his connections, what the menu lists of their tables
\* and the gates of the pages, which each ask anew, agree.
MenuLeadsSomewhere == stayed => \A p \in MenuLinks : LeadsTo(p) \/ MayBeAstray(p)

\* What every step keeps: the frame is what the server would render again, for
\* its connection.
IInv ==
    /\ member \subseteq Connections
    /\ setup \in [Connections -> Stages]
    /\ stayed => /\ layout.admin = admin /\ layout.connections = Accessible
                 /\ path.conn \in Accessible \union {NoConnection}
                 /\ \A x \in layout.context :
                      layout.context = getConnectionContext(x.id)
    /\ stayed /\ ~linked => layout.context = getConnectionContext(path.conn)
=============================================================================
