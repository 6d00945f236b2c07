------------------------------ MODULE MCWaiting ------------------------------
(***************************************************************************)
(* What comes to an end if what was asked for is answered, on small        *)
(* instances.  Each behaviour is one part's: "part" says whose, and each   *)
(* part keeps its variables in the first of s1 to s13, the others being 0. *)
(***************************************************************************)
EXTENDS Naturals

VARIABLES part, s1, s2, s3, s4, s5, s6, s7, s8, s9, s10, s11, s12, s13

state == <<s1, s2, s3, s4, s5, s6, s7, s8, s9, s10, s11, s12, s13>>

\* Any two changes or failing reads.
C == INSTANCE ConnectionPages WITH MaxChanges <- 2,
       done <- s1, exists <- s2, role <- s3, target <- s4, page <- s5, render <- s6,
       panel <- s7, request <- s8, late <- s9, changes <- s10, noise <- s11,
       redirects <- s12

\* Two rows on pages of one, two queries under way.
T == INSTANCE TableBrowser WITH Rows <- {1, 2}, Matching <- {1}, PageSize <- 1,
       MaxLoads <- 2, MaxStatements <- 1, MaxChanges <- 0, Orders <- {"asc"}, Filters <- {FALSE},
       table <- s1, mounted <- s2, view <- s3, shown <- s4, loading <- s5, loads <- s6,
       form <- s7, confirm <- s8, statements <- s9, overlapped <- s10, changes <- s11

\* Two contexts with a job each, and a server with one connection for both.
D == INSTANCE DbContext WITH Contexts <- {"x1", "x2"}, Jobs <- {"j1"}, Actors <- {"ann"},
       PoolMax <- 1, Connections <- {"s1"},
       context <- s1, session <- s2, job <- s3

\* A cell that has two values, one query under way besides the last.
P == INSTANCE ForeignKeyPreview WITH Values <- {"v1", "v2"}, MaxFetches <- 2,
       found <- s1, mounted <- s2, value <- s3, open <- s4, row <- s5, error <- s6,
       loading <- s7, fetches <- s8

\* Two connections, two requests at a time.
L == INSTANCE ConnectionList WITH Connections <- {"c1", "c2"}, MaxPending <- 2,
       registered <- s1, cache <- s2, mounted <- s3, active <- s4, rls <- s5,
       setup <- s6, secret <- s7, pending <- s8, overlapped <- s9

\* Two roles on a connection with a table, two requests under way.
R == INSTANCE RoleEditor WITH Roles <- {"r1", "r2"}, Connections <- {"c1"}, Tables <- {"t1"},
       TablesOf <- [c \in {"c1"} |-> {"t1"}], None <- "none", MaxFetches <- 2,
       stored <- s1, created <- s2, roles <- s3, list <- s4, selected <- s5, tables <- s6,
       permissions <- s7, fetches <- s8, saves <- s9, formOf <- s10, failed <- s11,
       dirty <- s12, overlapped <- s13

\* A member's browser, and a call that gives him an account.
A == INSTANCE TargetSession WITH Admins <- {}, Members <- {"mem"}, Connections <- {"c1"},
       Tables <- {"t1"}, Emails <- {"e1"}, Browsers <- {"b1"}, Provisions <- {"p1"},
       Keys <- {"key"}, KeyOf <- [c \in {"c1"} |-> "key"], MaxChanges <- 1,
       granted <- s1, mapping <- s2, account <- s3, ever <- s4, provision <- s5, slot <- s6,
       connect <- s7, changes <- s8

Init == \/ part = "pages" /\ C!Init /\ s13 = 0
        \/ part = "table" /\ T!Init /\ s12 = 0 /\ s13 = 0
        \/ /\ part = "pools" /\ D!Init
           /\ s4 = 0 /\ s5 = 0 /\ s6 = 0 /\ s7 = 0 /\ s8 = 0 /\ s9 = 0 /\ s10 = 0 /\ s11 = 0
           /\ s12 = 0 /\ s13 = 0
        \/ /\ part = "preview" /\ P!Init
           /\ s9 = 0 /\ s10 = 0 /\ s11 = 0 /\ s12 = 0 /\ s13 = 0
        \/ part = "list" /\ L!Init /\ s10 = 0 /\ s11 = 0 /\ s12 = 0 /\ s13 = 0
        \/ part = "roles" /\ R!Init
        \/ /\ part = "form" /\ A!Init
           /\ s9 = 0 /\ s10 = 0 /\ s11 = 0 /\ s12 = 0 /\ s13 = 0

Next == /\ UNCHANGED part
        /\ \/ part = "pages" /\ C!Next /\ UNCHANGED s13
           \/ part = "table" /\ T!Next /\ UNCHANGED <<s12, s13>>
           \/ part = "pools" /\ D!Next /\ UNCHANGED <<s4, s5, s6, s7, s8, s9, s10, s11, s12, s13>>
           \/ part = "preview" /\ P!Next /\ UNCHANGED <<s9, s10, s11, s12, s13>>
           \/ part = "list" /\ L!Next /\ UNCHANGED <<s10, s11, s12, s13>>
           \/ part = "roles" /\ R!Next
           \/ part = "form" /\ A!Next /\ UNCHANGED <<s9, s10, s11, s12, s13>>

\* The fairness of each part, in its behaviours.
Fairness ==
    /\ WF_(C!vars)(part = "pages" /\ C!Render)
    /\ WF_(C!vars)(part = "pages" /\ (C!Answer \/ C!PanelFails))
    /\ WF_(T!vars)(part = "table" /\ T!LoadAnswer)
    /\ WF_(T!vars)(part = "table" /\ T!StatementAnswer)
    /\ \A x \in {"x1", "x2"} : WF_(D!vars)(part = "pools" /\ D!Step(x, "j1"))
    /\ \A x \in {"x1", "x2"} : WF_(D!vars)(part = "pools" /\ D!IdleTimeout(x, "s1"))
    /\ \A v \in {"v1", "v2"} :
         WF_(P!vars)(part = "preview" /\ P!Answered([of |-> v, cancelled |-> FALSE]))
    /\ \A kind \in {"probe", "verify"}, c \in {"c1", "c2"} :
         LET r == [kind |-> kind, id |-> c]
         IN  WF_(L!vars)(/\ part = "list"
                         /\ L!Answer(r) \/ L!ProbeAnswer(r) \/ L!VerifyAnswer(r) \/ L!AnswerFails(r))
    /\ \A f \in [of : [role : {"r1", "r2", "none"}, connection : {"c1"}],
                 step : {"tables", "permissions"}, cancelled : {FALSE}] :
         WF_(R!vars)(/\ part = "roles"
                     /\ R!TablesAnswer(f) \/ R!PermissionsAnswer(f) \/ R!FetchFails(f))
    /\ WF_(A!vars)(part = "form" /\ A!Step("b1"))

Spec == Init /\ [][Next]_<<part, state>> /\ Fairness
-----------------------------------------------------------------------------
\* Whatever page of a connection was asked for, the redirects end in some page.
PageComes == (part = "pages" /\ C!Rendering) ~> (part = "pages" => ~C!Rendering)

\* What waits does not wait for ever, whatever order answers come in: a table's
\* page and a setup dialog stop loading, the connect form gives its button back,
\* and a preview and a permission matrix come unless he keeps asking for others.
LoadingEnds ==
    /\ (part = "table" /\ s5) ~> (part = "table" => ~s5)
    /\ (part = "list" /\ s6.loading) ~> (part = "list" => ~s6.loading)
    /\ (part = "form" /\ s7["b1"].at \in A!ConnectAwaits)
       ~> (part = "form" => s7["b1"].at \in A!ConnectEnds)
    /\ \/ []<>(part = "preview" /\ P!Visible => ~s7)
       \/ []<><<part = "preview" /\ (P!Open \/ P!Close \/ P!ChangeCell \/ P!Hide)>>_(P!vars)
    /\ \/ []<>(part = "roles" => R!Active = {})
       \/ []<><<part = "roles" /\ (R!SelectRole \/ R!SelectConnection)>>_(R!vars)

\* Nobody closes a pool, and yet its connections are given back to the server
\* when their context is no longer used.
ConnectionsComeBack == <>[](part = "pools" => D!AllClosed)
=============================================================================
