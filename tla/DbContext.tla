------------------------------ MODULE DbContext ------------------------------
(***************************************************************************)
(* How the features reach Meta: every createDbContext makes a Drizzle      *)
(* client with a pool of its own.  A job is one use of a context: a        *)
(* statement by ctx.db, or a function passed to ctx.run or                 *)
(* ctx.transaction.  A context of mode "member" is to act under its        *)
(* actor's claim, a setting of the session of Postgres.                    *)
(***************************************************************************)
EXTENDS Naturals, FiniteSets

CONSTANTS Contexts, Jobs, Actors,
          PoolMax,       \* max of a pool
          Connections    \* the connections the server has for all

Nobody == "nobody"  \* no claim; the actor of a context of mode "service"
Unmade == "unmade"

VARIABLES context,  \* each context's actor
          session,  \* the connections: closed, or the pool they belong to, whether in use, and the claim
          job       \* per context and job: by what it goes, how far it is, what claim its statement saw

vars == <<context, session, job>>

Closed == [pool |-> Unmade, busy |-> FALSE, claim |-> Nobody]
NoJob == [via |-> "none", at |-> "idle", on |-> {}, saw |-> {}]

Init == /\ context = [x \in Contexts |-> Unmade]
        /\ session = [s \in Connections |-> Closed]
        /\ job = [x \in Contexts |-> [j \in Jobs |-> NoJob]]

InPool(x) == {s \in Connections : session[s].pool = x}
Idle(x) == {s \in InPool(x) : ~session[s].busy}

\* createDbContext of mode "service": nothing is connected yet.
CreateService(x) ==
    /\ context[x] = Unmade
    /\ context' = [context EXCEPT ![x] = Nobody]
    /\ UNCHANGED <<session, job>>

\* Of mode "member": the claim is set by a statement of its own, the first of
\* its pool, and for the transaction of that statement only.
CreateMember(x) ==
    /\ context[x] = Unmade
    /\ \E s \in Connections, a \in Actors :
         /\ session[s] = Closed
         /\ session' = [session EXCEPT ![s].pool = x]
         /\ context' = [context EXCEPT ![x] = a]
    /\ UNCHANGED job

\* A feature awaits something of its context; several at once with Promise.all.
Start(x, j) ==
    /\ context[x] # Unmade /\ job[x][j].at = "idle"
    /\ \E via \in {"db", "run", "transaction"} :
         job' = [job EXCEPT ![x][j] = [NoJob EXCEPT !.via = via, !.at = "wait"]]
    /\ UNCHANGED <<context, session>>

-----------------------------------------------------------------------------
(* The pool, which is pg's.                                                  *)

RoomInPool(x) == Cardinality(InPool(x)) < PoolMax

\* A job gets an idle connection, or a new one if the pool and the server have
\* room.  Without an idle one and with the pool full it waits.
Acquire(x, j) ==
    /\ job[x][j].at = "wait"
    /\ \E s \in Connections :
         /\ \/ s \in Idle(x)
            \/ Idle(x) = {} /\ RoomInPool(x) /\ session[s] = Closed
         /\ session' = [session EXCEPT ![s].pool = x, ![s].busy = TRUE]
         /\ job' = [job EXCEPT ![x][j].at = "connected", ![x][j].on = {s}]
    /\ UNCHANGED context

\* The server refuses one more connection.
TooMany(x, j) ==
    /\ job[x][j].at = "wait"
    /\ Idle(x) = {} /\ RoomInPool(x) /\ \A s \in Connections : session[s] # Closed
    /\ job' = [job EXCEPT ![x][j].at = "failed"]
    /\ UNCHANGED <<context, session>>

\* connectionTimeoutMillis.
ConnectTimeout(x, j) ==
    /\ job[x][j].at = "wait" /\ Idle(x) = {}
    /\ job' = [job EXCEPT ![x][j].at = "failed"]
    /\ UNCHANGED <<context, session>>

\* Mutant: idleTimeoutMillis of 0.
NeverIdle(x, s) == FALSE /\ UNCHANGED vars

\* idleTimeoutMillis, also of a pool that nobody uses any more.
IdleTimeout(x, s) ==
    /\ s \in Idle(x)
    /\ session' = [session EXCEPT ![s] = Closed]
    /\ UNCHANGED <<context, job>>

-----------------------------------------------------------------------------

\* ctx.transaction opens one, and ctx.run for a member.
Transacts(x, j) == job[x][j].via = "transaction" \/ (job[x][j].via = "run" /\ context[x] # Nobody)

\* Mutant: only transaction() knows the actor.
BeginWithoutClaim(x, j, s) ==
    /\ job[x][j].at = "connected" /\ job[x][j].on = {s} /\ Transacts(x, j)
    /\ session' = [session EXCEPT ![s].claim =
                     IF job[x][j].via = "transaction" THEN context[x] ELSE @]
    /\ job' = [job EXCEPT ![x][j].at = "begun"]
    /\ UNCHANGED context

\* BEGIN and, for a member, set_config.
Begin(x, j, s) ==
    /\ job[x][j].at = "connected" /\ job[x][j].on = {s} /\ Transacts(x, j)
    /\ session' = [session EXCEPT ![s].claim = context[x]]
    /\ job' = [job EXCEPT ![x][j].at = "begun"]
    /\ UNCHANGED context

\* What the feature asks for, in the transaction or without one.
Statement(x, j, s) ==
    /\ job[x][j].on = {s}
    /\ job[x][j].at = IF Transacts(x, j) THEN "begun" ELSE "connected"
    /\ job' = [job EXCEPT ![x][j].at = "answered", ![x][j].saw = {session[s].claim}]
    /\ UNCHANGED <<context, session>>

\* COMMIT, or ROLLBACK after an error, which end the setting; the connection
\* goes back to the pool.
End(x, j, s) ==
    /\ job[x][j].on = {s} /\ job[x][j].at \in {"connected", "begun", "answered"}
    /\ session' = [session EXCEPT ![s].busy = FALSE, ![s].claim = Nobody]
    /\ \E result \in {"done", "failed"} :
         /\ result = "done" => job[x][j].at = "answered"
         /\ job' = [job EXCEPT ![x][j].at = result, ![x][j].on = {}]
    /\ UNCHANGED context

Step(x, j) == \/ Acquire(x, j) \/ ConnectTimeout(x, j)
              \/ \E s \in Connections : End(x, j, s)

Next == \/ \E x \in Contexts : CreateService(x) \/ CreateMember(x)
        \/ \E x \in Contexts, j \in Jobs :
             \/ Start(x, j) \/ Acquire(x, j) \/ TooMany(x, j) \/ ConnectTimeout(x, j)
             \/ \E s \in Connections : Begin(x, j, s) \/ Statement(x, j, s) \/ End(x, j, s)
        \/ \E x \in Contexts, s \in Connections : IdleTimeout(x, s)

\* The server answers or the connection breaks, and timers fire.
Fairness == /\ \A x \in Contexts, j \in Jobs : WF_vars(Step(x, j))
            /\ \A x \in Contexts, s \in Connections : WF_vars(IdleTimeout(x, s))

Spec == Init /\ [][Next]_vars /\ Fairness

-----------------------------------------------------------------------------

\* What runs in run() or transaction() of a member's context sees his claim,
\* also on a connection that others used before; nothing else ever sees one.
ActsForItsActor ==
    \A x \in Contexts, j \in Jobs : \A claim \in job[x][j].saw :
      claim = IF Transacts(x, j) THEN context[x] ELSE Nobody

\* A connection waits in its pool without a claim.
ClaimsEnd == \A s \in Connections : ~session[s].busy => session[s].claim = Nobody

\* Nobody closes a pool, and yet its connections are given back to the server
\* when their context is no longer used.
AllClosed == \A s \in Connections : session[s] = Closed
ConnectionsComeBack == <>[]AllClosed

-----------------------------------------------------------------------------
(* The inductive invariant behind these properties.                         *)

Claims == Actors \union {Nobody, Unmade}
Sessions == [pool : Contexts \union {Unmade}, busy : BOOLEAN, claim : Claims]
JobRecords == [via : {"none", "db", "run", "transaction"},
               at : {"idle", "wait", "connected", "begun", "answered", "done", "failed"},
               on : SUBSET Connections, saw : SUBSET Claims]

\* How a job stands to the sessions: it has nothing before its context is made,
\* a connection only from Acquire to End, and saw the claim it is to see.
Fits(x, r, sessions) ==
    /\ r \in JobRecords
    /\ context[x] = Unmade => r = NoJob
    /\ \A s \in r.on : /\ sessions[s].busy
                       /\ r.at \in {"connected", "begun", "answered"}
                       /\ r.at = "connected" => sessions[s].claim = Nobody
                       /\ r.at = "begun" => sessions[s].claim = context[x]
    /\ \A claim \in r.saw :
         claim = IF r.via = "transaction" \/ (r.via = "run" /\ context[x] # Nobody)
                 THEN context[x] ELSE Nobody

\* No two jobs have the same connection.
OneJobEach ==
    \A x, y \in Contexts, j, k \in Jobs :
        job[x][j].on \cap job[y][k].on # {} => x = y /\ j = k

TypeOK == /\ context \in [Contexts -> Claims]
          /\ session \in [Connections -> Sessions]
          /\ job \in [Contexts -> [Jobs -> JobRecords]]

IInv == /\ TypeOK
        /\ \A x \in Contexts, j \in Jobs : Fits(x, job[x][j], session)
        /\ OneJobEach
        /\ ClaimsEnd
=============================================================================
