----------------------------- MODULE RateLimit -----------------------------
(***************************************************************************)
(* The limiter of the Node.js runtimes outside production: a counter in    *)
(* Redis per key and window of the clock, counted up, given an expiry by   *)
(* the call that made it, and asked for what is left when the limit is     *)
(* passed.  Each is a command of its own, and the process may die between  *)
(* two.  One key and one clock; time passes in parts of a second.          *)
(***************************************************************************)
EXTENDS Integers, FiniteSets

CONSTANTS Calls,
          Limit,
          Second,   \* how many ticks a second has
          Window,   \* in seconds
          MaxTime   \* bound on the clock

VARIABLES now,
          counter,  \* per window of the clock: count and expiry of its counter, if there is one
          call      \* per call: where it is

vars == <<now, counter, call>>

W == Window * Second
Windows == 0..(MaxTime \div W)
Gone == [count |-> 0, expires |-> -1]
Never == -1

Init == /\ now = 0
        /\ counter = [w \in Windows |-> Gone]
        /\ call = [c \in Calls |-> [at |-> "idle"]]

\* Redis drops a counter when its time has come.
Live(w) == IF counter[w].expires # Never /\ counter[w].expires <= now THEN Gone ELSE counter[w]

Tick == now < MaxTime /\ now' = now + 1 /\ UNCHANGED <<counter, call>>

-----------------------------------------------------------------------------

\* Which window it is is decided before Redis is asked.
Begin(c) == /\ call[c].at = "idle"
            /\ call' = [call EXCEPT ![c] = [at |-> "incr", bucket |-> now \div W]]
            /\ UNCHANGED <<now, counter>>

\* Who has to give the counter its expiry.
SetsExpiry(count) == count = 1

Incr(c) ==
    /\ call[c].at = "incr"
    /\ LET w == call[c].bucket
           count == Live(w).count + 1
       IN /\ counter' = [counter EXCEPT ![w] = [Live(w) EXCEPT !.count = count]]
          /\ call' = [call EXCEPT ![c] =
               [at |-> IF SetsExpiry(count) THEN "expire"
                       ELSE IF count > Limit THEN "ttl" ELSE "allowed",
                bucket |-> w, count |-> count, time |-> now]]
    /\ UNCHANGED now

\* Mutant: SET with EX instead, which writes the count as well.
ExpireBySet(c) ==
    /\ call[c].at = "expire"
    /\ counter' = [counter EXCEPT ![call[c].bucket] = [count |-> 1, expires |-> now + W]]
    /\ call' = [call EXCEPT ![c].at = IF call[c].count > Limit THEN "ttl" ELSE "allowed"]
    /\ UNCHANGED now

\* EXPIRE finds the counter its own call made.
Expire(c) ==
    /\ call[c].at = "expire"
    /\ LET w == call[c].bucket IN
         counter' = [counter EXCEPT ![w] =
           IF Live(w) = Gone THEN Gone ELSE [Live(w) EXCEPT !.expires = now + W]]
    /\ call' = [call EXCEPT ![c].at = IF call[c].count > Limit THEN "ttl" ELSE "allowed"]
    /\ UNCHANGED now

\* What Redis answers: whole seconds, rounded; -1 without expiry, -2 without
\* the counter.
Ttl(w) == IF Live(w) = Gone THEN -2
          ELSE IF Live(w).expires = Never THEN -1
          ELSE ((Live(w).expires - now) + (Second \div 2)) \div Second

retryAfterSec(ttl) == IF ttl > 0 THEN ttl ELSE Window

Refuse(c) ==
    /\ call[c].at = "ttl"
    /\ call' = [call EXCEPT ![c] = [at |-> "refused", bucket |-> @.bucket, count |-> @.count,
                                    time |-> now, retry |-> retryAfterSec(Ttl(@.bucket))]]
    /\ UNCHANGED <<now, counter>>

\* The process dies, or loses Redis, between two commands.
Crash(c) == /\ call[c].at \in {"incr", "expire", "ttl"}
            /\ call' = [call EXCEPT ![c] = [at |-> "crashed", bucket |-> @.bucket, left |-> @.at]]
            /\ UNCHANGED <<now, counter>>

Next == Tick \/ \E c \in Calls : Begin(c) \/ Incr(c) \/ Expire(c) \/ Refuse(c) \/ Crash(c)

Spec == Init /\ [][Next]_vars

-----------------------------------------------------------------------------

Allowed == {c \in Calls : call[c].at = "allowed"}

\* Those that reached Redis in the window they were counted for.
Prompt == {c \in Allowed : call[c].time \div W = call[c].bucket}

\* In one window of the clock at most Limit calls are allowed that reach Redis
\* in it, whoever dies on the way; a call that reaches it later may find the
\* counter gone and start another.
AtMostLimitPerWindow ==
    \A w \in Windows : Cardinality({c \in Prompt : call[c].bucket = w}) <= Limit

\* A counter without expiry has a call on the way to give it one, or it is the
\* counter of a call that died before it could.
CountersExpire ==
    \A w \in Windows :
      Live(w) # Gone /\ Live(w).expires = Never =>
        \E c \in Calls :
          \/ call[c].at = "expire" /\ call[c].bucket = w
          \/ call[c].at = "crashed" /\ call[c].bucket = w /\ call[c].left = "expire"

\* Who was refused in his window and comes again after the time he was told, and
\* the half second Redis rounds off, comes in another window.
RetryIsEnough ==
    \A c \in Calls :
      call[c].at = "refused" =>
        (call[c].time + call[c].retry * Second + Second \div 2) \div W > call[c].bucket

-----------------------------------------------------------------------------
(* The inductive invariant behind these properties.                         *)

Counted == {"expire", "ttl", "allowed"}
CallRecords ==
    [at : {"idle"}]
      \union [at : {"incr"}, bucket : Windows]
      \union [at : Counted, bucket : Windows, count : Nat \ {0}, time : Nat]
      \union [at : {"refused"}, bucket : Windows, count : Nat \ {0}, time : Nat, retry : Int]
      \union [at : {"crashed"}, bucket : Windows, left : {"incr", "expire", "ttl"}]

TypeOK == /\ now \in 0..MaxTime
          /\ counter \in [Windows -> [count : Nat, expires : Int]]
          /\ call \in [Calls -> CallRecords]

End(w) == w * W + W

\* A counter lives as long as its window.
CounterLasts(w) ==
    counter[w] = Gone \/ (counter[w].count > 0 /\ counter[w].expires \in {Never} \union Nat)
CounterOutlives(w) == counter[w].expires = Never \/ counter[w].expires >= End(w)

\* What is true of a call's record at a time: during a window its counter has
\* counted every call that came in it.
Sound(r, time, counters) ==
    /\ r.at = "incr" => r.bucket * W <= time
    /\ r.at \in Counted => /\ r.bucket * W <= r.time /\ r.time <= time
                           /\ time < End(r.bucket) => r.count <= counters[r.bucket].count
    /\ r.at = "allowed" => r.count <= Limit
    /\ r.at = "refused" => r.time + r.retry * Second + Second \div 2 >= End(r.bucket)

\* No two calls that came in a window were counted alike.
CountsDiffer ==
    \A c, d \in Calls :
        /\ c # d
        /\ call[c].at \in Counted /\ call[c].time < End(call[c].bucket)
        /\ call[d].at \in Counted /\ call[d].bucket = call[c].bucket
        /\ call[d].time < End(call[d].bucket)
        => call[c].count # call[d].count

\* CountersExpire, whatever time it is.
ExpiryIsUnderWay(w) ==
    counter[w] # Gone /\ counter[w].expires = Never =>
      \E c \in Calls : \/ call[c].at = "expire" /\ call[c].bucket = w
                       \/ call[c].at = "crashed" /\ call[c].bucket = w /\ call[c].left = "expire"

IInv == /\ TypeOK
        /\ \A w \in Windows : CounterLasts(w) /\ CounterOutlives(w) /\ ExpiryIsUnderWay(w)
        /\ \A c \in Calls : Sound(call[c], now, counter)
        /\ CountsDiffer
=============================================================================
