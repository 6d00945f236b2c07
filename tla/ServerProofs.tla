---------------------------- MODULE ServerProofs ----------------------------
(*****************************************************************************)
(* Proofs about the handlers of the server, for every value of the           *)
(* constants.  Each part is an instance that keeps its variables in s1 to    *)
(* s8; its inductive invariant is stated in its own module, where TLC        *)
(* checks it.  A behaviour of Server is one of a single part, so that the    *)
(* part's invariant holds of it as long as the others leave it alone.        *)
(* TargetProofs and SessionProofs have the parts about a Target.             *)
(*****************************************************************************)
EXTENDS Server, FiniteSetTheorems, TLAPS

(* The webhook secret: s1 is stored, s2 answered, s3 call, s4 used and s5    *)
(* retired.  Every write takes a fresh secret, so that the stored one is     *)
(* never one that a request remembers as replaced, or read before its write. *)

LEMMA SecretInit == ASSUME Secret!Init PROVE Secret!IInv
<1>1. Secret!StoredIsFresh
  BY DEF Secret!Init, Secret!StoredIsFresh
<1>2. \A c \in Requests : s3[c] = [kind |-> "deliver", at |-> "error", secret |-> Secret!None,
                                  old |-> {}, alone |-> FALSE]
  BY DEF Secret!Init
<1>3. s3 \in [Requests -> Secret!CallRecords]
  BY DEF Secret!Init, Secret!CallRecords, Secret!Kinds, Secret!Answers
<1>4. \A c \in Requests : Secret!Sound(s3[c], s1, s4, s5)
  BY <1>2, <1>3 DEF Secret!Sound
<1>5. QED
  BY <1>1, <1>3, <1>4 DEF Secret!IInv

\* One request moves on, and no secret is written.
LEMMA SecretCallMoves ==
    ASSUME Secret!IInv, NEW c \in Requests, NEW r, s3' = [s3 EXCEPT ![c] = r],
           Secret!Sound(r, s1, s4, s5), UNCHANGED <<s1, s4, s5>>,
           s2' \subseteq Secrets \union {Secret!None}
    PROVE  Secret!IInv'
<1>1. s3' \in [Requests -> Secret!CallRecords] /\ s3'[c] = r
      /\ \A d \in Requests : d # c => s3'[d] = s3[d]
  BY DEF Secret!IInv, Secret!Sound
<1>2. \A d \in Requests : Secret!Sound(s3'[d], s1', s4', s5')
  BY <1>1 DEF Secret!IInv
<1>3. QED
  BY <1>1, <1>2 DEF Secret!IInv, Secret!StoredIsFresh

\* What is true of a request stays true when another one writes a secret.
LEMMA SoundAfterWrite ==
    ASSUME Secret!StoredIsFresh, NEW r, Secret!Sound(r, s1, s4, s5),
           NEW s \in Secrets \ s4, Secret!SetWebhookSecretEnc(s)
    PROVE  Secret!Sound([r EXCEPT !.alone = FALSE], s1', s4', s5')
<1> DEFINE q == [r EXCEPT !.alone = FALSE]
<1>1. /\ q \in Secret!CallRecords /\ q.kind = r.kind /\ q.at = r.at /\ q.secret = r.secret
      /\ q.old = r.old /\ q.alone = FALSE
  BY DEF Secret!Sound, Secret!CallRecords
<1>2. /\ s4 \subseteq s4' /\ s5 \subseteq s5'
      /\ s1' = s \/ s1' = s1
  BY DEF Secret!SetWebhookSecretEnc
<1> HIDE DEF q
<1>3. Secret!Sound(q, s1', s4', s5')
  BY <1>1, <1>2 DEF Secret!Sound
<1>4. QED
  BY <1>3 DEF q

\* A write leaves a fresh secret.
LEMMA FreshAfterWrite ==
    ASSUME Secret!StoredIsFresh, NEW s \in Secrets \ s4, Secret!SetWebhookSecretEnc(s),
           s2' \subseteq Secrets \union {Secret!None}
    PROVE  Secret!StoredIsFresh'
BY DEF Secret!StoredIsFresh, Secret!SetWebhookSecretEnc

\* Request c writes a secret, and moves on to r.
LEMMA SecretCallWrites ==
    ASSUME Secret!IInv, NEW c \in Requests, NEW s \in Secrets \ s4,
           Secret!SetWebhookSecretEnc(s),
           NEW r, Secret!Sound(r, s1', s4', s5'),
           s3' = [d \in Requests |-> IF d = c THEN r ELSE [s3[d] EXCEPT !.alone = FALSE]],
           s2' \subseteq Secrets \union {Secret!None}
    PROVE  Secret!IInv'
<1>1. \A d \in Requests : Secret!Sound(s3'[d], s1', s4', s5')
  BY SoundAfterWrite DEF Secret!IInv
<1>2. s3' \in [Requests -> Secret!CallRecords]
  BY <1>1 DEF Secret!Sound
<1>3. Secret!StoredIsFresh'
  BY FreshAfterWrite DEF Secret!IInv
<1>4. QED
  BY <1>1, <1>2, <1>3 DEF Secret!IInv

LEMMA SecretStep == Secret!IInv /\ [Secret!Next]_(Secret!vars) => Secret!IInv'
<1> SUFFICES ASSUME Secret!IInv, [Secret!Next]_(Secret!vars) PROVE Secret!IInv'
  OBVIOUS
<1>t. \A c \in Requests : Secret!Sound(s3[c], s1, s4, s5)
  BY DEF Secret!IInv
<1>a. s2 \subseteq Secrets \union {Secret!None}
  BY DEF Secret!IInv, Secret!StoredIsFresh
<1>g. ASSUME NEW c \in Requests, NEW at \in Secret!Awaits \union Secret!Answers,
             Secret!Goto(c, at),
             UNCHANGED <<s1, s2, s4, s5>>,
             Secret!Sound([s3[c] EXCEPT !.at = at], s1, s4, s5)
      PROVE  Secret!IInv'
  <2>1. s3' = [s3 EXCEPT ![c] = [s3[c] EXCEPT !.at = at]]
    BY <1>g DEF Secret!Goto
  <2>2. QED
    BY <1>g, <1>a, <2>1, SecretCallMoves
<1>1. CASE Secret!DeleteConnection
  <2>1. \A c \in Requests : /\ s3'[c] = [s3[c] EXCEPT !.alone = FALSE]
                            /\ s3'[c] \in Secret!CallRecords
    BY <1>1, <1>t DEF Secret!DeleteConnection, Secret!Sound, Secret!CallRecords
  <2>2. /\ s1' = Secret!None /\ s4' = s4 /\ s5 \subseteq s5'
        /\ Secret!None \notin s4
    BY <1>1, SecretAssumption DEF Secret!DeleteConnection, Secret!IInv, Secret!StoredIsFresh
  <2>3. ASSUME NEW c \in Requests PROVE Secret!Sound(s3'[c], s1', s4', s5')
    <3> s3[c] \in Secret!CallRecords
      BY <1>t DEF Secret!Sound
    <3>1. /\ s3'[c].kind = s3[c].kind /\ s3'[c].at = s3[c].at
          /\ s3'[c].secret = s3[c].secret /\ s3'[c].old = s3[c].old
          /\ s3'[c].alone = FALSE
      BY <2>1 DEF Secret!CallRecords
    <3>2. /\ Secret!Sound(s3[c], s1, s4, s5)
          /\ s3'[c] \in Secret!CallRecords
      BY <1>t, <2>1
    <3>3. QED
      BY <2>2, <3>1, <3>2 DEF Secret!Sound
  <2>4. Secret!StoredIsFresh'
    BY <1>1 DEF Secret!DeleteConnection, Secret!IInv, Secret!StoredIsFresh
  <2>5. s3' \in [Requests -> Secret!CallRecords]
    BY <1>1, <2>1 DEF Secret!DeleteConnection
  <2>6. QED
    BY <2>3, <2>4, <2>5 DEF Secret!IInv
<1>2. ASSUME NEW c \in Requests, NEW kind \in Secret!Kinds, NEW at \in Secret!Awaits,
             NEW s \in Secrets \union {Secret!None},
             Secret!Start(c, kind, at, s), kind = "reveal" => at = "read",
             kind # "deliver" => at \in {"read", "write"}
      PROVE  Secret!IInv'
  <2> DEFINE r == [kind |-> kind, at |-> at, secret |-> s, old |-> s5, alone |-> TRUE]
  <2>1. r \in Secret!CallRecords
    BY DEF Secret!CallRecords, Secret!IInv, Secret!StoredIsFresh
  <2>2. Secret!Sound(r, s1, s4, s5)
    BY <1>2, <2>1 DEF Secret!Sound, Secret!Awaits
  <2>3. s3' = [s3 EXCEPT ![c] = r] /\ UNCHANGED <<s1, s2, s4, s5>>
    BY <1>2 DEF Secret!Start
  <2> HIDE DEF r
  <2>4. QED
    BY <1>a, <2>2, <2>3, SecretCallMoves
<1>3. ASSUME NEW c \in Requests, Secret!Arrive(c) PROVE Secret!IInv'
  BY <1>2, <1>3, <1>a DEF Secret!Arrive, Secret!Kinds, Secret!Awaits
<1>4. ASSUME NEW c \in Requests, Secret!Read(c) PROVE Secret!IInv'
  <2>1. CASE s1 = Secret!None
    <3>1. Secret!Sound([s3[c] EXCEPT !.at = "not found"], s1, s4, s5)
      BY <1>t DEF Secret!Sound, Secret!CallRecords, Secret!Answers
    <3>2. QED
      BY <1>4, <1>g, <2>1, <3>1 DEF Secret!Read, Secret!Answers
  <2>2. CASE s1 # Secret!None
    <3> DEFINE r == [s3[c] EXCEPT !.at = "write", !.secret = s1]
    <3>1. s1 \in s4 /\ s1 \in Secrets
      BY <2>2 DEF Secret!IInv, Secret!StoredIsFresh
    <3>2. r \in Secret!CallRecords /\ r.at = "write" /\ r.secret = s1 /\ r.old = s3[c].old
      BY <1>t, <3>1 DEF Secret!Sound, Secret!CallRecords, Secret!Awaits
    <3>3. s3' = [s3 EXCEPT ![c] = r] /\ UNCHANGED <<s1, s2, s4, s5>>
      BY <1>4, <2>2 DEF Secret!Read
    <3> HIDE DEF r
    <3>4. Secret!Sound(r, s1, s4, s5)
      BY <1>t, <3>1, <3>2 DEF Secret!Sound
    <3>5. QED
      BY <1>a, <3>3, <3>4, SecretCallMoves
  <2>3. QED
    BY <2>1, <2>2
<1>5. ASSUME NEW c \in Requests, Secret!Reveal(c) PROVE Secret!IInv'
  <2>1. PICK s \in Secrets \ s4 : Secret!SetWebhookSecretEnc(s)
    BY <1>5 DEF Secret!Reveal
  <2>2. PICK at \in {"ok", "error"} :
          s3' = [d \in Requests |-> IF d = c THEN [s3[c] EXCEPT !.at = at]
                                   ELSE [s3[d] EXCEPT !.alone = FALSE]]
    BY <1>5 DEF Secret!Reveal
  <2> DEFINE r == [s3[c] EXCEPT !.at = at]
  <2>3. /\ r \in Secret!CallRecords /\ r.kind = "reveal" /\ r.secret = s3[c].secret /\ r.old = s3[c].old
        /\ r.secret \in s4 /\ r.at \in {"ok", "error"}
    BY <1>5, <1>t DEF Secret!Reveal, Secret!Sound, Secret!CallRecords, Secret!Answers
  <2>4. /\ s4 \subseteq s4' /\ s5 \subseteq s5'
        /\ s1' = s \/ s1' = Secret!None
    BY <2>1 DEF Secret!SetWebhookSecretEnc
  <2>5. Secret!None \notin s4
    BY SecretAssumption DEF Secret!IInv, Secret!StoredIsFresh
  <2>6. s2' \subseteq Secrets \union {Secret!None}
    BY <1>5, <1>t, <1>a DEF Secret!Reveal, Secret!Sound, Secret!CallRecords
  <2>7. s3' = [d \in Requests |-> IF d = c THEN r ELSE [s3[d] EXCEPT !.alone = FALSE]]
    BY <2>2
  <2> HIDE DEF r
  <2>8. Secret!Sound(r, s1', s4', s5')
    BY <1>t, <2>3, <2>4, <2>5 DEF Secret!Sound
  <2>9. QED
    BY <2>1, <2>6, <2>7, <2>8, SecretCallWrites
<1>6. ASSUME NEW c \in Requests, Secret!Rotate(c) PROVE Secret!IInv'
  <2>1. PICK s \in Secrets \ s4 :
          /\ Secret!SetWebhookSecretEnc(s)
          /\ \/ /\ s2' = IF s1 = Secret!None THEN s2 ELSE s2 \union {s}
                /\ s3' = [d \in Requests |->
                     IF d = c
                     THEN [s3[c] EXCEPT !.at = IF s1 = Secret!None THEN "not found" ELSE "ok",
                                          !.secret = s]
                     ELSE [s3[d] EXCEPT !.alone = FALSE]]
             \/ /\ s3' = [d \in Requests |->
                     IF d = c THEN [s3[c] EXCEPT !.at = "error"]
                              ELSE [s3[d] EXCEPT !.alone = FALSE]]
                /\ UNCHANGED s2
    BY <1>6 DEF Secret!Rotate
  <2>2. s3[c].kind = "rotate" /\ s3[c] \in Secret!CallRecords
    BY <1>6, <1>t DEF Secret!Rotate, Secret!Sound
  <2>3. PICK r \in {[s3[c] EXCEPT !.at = "error"],
                    [s3[c] EXCEPT !.at = IF s1 = Secret!None THEN "not found" ELSE "ok",
                                    !.secret = s]} :
          s3' = [d \in Requests |-> IF d = c THEN r ELSE [s3[d] EXCEPT !.alone = FALSE]]
    BY <2>1
  <2>4. /\ r \in Secret!CallRecords /\ r.kind = "rotate" /\ r.old = s3[c].old
        /\ r.at \in {"ok", "error", "not found"}
        /\ r.at = "ok" => r.secret = s /\ s1 # Secret!None
    BY <2>2, <2>3 DEF Secret!CallRecords, Secret!Answers
  <2>5. /\ s5 \subseteq s5'
        /\ s1 # Secret!None => s1' = s
    BY <2>1 DEF Secret!SetWebhookSecretEnc
  <2>6. Secret!Sound(r, s1', s4', s5')
    BY <1>t, <2>4, <2>5 DEF Secret!Sound
  <2>7. s2' \subseteq Secrets \union {Secret!None}
    BY <2>1, <1>a
  <2>8. QED
    BY <2>1, <2>3, <2>6, <2>7, SecretCallWrites
<1>7. ASSUME NEW c \in Requests, Secret!CheckRateLimit(c) PROVE Secret!IInv'
  <2>1. PICK at \in {"bad request", "rate limited", "verify"} : Secret!Goto(c, at)
    BY <1>7 DEF Secret!CheckRateLimit
  <2>2. Secret!Sound([s3[c] EXCEPT !.at = at], s1, s4, s5)
    BY <1>7, <1>t
       DEF Secret!CheckRateLimit, Secret!Sound, Secret!CallRecords, Secret!Answers,
           Secret!Awaits
  <2>3. QED
    BY <1>7, <1>g, <2>1, <2>2 DEF Secret!CheckRateLimit, Secret!Answers, Secret!Awaits
<1>8. ASSUME NEW c \in Requests, Secret!VerifyHmac(c) PROVE Secret!IInv'
  <2> s3[c].kind = "deliver"
    BY <1>8, <1>t DEF Secret!VerifyHmac, Secret!Sound
  <2>1. PICK at \in {"ok", "unauthorized"} :
          Secret!Goto(c, at) /\ (at = "ok" => s1 # Secret!None /\ s3[c].secret = s1)
    BY <1>8 DEF Secret!VerifyHmac
  <2>2. s1 # Secret!None => s1 \notin s5
    BY DEF Secret!IInv, Secret!StoredIsFresh
  <2>3. Secret!Sound([s3[c] EXCEPT !.at = at], s1, s4, s5)
    BY <1>8, <1>t, <2>1, <2>2 DEF Secret!Sound, Secret!CallRecords, Secret!Answers
  <2>4. QED
    BY <1>8, <1>g, <2>1, <2>3 DEF Secret!VerifyHmac, Secret!Answers
<1>9. ASSUME NEW c \in Requests, Secret!Fails(c) PROVE Secret!IInv'
  <2>1. Secret!Sound([s3[c] EXCEPT !.at = "error"], s1, s4, s5)
    BY <1>t DEF Secret!Sound, Secret!CallRecords, Secret!Answers
  <2>2. QED
    BY <1>9, <1>g, <2>1 DEF Secret!Fails, Secret!Answers
<1>10. CASE UNCHANGED Secret!vars
  BY <1>10 DEF Secret!vars, Secret!IInv, Secret!StoredIsFresh
<1>11. QED
  BY <1>1, <1>3, <1>4, <1>5, <1>6, <1>7, <1>8, <1>9, <1>10 DEF Secret!Next, Secret!Step

\* Deliveries, reveal and rotate agree about which secret opens the door: one
\* that was replaced does not, a revealed one is replaced by then, and a rotated
\* one is stored, whatever overlaps, is lost or is deleted.
THEOREM SecretsStayRetired == ServerSpec => []SecretsAreRetired
<1> DEFINE Holds == part = "secret" => Secret!IInv
<1>1. ServerInit => Holds
  BY SecretInit DEF ServerInit
<1>2. Holds /\ [ServerNext]_<<part, vars, state>> => Holds'
  BY SecretStep DEF ServerNext, state, Secret!vars
<1>3. Holds => SecretsAreRetired
  BY DEF SecretsAreRetired, Secret!IInv, Secret!Sound, Secret!RetiredSecretsRefused,
         Secret!RevealRetires, Secret!RotatedSecretWorks
<1> QED
  BY <1>1, <1>2, <1>3, PTL DEF ServerSpec

-----------------------------------------------------------------------------
(* Contexts and their pools: s1 is context, s2 session and s3 job.  A         *)
(* connection is one job's at a time, and from BEGIN to the statement its     *)
(* claim is that job's actor.                                                 *)

USE DEF Pools!Claims

LEMMA ContextsInit == ASSUME Pools!Init PROVE Pools!IInv
<1>1. Pools!TypeOK /\ \A x \in Contexts, j \in Jobs : s3[x][j] = Pools!NoJob
  BY DEF Pools!Init, Pools!TypeOK, Pools!Sessions, Pools!JobRecords, Pools!Closed,
         Pools!NoJob
<1>2. \A x \in Contexts, j \in Jobs : Pools!Fits(x, s3[x][j], s2)
  BY <1>1 DEF Pools!Fits, Pools!NoJob, Pools!JobRecords
<1>3. Pools!OneJobEach /\ Pools!ClaimsEnd
  BY <1>1 DEF Pools!Init, Pools!OneJobEach, Pools!ClaimsEnd, Pools!NoJob, Pools!Closed
<1>4. QED
  BY <1>1, <1>2, <1>3 DEF Pools!IInv

\* One job moves on to r, with changes to its own connection or an idle one.
LEMMA OneJobMoves ==
    ASSUME Pools!IInv, NEW x \in Contexts, NEW j \in Jobs, NEW r,
           s3' = [s3 EXCEPT ![x][j] = r], UNCHANGED s1,
           s2' \in [Connections -> Pools!Sessions],
           Pools!Fits(x, r, s2'),
           \A s \in r.on : s \in s3[x][j].on \/ ~s2[s].busy,
           \A s \in Connections : s \notin s3[x][j].on \union r.on => s2'[s] = s2[s],
           Pools!ClaimsEnd'
    PROVE  Pools!IInv'
<1>1. /\ s3'[x][j] = r
      /\ \A y \in Contexts, k \in Jobs : (y # x \/ k # j) => s3'[y][k] = s3[y][k]
  BY DEF Pools!IInv, Pools!TypeOK
<1>2. Pools!TypeOK'
  BY DEF Pools!IInv, Pools!TypeOK, Pools!Fits
<1>3. ASSUME NEW y \in Contexts, NEW k \in Jobs, y # x \/ k # j
      PROVE  /\ s3'[y][k] = s3[y][k]
             /\ \A s \in s3[y][k].on : /\ s \in Connections /\ s \notin s3[x][j].on \union r.on
                                       /\ s2'[s] = s2[s]
  <2>1. s3[y][k].on \cap s3[x][j].on = {}
    BY <1>3 DEF Pools!IInv, Pools!OneJobEach
  <2>2. \A s \in s3[y][k].on : s \in Connections /\ s2[s].busy
    BY DEF Pools!IInv, Pools!Fits, Pools!JobRecords
  <2>3. QED
    BY <1>1, <1>3, <2>1, <2>2
<1>4. ASSUME NEW y \in Contexts, NEW k \in Jobs PROVE Pools!Fits(y, s3'[y][k], s2')
  <2>1. CASE y = x /\ k = j
    BY <1>1, <2>1
  <2>2. CASE y # x \/ k # j
    BY <1>3, <2>2 DEF Pools!IInv, Pools!Fits
  <2>3. QED
    BY <2>1, <2>2
<1>5. Pools!OneJobEach'
  BY <1>1, <1>3 DEF Pools!IInv, Pools!OneJobEach
<1>6. QED
  BY <1>2, <1>4, <1>5 DEF Pools!IInv, Pools!Fits

\* No job moves, and no connection that one has changes.
LEMMA NoJobMoves ==
    ASSUME Pools!IInv, UNCHANGED s3, s2' \in [Connections -> Pools!Sessions],
           s1' \in [Contexts -> Pools!Claims],
           \A x \in Contexts : s1'[x] = s1[x] \/ s1[x] = Pools!Unmade,
           \A s \in Connections : s2[s].busy => s2'[s] = s2[s],
           Pools!ClaimsEnd'
    PROVE  Pools!IInv'
<1>1. ASSUME NEW x \in Contexts, NEW j \in Jobs PROVE Pools!Fits(x, s3[x][j], s2)'
  <2>1. Pools!Fits(x, s3[x][j], s2)
    BY DEF Pools!IInv
  <2>2. \A s \in s3[x][j].on : s \in Connections /\ s2'[s] = s2[s]
    BY <2>1 DEF Pools!Fits, Pools!JobRecords
  <2>3. CASE s1'[x] = s1[x]
    BY <2>1, <2>2, <2>3 DEF Pools!Fits
  <2>4. CASE s1[x] = Pools!Unmade
    BY <2>1, <2>4 DEF Pools!Fits, Pools!NoJob
  <2>5. QED
    BY <2>3, <2>4
<1>2. Pools!TypeOK' /\ Pools!OneJobEach'
  BY DEF Pools!IInv, Pools!TypeOK, Pools!OneJobEach
<1>3. QED
  BY <1>1, <1>2 DEF Pools!IInv

LEMMA ContextsStep == Pools!IInv /\ [Pools!Next]_(Pools!vars) => Pools!IInv'
<1> SUFFICES ASSUME Pools!IInv, [Pools!Next]_(Pools!vars) PROVE Pools!IInv'
  OBVIOUS
<1>t. /\ s1 \in [Contexts -> Pools!Claims]
      /\ s2 \in [Connections -> Pools!Sessions]
      /\ Pools!ClaimsEnd
      /\ \A x \in Contexts, j \in Jobs :
           Pools!Fits(x, s3[x][j], s2) /\ s3[x][j] \in Pools!JobRecords
  BY DEF Pools!IInv, Pools!Fits, Pools!TypeOK
<1>1. ASSUME NEW x \in Contexts, Pools!CreateService(x) PROVE Pools!IInv'
  BY <1>1, <1>t, NoJobMoves DEF Pools!CreateService, Pools!ClaimsEnd
<1>2. ASSUME NEW x \in Contexts, Pools!CreateMember(x) PROVE Pools!IInv'
  <2>1. PICK s \in Connections : s2[s] = Pools!Closed /\ s2' = [s2 EXCEPT ![s].pool = x]
    BY <1>2 DEF Pools!CreateMember
  <2>2. s2' \in [Connections -> Pools!Sessions]
    BY <1>t, <2>1 DEF Pools!Sessions
  <2>3. Pools!ClaimsEnd'
    BY <1>t, <2>1 DEF Pools!ClaimsEnd, Pools!Sessions, Pools!Closed
  <2>4. \A u \in Connections : s2[u].busy => s2'[u] = s2[u]
    BY <1>t, <2>1 DEF Pools!Closed, Pools!Sessions
  <2>5. /\ s1' \in [Contexts -> Pools!Claims]
        /\ \A y \in Contexts : s1'[y] = s1[y] \/ s1[y] = Pools!Unmade
    BY <1>2, <1>t DEF Pools!CreateMember
  <2>6. QED
    BY <1>2, <2>2, <2>3, <2>4, <2>5, NoJobMoves DEF Pools!CreateMember
<1>3. ASSUME NEW x \in Contexts, NEW s \in Connections, Pools!IdleTimeout(x, s)
      PROVE  Pools!IInv'
  <2>1. ~s2[s].busy /\ s2' = [s2 EXCEPT ![s] = Pools!Closed]
    BY <1>3 DEF Pools!IdleTimeout, Pools!Idle, Pools!InPool
  <2>2. s2' \in [Connections -> Pools!Sessions] /\ Pools!ClaimsEnd'
    BY <1>t, <2>1 DEF Pools!Sessions, Pools!Closed, Pools!ClaimsEnd
  <2>3. \A u \in Connections : s2[u].busy => s2'[u] = s2[u]
    BY <1>t, <2>1
  <2>4. QED
    BY <1>3, <1>t, <2>2, <2>3, NoJobMoves DEF Pools!IdleTimeout
<1>4. ASSUME NEW x \in Contexts, NEW j \in Jobs, Pools!Start(x, j) PROVE Pools!IInv'
  <2>1. PICK via \in {"db", "run", "transaction"} :
          s3' = [s3 EXCEPT ![x][j] = [Pools!NoJob EXCEPT !.via = via, !.at = "wait"]]
    BY <1>4 DEF Pools!Start
  <2> DEFINE r == [Pools!NoJob EXCEPT !.via = via, !.at = "wait"]
  <2>2. r \in Pools!JobRecords /\ r.on = {} /\ r.saw = {}
    BY DEF Pools!NoJob, Pools!JobRecords
  <2>3. s3' = [s3 EXCEPT ![x][j] = r]
    BY <2>1
  <2> HIDE DEF r
  <2>4. Pools!Fits(x, r, s2')
    BY <1>4, <2>2 DEF Pools!Start, Pools!Fits
  <2>5. Pools!ClaimsEnd' /\ s2' \in [Connections -> Pools!Sessions]
    BY <1>4, <1>t DEF Pools!Start, Pools!ClaimsEnd
  <2>6. QED
    BY <1>4, <2>2, <2>3, <2>4, <2>5, OneJobMoves DEF Pools!Start
<1>5. ASSUME NEW x \in Contexts, NEW j \in Jobs, Pools!Acquire(x, j) PROVE Pools!IInv'
  <2>1. PICK s \in Connections :
          /\ s \in Pools!Idle(x) \/ s2[s] = Pools!Closed
          /\ s2' = [s2 EXCEPT ![s].pool = x, ![s].busy = TRUE]
          /\ s3' = [s3 EXCEPT ![x][j].at = "connected", ![x][j].on = {s}]
    BY <1>5 DEF Pools!Acquire
  <2>idle. ~s2[s].busy /\ s2[s].claim = Pools!Nobody
    BY <1>t, <2>1 DEF Pools!Idle, Pools!InPool, Pools!Closed, Pools!ClaimsEnd
  <2> DEFINE r == [s3[x][j] EXCEPT !.at = "connected", !.on = {s}]
  <2>2. /\ r \in Pools!JobRecords /\ r.on = {s} /\ r.at = "connected" /\ r.saw = s3[x][j].saw
        /\ r.via = s3[x][j].via
    BY <1>t DEF Pools!JobRecords
  <2>3. s3' = [s3 EXCEPT ![x][j] = r]
    BY <2>1
  <2> HIDE DEF r
  <2>4. /\ s2' \in [Connections -> Pools!Sessions]
        /\ s2'[s].busy /\ s2'[s].claim = Pools!Nobody
        /\ \A u \in Connections : u # s => s2'[u] = s2[u]
    BY <1>t, <2>1, <2>idle DEF Pools!Sessions
  <2>5. s1[x] # Pools!Unmade
    BY <1>5, <1>t DEF Pools!Acquire, Pools!Fits, Pools!NoJob
  <2>6. Pools!Fits(x, r, s2')
    BY <1>5, <1>t, <2>2, <2>4, <2>5 DEF Pools!Acquire, Pools!Fits
  <2>7. Pools!ClaimsEnd'
    BY <1>t, <2>4 DEF Pools!ClaimsEnd
  <2>8. QED
    BY <1>5, <2>2, <2>3, <2>4, <2>6, <2>7, <2>idle, OneJobMoves DEF Pools!Acquire
<1>6. ASSUME NEW x \in Contexts, NEW j \in Jobs,
             Pools!TooMany(x, j) \/ Pools!ConnectTimeout(x, j) PROVE Pools!IInv'
  <2> DEFINE r == [s3[x][j] EXCEPT !.at = "failed"]
  <2>1. s3[x][j].at = "wait" /\ s3' = [s3 EXCEPT ![x][j] = r] /\ UNCHANGED <<s1, s2>>
    BY <1>6 DEF Pools!TooMany, Pools!ConnectTimeout
  <2>2. s3[x][j].on = {} /\ s1[x] # Pools!Unmade
    BY <1>t, <2>1 DEF Pools!Fits, Pools!NoJob
  <2>3. /\ r \in Pools!JobRecords /\ r.on = {} /\ r.saw = s3[x][j].saw /\ r.via = s3[x][j].via
    BY <1>t, <2>2 DEF Pools!JobRecords
  <2> HIDE DEF r
  <2>4. Pools!Fits(x, r, s2')
    BY <1>t, <2>1, <2>2, <2>3 DEF Pools!Fits
  <2>5. QED
    BY <1>t, <2>1, <2>3, <2>4, OneJobMoves DEF Pools!ClaimsEnd
<1>7. ASSUME NEW x \in Contexts, NEW j \in Jobs, NEW s \in Connections,
             Pools!Begin(x, j, s) PROVE Pools!IInv'
  <2> DEFINE r == [s3[x][j] EXCEPT !.at = "begun"]
  <2>1. /\ s3[x][j].on = {s} /\ s3' = [s3 EXCEPT ![x][j] = r] /\ UNCHANGED s1
        /\ s2' = [s2 EXCEPT ![s].claim = s1[x]]
    BY <1>7 DEF Pools!Begin
  <2>2. s2[s].busy /\ s1[x] # Pools!Unmade
    BY <1>t, <2>1 DEF Pools!Fits, Pools!NoJob
  <2>3. /\ r \in Pools!JobRecords /\ r.on = {s} /\ r.at = "begun" /\ r.saw = s3[x][j].saw
        /\ r.via = s3[x][j].via
    BY <1>t, <2>1 DEF Pools!JobRecords
  <2> HIDE DEF r
  <2>4. /\ s2' \in [Connections -> Pools!Sessions]
        /\ s2'[s].busy /\ s2'[s].claim = s1[x]
        /\ \A u \in Connections : u # s => s2'[u] = s2[u]
    BY <1>t, <2>1, <2>2 DEF Pools!Sessions
  <2>5. Pools!Fits(x, r, s2')
    BY <1>t, <2>1, <2>2, <2>3, <2>4 DEF Pools!Fits
  <2>6. Pools!ClaimsEnd'
    BY <1>t, <2>4 DEF Pools!ClaimsEnd
  <2>7. QED
    BY <2>1, <2>3, <2>4, <2>5, <2>6, OneJobMoves
<1>8. ASSUME NEW x \in Contexts, NEW j \in Jobs, NEW s \in Connections,
             Pools!Statement(x, j, s) PROVE Pools!IInv'
  <2> DEFINE r == [s3[x][j] EXCEPT !.at = "answered", !.saw = {s2[s].claim}]
  <2>1. /\ s3[x][j].on = {s} /\ s3' = [s3 EXCEPT ![x][j] = r] /\ UNCHANGED <<s1, s2>>
        /\ s3[x][j].at = IF Pools!Transacts(x, j) THEN "begun" ELSE "connected"
    BY <1>8 DEF Pools!Statement
  <2>2. /\ s2[s].busy /\ s1[x] # Pools!Unmade
        /\ s2[s].claim = IF Pools!Transacts(x, j) THEN s1[x] ELSE Pools!Nobody
    BY <1>t, <2>1 DEF Pools!Fits, Pools!NoJob
  <2>3. /\ r \in Pools!JobRecords /\ r.on = {s} /\ r.at = "answered" /\ r.saw = {s2[s].claim}
        /\ r.via = s3[x][j].via
    BY <1>t, <2>1 DEF Pools!JobRecords, Pools!Sessions
  <2> HIDE DEF r
  <2>4. Pools!Fits(x, r, s2')
    BY <1>t, <2>1, <2>2, <2>3 DEF Pools!Fits, Pools!Transacts
  <2>5. QED
    BY <1>t, <2>1, <2>3, <2>4, OneJobMoves DEF Pools!ClaimsEnd
<1>9. ASSUME NEW x \in Contexts, NEW j \in Jobs, NEW s \in Connections,
             Pools!End(x, j, s) PROVE Pools!IInv'
  <2>1. PICK result \in {"done", "failed"} :
          s3' = [s3 EXCEPT ![x][j].at = result, ![x][j].on = {}]
    BY <1>9 DEF Pools!End
  <2> DEFINE r == [s3[x][j] EXCEPT !.at = result, !.on = {}]
  <2>moves. s3' = [s3 EXCEPT ![x][j] = r]
    BY <2>1
  <2>2. /\ s3[x][j].on = {s} /\ s3' = [s3 EXCEPT ![x][j] = r] /\ UNCHANGED s1
        /\ s2' = [s2 EXCEPT ![s].busy = FALSE, ![s].claim = Pools!Nobody]
    BY <1>9, <2>moves DEF Pools!End
  <2>3. s1[x] # Pools!Unmade
    BY <1>t, <2>2 DEF Pools!Fits, Pools!NoJob
  <2>4. r \in Pools!JobRecords /\ r.on = {} /\ r.saw = s3[x][j].saw /\ r.via = s3[x][j].via
    BY <1>t DEF Pools!JobRecords
  <2> HIDE DEF r
  <2>5. /\ s2' \in [Connections -> Pools!Sessions]
        /\ s2'[s].claim = Pools!Nobody
        /\ \A u \in Connections : u # s => s2'[u] = s2[u]
    BY <1>t, <2>2 DEF Pools!Sessions
  <2>6. Pools!Fits(x, r, s2')
    BY <1>t, <2>2, <2>3, <2>4 DEF Pools!Fits
  <2>7. Pools!ClaimsEnd'
    BY <1>t, <2>5 DEF Pools!ClaimsEnd
  <2>8. QED
    BY <2>2, <2>4, <2>5, <2>6, <2>7, OneJobMoves
<1>10. CASE UNCHANGED Pools!vars
  BY <1>10, <1>t, NoJobMoves DEF Pools!vars, Pools!ClaimsEnd
<1>11. QED
  BY <1>1, <1>2, <1>3, <1>4, <1>5, <1>6, <1>7, <1>8, <1>9, <1>10 DEF Pools!Next

\* createDbContext keeps its promise for run() and transaction(): a member's work
\* sees his claim and no other work sees any, on whichever pooled connection it
\* runs, and the connection goes back without one.
THEOREM ClaimsStayLocal == ServerSpec => []ClaimsAreLocal
<1> DEFINE Holds == part = "contexts" => Pools!IInv
<1>1. ServerInit => Holds
  BY ContextsInit DEF ServerInit
<1>2. Holds /\ [ServerNext]_<<part, vars, state>> => Holds'
  BY ContextsStep DEF ServerNext, state, Pools!vars
<1>3. Holds => ClaimsAreLocal
  BY DEF ClaimsAreLocal, Pools!IInv, Pools!Fits, Pools!ActsForItsActor, Pools!Transacts
<1> QED
  BY <1>1, <1>2, <1>3, PTL DEF ServerSpec

HIDE DEF Pools!Claims

-----------------------------------------------------------------------------
(* The bootstrap: s1 is functions, s2 existing, s3 status, s4 granted, s5     *)
(* cached, s6 offered and s7 call.  The argument follows one request from its *)
(* RPC to its mark: the helper that the RPC found or installed is never       *)
(* removed again, and as long as nothing moved under the request, the tables  *)
(* it read are the cached ones and what it GRANTed stays granted.             *)

USE DEF Boot!Kinds, Boot!Answers, Boot!Modes, Boot!Awaits, Boot!CallRecords,
        Boot!Readiness!Functions,
        Boot!Readiness!SetupFunctions

LEMMA BootstrapInit == Boot!Init => Boot!IInv
BY DEF Boot!Init, Boot!Readiness!Init, Boot!IInv, Boot!TypeOK, Boot!BootstrapHasHelper,
       Boot!MarkHasHelper, Boot!QuietTables,
       Boot!ReadyAnswerMeansGranted

\* What a request that moves on without touching Target or Meta has to keep.
LEMMA BootCallMoves ==
    ASSUME Boot!IInv, NEW c \in Requests, NEW r \in Boot!CallRecords,
           s7' = [s7 EXCEPT ![c] = r],
           UNCHANGED <<Boot!targetVars, Boot!metaVars>>,
              s6' \subseteq SUBSET BootTables,
           r.at # "mark",
           r.quiet => /\ r.at \in {"rpc", "legacy", "run"} => r.tables = s5
                      /\ r.kind # "probe" => r.at # "ready"
    PROVE  Boot!IInv'
<1>1. s7'[c] = r /\ \A d \in Requests : d # c => s7'[d] = s7[d]
  BY DEF Boot!IInv, Boot!TypeOK
<1>2. Boot!TypeOK'
  BY DEF Boot!IInv, Boot!TypeOK, Boot!targetVars, Boot!metaVars
<1>3. Boot!BootstrapHasHelper' /\ Boot!MarkHasHelper'
  BY <1>1 DEF Boot!IInv, Boot!BootstrapHasHelper, Boot!MarkHasHelper, Boot!targetVars,
              Boot!metaVars
<1>4. Boot!QuietTables'
  BY <1>1 DEF Boot!IInv, Boot!QuietTables, Boot!targetVars, Boot!metaVars
<1>5. Boot!ReadyAnswerMeansGranted'
  BY <1>1 DEF Boot!IInv, Boot!ReadyAnswerMeansGranted, Boot!targetVars, Boot!metaVars
<1>6. QED
  BY <1>2, <1>3, <1>4, <1>5 DEF Boot!IInv

\* A disturbance leaves nothing to show of any request.
LEMMA DisturbedCalls ==
    ASSUME Boot!IInv, Boot!Disturb
    PROVE  /\ s7' \in [Requests -> Boot!CallRecords]
           /\ \A c \in Requests : ~s7'[c].quiet /\ s7'[c].at = s7[c].at
<1>1. \A c \in Requests : /\ s7'[c] = [s7[c] EXCEPT !.quiet = FALSE]
                      /\ s7[c] \in Boot!CallRecords
  BY DEF Boot!IInv, Boot!TypeOK, Boot!Disturb
<1>2. \A c \in Requests : /\ s7'[c] \in Boot!CallRecords
                      /\ ~s7'[c].quiet /\ s7'[c].at = s7[c].at
  BY <1>1
<1>3. QED
  BY <1>2 DEF Boot!Disturb

\* Every step keeps the invariant.
LEMMA BootstrapStep == Boot!IInv /\ [Boot!Next]_(Boot!bootVars) => Boot!IInv'
<1> SUFFICES ASSUME Boot!IInv, [Boot!Next]_(Boot!bootVars) PROVE Boot!IInv'
  OBVIOUS
<1> USE DEF Boot!IInv, Boot!TypeOK, Boot!BootstrapHasHelper, Boot!MarkHasHelper,
            Boot!QuietTables,
            Boot!ReadyAnswerMeansGranted, Boot!targetVars, Boot!metaVars, Boot!Disturb, Boot!Update, Boot!Goto
<1>1. CASE Boot!RunManualSetup
  BY <1>1 DEF Boot!RunManualSetup
<1>2. CASE Boot!RunMigration
  BY <1>2 DEF Boot!RunMigration
<1>3. ASSUME NEW t \in BootTables, Boot!DropTable(t) PROVE Boot!IInv'
  <2>1. /\ s7' \in [Requests -> Boot!CallRecords]
        /\ \A c \in Requests : ~s7'[c].quiet /\ s7'[c].at = s7[c].at
    BY <1>3, DisturbedCalls DEF Boot!DropTable
  <2>2. QED
    BY <1>3, <2>1 DEF Boot!DropTable
<1>4. ASSUME NEW t \in BootTables, Boot!CreateTable(t) PROVE Boot!IInv'
  BY <1>4 DEF Boot!CreateTable
<1>5. CASE Boot!SyncSchema
  <2>1. /\ s7' \in [Requests -> Boot!CallRecords]
        /\ \A c \in Requests : ~s7'[c].quiet /\ s7'[c].at = s7[c].at
    BY <1>5, DisturbedCalls DEF Boot!SyncSchema
  <2>2. QED
    BY <1>5, <2>1 DEF Boot!SyncSchema
<1>6. ASSUME NEW c \in Requests, Boot!Start(c) PROVE Boot!IInv'
  BY <1>6 DEF Boot!Start
<1>7. ASSUME NEW c \in Requests, Boot!GetTableNames(c) PROVE Boot!IInv'
  <2> DEFINE read == [s7[c] EXCEPT !.at = "rpc", !.tables = s5]
             unread == [s7[c] EXCEPT !.at = "rpc", !.tables = {}, !.quiet = FALSE]
  <2>1. /\ read \in Boot!CallRecords /\ read.at = "rpc" /\ read.tables = s5
        /\ unread \in Boot!CallRecords /\ unread.at = "rpc" /\ ~unread.quiet
    OBVIOUS
  <2>2. /\ s7' = [s7 EXCEPT ![c] = read] \/ s7' = [s7 EXCEPT ![c] = unread]
        /\ UNCHANGED <<Boot!targetVars, Boot!metaVars, s6>>
    BY <1>7 DEF Boot!GetTableNames
  <2> HIDE DEF read, unread
  <2>3. QED
    BY <2>1, <2>2, BootCallMoves
<1>8. ASSUME NEW c \in Requests, NEW mode \in Boot!Modes, Boot!Probed(c, mode),
             s7[c].at \in {"rpc", "legacy"}, UNCHANGED <<Boot!targetVars, Boot!metaVars>>
      PROVE  Boot!IInv'
  <2>1. s7[c] \in Boot!CallRecords
    OBVIOUS
  <2>2. CASE mode = "none"
    <3>1. [s7[c] EXCEPT !.at = Boot!Refused(c)] \in Boot!CallRecords
      BY <2>1 DEF Boot!Refused
    <3>2. s7' = [s7 EXCEPT ![c] = [s7[c] EXCEPT !.at = Boot!Refused(c)]]
      BY <1>8, <2>1, <2>2 DEF Boot!Probed
    <3>3. s6' \subseteq SUBSET BootTables
      BY <1>8, <2>1, <2>2 DEF Boot!Probed
    <3>4. Boot!Refused(c) \in Boot!Answers /\ (s7[c].kind # "probe" => Boot!Refused(c) = "error")
      BY DEF Boot!Refused
    <3>5. QED
      BY <1>8, <2>1, <3>1, <3>2, <3>3, <3>4, BootCallMoves
  <2>3. CASE mode # "none" /\ s7[c].stage = "checking"
    <3> DEFINE r == [s7[c] EXCEPT !.at = "list", !.stage = "executing"]
    <3>1. r \in Boot!CallRecords /\ r.at = "list"
      BY <2>1
    <3>2. s7' = [s7 EXCEPT ![c] = r] /\ UNCHANGED s6
      BY <1>8, <2>3 DEF Boot!Probed
    <3> HIDE DEF r
    <3>3. QED
      BY <1>8, <3>1, <3>2, BootCallMoves
  <2>4. CASE mode # "none" /\ s7[c].stage # "checking"
    <3> DEFINE r == [s7[c] EXCEPT !.at = "run", !.mode = mode]
    <3>1. r \in Boot!CallRecords /\ r.at = "run" /\ r.quiet = s7[c].quiet /\ r.tables = s7[c].tables
      BY <2>1
    <3>2. s7' = [s7 EXCEPT ![c] = r] /\ UNCHANGED s6
      BY <1>8, <2>4 DEF Boot!Probed
    <3>3. r.quiet => r.tables = s5
      BY <1>8, <3>1
    <3> HIDE DEF r
    <3>4. QED
      BY <1>8, <3>1, <3>2, <3>3, BootCallMoves
  <2>5. QED
    BY <2>2, <2>3, <2>4
<1>9. ASSUME NEW c \in Requests, Boot!ProbeBootstrap(c) \/ Boot!ProbeExecSql(c)
      PROVE  Boot!IInv'
  <2>1. CASE \E mode \in Boot!Modes : Boot!Probed(c, mode)
    BY <1>8, <1>9, <2>1 DEF Boot!ProbeBootstrap, Boot!ProbeExecSql
  <2>2. CASE s7[c].at = "rpc" /\ Boot!Goto(c, "legacy") /\ UNCHANGED s6
    <3>1. s7[c] \in Boot!CallRecords
      OBVIOUS
    <3>2. s7' = [s7 EXCEPT ![c] = [s7[c] EXCEPT !.at = "legacy"]]
      BY <2>2
    <3>3. QED
      BY <1>9, <2>2, <3>1, <3>2, BootCallMoves
         DEF Boot!ProbeBootstrap, Boot!ProbeExecSql
  <2>3. QED
    BY <1>9, <2>1, <2>2 DEF Boot!ProbeBootstrap, Boot!ProbeExecSql
<1>10. ASSUME NEW c \in Requests, Boot!Run(c) PROVE Boot!IInv'
  BY <1>10 DEF Boot!Run, Boot!Install, Boot!Refused
<1>11. ASSUME NEW c \in Requests, Boot!RunFails(c) PROVE Boot!IInv'
  BY <1>11 DEF Boot!RunFails, Boot!Refused
<1>12. ASSUME NEW c \in Requests, Boot!MarkBootstrapReady(c) PROVE Boot!IInv'
  BY <1>12 DEF Boot!MarkBootstrapReady
<1>13. CASE UNCHANGED Boot!bootVars
  BY <1>13 DEF Boot!bootVars
<1>14. QED
  BY <1>1, <1>2, <1>3, <1>4, <1>5, <1>6, <1>7, <1>9, <1>10, <1>11, <1>12, <1>13
     DEF Boot!Next, Boot!Owner, Boot!Step

\* Every step is one of TargetReadiness or leaves what it speaks of alone.
LEMMA StepIsReadiness ==
    Boot!IInv /\ [Boot!Next]_(Boot!bootVars) => [Boot!Readiness!Next]_<<s1, s2, s3>>
<1> SUFFICES ASSUME Boot!IInv, Boot!Next
             PROVE  Boot!Readiness!Next \/ UNCHANGED Boot!Readiness!readinessVars
  BY DEF Boot!bootVars, Boot!targetVars, Boot!metaVars, Boot!Readiness!readinessVars
<1> USE DEF Boot!IInv, Boot!TypeOK, Boot!targetVars, Boot!metaVars,
            Boot!Readiness!readinessVars
<1>1. CASE Boot!RunManualSetup \/ Boot!RunMigration
  BY <1>1 DEF Boot!RunManualSetup, Boot!RunMigration, Boot!Readiness!Next,
              Boot!Readiness!Install
<1>2. ASSUME NEW t \in BootTables, Boot!DropTable(t) \/ Boot!CreateTable(t)
      PROVE  Boot!Readiness!Next
  BY <1>2 DEF Boot!DropTable, Boot!CreateTable, Boot!Readiness!Next,
              Boot!Readiness!DropTable, Boot!Readiness!CreateTable
<1>3. ASSUME NEW c \in Requests, Boot!Run(c)
      PROVE  Boot!Readiness!Next \/ UNCHANGED Boot!Readiness!readinessVars
  BY <1>3 DEF Boot!Run, Boot!Install, Boot!Readiness!Next, Boot!Readiness!Install
<1>4. ASSUME NEW c \in Requests, Boot!MarkBootstrapReady(c)
      PROVE  Boot!Readiness!Next \/ UNCHANGED Boot!Readiness!readinessVars
  BY <1>4 DEF Boot!MarkBootstrapReady, Boot!MarkHasHelper, Boot!Readiness!Next,
              Boot!Readiness!MarkReady
<1>5. CASE Boot!SyncSchema
  BY <1>5 DEF Boot!SyncSchema
<1>6. ASSUME NEW c \in Requests,
             \/ Boot!Start(c) \/ Boot!GetTableNames(c) \/ Boot!ProbeBootstrap(c)
                                 \/ Boot!ProbeExecSql(c) \/ Boot!RunFails(c)
      PROVE  UNCHANGED Boot!Readiness!readinessVars
  BY <1>6 DEF Boot!Start, Boot!GetTableNames, Boot!ProbeBootstrap, Boot!ProbeExecSql,
              Boot!RunFails
<1>7. QED
  BY <1>1, <1>2, <1>3, <1>4, <1>5, <1>6 DEF Boot!Next, Boot!Owner, Boot!Step

LEMMA BootstrapInvariant == ServerSpec => [](part = "bootstrap" => Boot!IInv)
<1> DEFINE Holds == part = "bootstrap" => Boot!IInv
<1>1. ServerInit => Holds
  BY BootstrapInit DEF ServerInit
<1>2. Holds /\ [ServerNext]_<<part, vars, state>> => Holds'
  BY BootstrapStep DEF ServerNext, state, Boot!bootVars, Boot!targetVars, Boot!metaVars
<1> QED
  BY <1>1, <1>2, PTL DEF ServerSpec

\* Bootstrap implements TargetReadiness: probe-connection-bootstrap.ts and
\* execute-bootstrap.ts mark a connection as ready only when the helper is
\* there, and nothing they or the setup SQL do takes it away.
THEOREM BootstrapImplementsReadiness == ServerSpec => ImplementsReadiness
<1> DEFINE Holds == part = "bootstrap" => Boot!IInv
<1>1. ServerInit => (part = "bootstrap" => Boot!Readiness!Init)
  BY DEF ServerInit, Boot!Init
<1>2. Holds /\ [ServerNext]_<<part, vars, state>>
        => [part = "bootstrap" => Boot!Readiness!Next]_<<s1, s2, s3>>
  BY StepIsReadiness DEF ServerNext, state
<1> QED
  BY <1>1, <1>2, BootstrapInvariant, PTL DEF ServerSpec, ImplementsReadiness

\* The answer "ready" of apply and verify is true of every table the application
\* knows of, unless something moved under the request.
THEOREM ReadyAnswersAreTrue == ServerSpec => []ReadyAnswerMeansGranted
<1>1. (part = "bootstrap" => Boot!IInv) => ReadyAnswerMeansGranted
  BY DEF ReadyAnswerMeansGranted, Boot!IInv
<1> QED
  BY <1>1, BootstrapInvariant, PTL

HIDE DEF Boot!Kinds, Boot!Answers, Boot!Modes, Boot!Awaits, Boot!CallRecords,
         Boot!Readiness!Functions, Boot!Readiness!SetupFunctions

-----------------------------------------------------------------------------
(* The rate limiter: s1 is now, s2 counter and s3 call.  As long as a counter *)
(* is there it counts those who were allowed in its window, and it is there   *)
(* until the window is over, unless whoever made it died before EXPIRE.       *)

LEMMA DivisionFacts ==
    ASSUME NEW a \in Int, NEW d \in Int, d > 0
    PROVE  a \div d \in Int /\ d * (a \div d) <= a /\ a < d * (a \div d) + d
OBVIOUS

LEMMA InWindow ==
    ASSUME NEW a \in Int, NEW d \in Int, d > 0, NEW b \in Int
    PROVE  /\ a \div d = b <=> d * b <= a /\ a < d * b + d
           /\ d * b + d <= a => a \div d > b
<1> DEFINE q == a \div d
<1>1. q \in Int /\ d * q <= a /\ a < d * q + d
  BY DivisionFacts
<1> HIDE DEF q
<1>2. CASE q < b
  <2>1. d * (q + 1) <= d * b
    BY <1>1, <1>2
  <2> QED
    BY <1>1, <1>2, <2>1 DEF q
<1>3. CASE q > b
  <2>1. d * (b + 1) <= d * q
    BY <1>1, <1>3
  <2> QED
    BY <1>1, <1>3, <2>1 DEF q
<1>4. CASE q = b
  BY <1>1, <1>4 DEF q
<1> QED
  BY <1>1, <1>2, <1>3, <1>4

\* The window of a time, and times a time has to be compared with.
LEMMA WindowTimes ==
    /\ Limiter!W \in Nat /\ Limiter!W > 0
    /\ Limiter!Windows \subseteq Nat
    /\ \A w \in Nat : w * Limiter!W \in Nat /\ Limiter!End(w) \in Nat /\ Limiter!End(w) = w * Limiter!W + Limiter!W
    /\ \A t \in Nat, w \in Nat :
         /\ t \div Limiter!W = w <=> w * Limiter!W <= t /\ t < Limiter!End(w)
         /\ Limiter!End(w) <= t => t \div Limiter!W > w
    /\ \A t \in 0..MaxTime : t \div Limiter!W \in Limiter!Windows /\ (t \div Limiter!W) * Limiter!W <= t
<1>1. Limiter!W \in Nat /\ Limiter!W > 0
  BY LimiterAssumption DEF Limiter!W
<1>2. \A t \in Nat, w \in Nat : /\ t \div Limiter!W = w <=> w * Limiter!W <= t /\ t < Limiter!End(w)
                                /\ Limiter!End(w) <= t => t \div Limiter!W > w
  BY <1>1, InWindow DEF Limiter!End
<1>3. \A w \in Nat : w * Limiter!W \in Nat /\ Limiter!End(w) \in Nat /\ Limiter!End(w) = w * Limiter!W + Limiter!W
  BY <1>1 DEF Limiter!End
<1>4. Limiter!Windows \subseteq Nat
  BY <1>1, LimiterAssumption DEF Limiter!Windows
<1>5. ASSUME NEW t \in 0..MaxTime
      PROVE  t \div Limiter!W \in Limiter!Windows /\ (t \div Limiter!W) * Limiter!W <= t
  <2> DEFINE q == t \div Limiter!W
             m == MaxTime \div Limiter!W
  <2>1. q \in Int /\ Limiter!W * q <= t /\ t < Limiter!W * q + Limiter!W
    BY <1>1, DivisionFacts
  <2>2. m \in Int /\ Limiter!W * m <= MaxTime /\ MaxTime < Limiter!W * m + Limiter!W
    BY <1>1, LimiterAssumption, DivisionFacts
  <2> HIDE DEF q, m
  <2>3. q * Limiter!W <= t
    BY <1>1, <2>1
  <2>4. q >= 0
    <3>1. SUFFICES ASSUME q + 1 <= 0 PROVE FALSE
      BY <2>1
    <3>2. Limiter!W * (q + 1) <= 0
      BY <1>1, <2>1, <3>1
    <3> QED
      BY <1>1, <2>1, <3>2
  <2>5. q <= m
    <3>1. SUFFICES ASSUME m + 1 <= q PROVE FALSE
      BY <2>1, <2>2
    <3>2. Limiter!W * (m + 1) <= Limiter!W * q
      BY <1>1, <2>1, <2>2, <3>1
    <3> QED
      BY <1>1, <2>1, <2>2, <3>2, LimiterAssumption
  <2> QED
    BY <2>1, <2>2, <2>3, <2>4, <2>5 DEF Limiter!Windows, q, m
<1> QED
  BY <1>1, <1>2, <1>3, <1>4, <1>5

LEMMA WindowEnds == \A w \in Limiter!Windows : /\ w \in Nat /\ w * Limiter!W \in Nat /\ Limiter!W \in Nat
                                               /\ Limiter!End(w) \in Nat /\ Limiter!End(w) = w * Limiter!W + Limiter!W
BY WindowTimes

\* Each phase of a call has its record.
LEMMA CounterPhases ==
    ASSUME NEW r \in Limiter!CallRecords
    PROVE  /\ r.at = "incr" => r \in [at : {"incr"}, bucket : Limiter!Windows]
           /\ r.at \in Limiter!Counted =>
                r \in [at : Limiter!Counted, bucket : Limiter!Windows, count : Nat \ {0}, time : Nat]
BY DEF Limiter!CallRecords, Limiter!Counted

LEMMA LimiterInit == Limiter!Init => Limiter!IInv
<1> SUFFICES ASSUME Limiter!Init PROVE Limiter!IInv
  OBVIOUS
<1>1. Limiter!TypeOK
  BY LimiterAssumption
     DEF Limiter!Init, Limiter!TypeOK, Limiter!CallRecords, Limiter!Gone
<1>2. \A c \in Limited : s3[c].at = "idle"
  BY DEF Limiter!Init
<1>3. \A w \in Limiter!Windows : Limiter!CounterLasts(w) /\ Limiter!CounterOutlives(w) /\ Limiter!ExpiryIsUnderWay(w)
  BY DEF Limiter!Init, Limiter!CounterLasts, Limiter!CounterOutlives,
         Limiter!ExpiryIsUnderWay, Limiter!Gone, Limiter!Never
<1> QED
  BY <1>1, <1>2, <1>3
     DEF Limiter!IInv, Limiter!Sound, Limiter!CountsDiffer, Limiter!Counted

\* A call moves on to r; it is no new one among those counted, and no counter
\* changes but for its expiry.
LEMMA LimiterCallMoves ==
    ASSUME Limiter!IInv, NEW c \in Limited, NEW r \in Limiter!CallRecords,
           s3' = [s3 EXCEPT ![c] = r],
           s1' = s1, s2' \in [Limiter!Windows -> [count : Nat, expires : Int]],
           \A w \in Limiter!Windows : /\ s2'[w].count = s2[w].count \/ Limiter!End(w) <= s1
                                      /\ Limiter!CounterLasts(w)' /\ Limiter!CounterOutlives(w)'
                                      /\ s2'[w] # Limiter!Gone /\ s2'[w].expires = Limiter!Never =>
                                           /\ s2[w] # Limiter!Gone /\ s2[w].expires = Limiter!Never
                                           /\ s3[c].at = "expire" /\ s3[c].bucket = w =>
                                                /\ r.at = "crashed" /\ r.bucket = w /\ r.left = "expire",
           s3[c].at # "crashed", Limiter!Sound(r, s1', s2'),
           r.at \in Limiter!Counted => /\ s3[c].at \in Limiter!Counted /\ r.bucket = s3[c].bucket
                                       /\ r.time = s3[c].time /\ r.count = s3[c].count
    PROVE  Limiter!IInv'
<1>1. /\ s3'[c] = r /\ s3' \in [Limited -> Limiter!CallRecords]
      /\ \A d \in Limited : d # c => s3'[d] = s3[d]
  BY DEF Limiter!IInv, Limiter!TypeOK
<1>2. Limiter!TypeOK'
  BY <1>1 DEF Limiter!IInv, Limiter!TypeOK
<1>3. ASSUME NEW w \in Limiter!Windows PROVE Limiter!ExpiryIsUnderWay(w)'
  BY <1>1 DEF Limiter!IInv, Limiter!ExpiryIsUnderWay
<1>4. ASSUME NEW d \in Limited PROVE Limiter!Sound(s3'[d], s1', s2')
  <2>1. CASE d = c
    BY <1>1, <2>1
  <2>2. CASE d # c
    <3>1. Limiter!Sound(s3[d], s1, s2) /\ s3'[d] = s3[d]
      BY <1>1, <2>2 DEF Limiter!IInv
    <3>2. s3[d].at \in Limiter!Counted => s3[d].bucket \in Limiter!Windows
      BY CounterPhases DEF Limiter!IInv, Limiter!TypeOK
    <3>3. s3[d].at \in Limiter!Counted /\ s1 < Limiter!End(s3[d].bucket) => 
            s2'[s3[d].bucket].count = s2[s3[d].bucket].count
      BY <3>2, WindowEnds DEF Limiter!IInv, Limiter!TypeOK
    <3> QED
      BY <3>1, <3>3 DEF Limiter!Sound
  <2> QED
    BY <2>1, <2>2
<1>5. Limiter!CountsDiffer'
  BY <1>1 DEF Limiter!IInv, Limiter!CountsDiffer
<1> QED
  BY <1>2, <1>3, <1>4, <1>5 DEF Limiter!IInv

LEMMA LimiterStep == Limiter!IInv /\ [Limiter!Next]_(Limiter!vars) => Limiter!IInv'
<1> SUFFICES ASSUME Limiter!IInv, [Limiter!Next]_(Limiter!vars) PROVE Limiter!IInv'
  OBVIOUS
<1>t. /\ Limiter!TypeOK /\ Limiter!CountsDiffer
      /\ \A c \in Limited : s3[c] \in Limiter!CallRecords /\ Limiter!Sound(s3[c], s1, s2)
      /\ \A w \in Limiter!Windows : /\ Limiter!CounterLasts(w) /\ Limiter!CounterOutlives(w) /\ Limiter!ExpiryIsUnderWay(w)
                                    /\ s2[w] \in [count : Nat, expires : Int]
      /\ s1 \in Nat
  BY DEF Limiter!IInv, Limiter!TypeOK
<1>w. ASSUME NEW w \in Limiter!Windows
      PROVE  /\ Limiter!Live(w) \in {Limiter!Gone, s2[w]}
             /\ s1 < Limiter!End(w) => Limiter!Live(w) = s2[w]
             /\ Limiter!Live(w).expires = Limiter!Never => Limiter!Live(w) = Limiter!Gone \/ Limiter!Live(w) = s2[w]
  BY <1>t, WindowEnds DEF Limiter!Live, Limiter!CounterOutlives, Limiter!Gone
<1>1. CASE Limiter!Tick
  <2>1. s1' = s1 + 1 /\ s1' \in 0..MaxTime /\ UNCHANGED <<s2, s3>>
    BY <1>1, <1>t, LimiterAssumption DEF Limiter!Tick, Limiter!TypeOK
  <2>2. ASSUME NEW c \in Limited PROVE Limiter!Sound(s3[c], s1', s2')
    <3>1. /\ s3[c].at = "incr" => s3[c].bucket \in Limiter!Windows
          /\ s3[c].at \in Limiter!Counted => s3[c].bucket \in Limiter!Windows /\ s3[c].time \in Nat
      BY <1>t, CounterPhases
    <3>2. /\ s3[c].at = "incr" => s3[c].bucket * Limiter!W \in Nat
          /\ s3[c].at \in Limiter!Counted => Limiter!End(s3[c].bucket) \in Nat
      BY <3>1, WindowEnds
    <3> HIDE DEF Limiter!W, Limiter!End
    <3> QED
      BY <1>t, <2>1, <3>1, <3>2 DEF Limiter!Sound
  <2>3. \A w \in Limiter!Windows : (Limiter!CounterLasts(w) /\ Limiter!CounterOutlives(w) /\ Limiter!ExpiryIsUnderWay(w))'
    BY <1>t, <2>1
       DEF Limiter!CounterLasts, Limiter!CounterOutlives, Limiter!ExpiryIsUnderWay
  <2> QED
    BY <1>t, <2>1, <2>2, <2>3 DEF Limiter!IInv, Limiter!TypeOK, Limiter!CountsDiffer
<1>2. ASSUME NEW c \in Limited, Limiter!Begin(c) PROVE Limiter!IInv'
  <2> DEFINE r == [at |-> "incr", bucket |-> s1 \div Limiter!W]
  <2>1. r \in Limiter!CallRecords /\ r.at = "incr" /\ r.bucket * Limiter!W <= s1
    BY <1>t, WindowTimes DEF Limiter!TypeOK, Limiter!CallRecords
  <2>2. s3' = [s3 EXCEPT ![c] = r] /\ UNCHANGED <<s1, s2>> /\ s3[c].at = "idle"
    BY <1>2 DEF Limiter!Begin
  <2> HIDE DEF r
  <2>3. Limiter!Sound(r, s1', s2')
    BY <2>1, <2>2 DEF Limiter!Sound, Limiter!Counted
  <2>4. \A w \in Limiter!Windows : Limiter!CounterLasts(w)' /\ Limiter!CounterOutlives(w)'
    BY <1>t, <2>2 DEF Limiter!CounterLasts, Limiter!CounterOutlives
  <2> QED
    BY <1>t, <2>1, <2>2, <2>3, <2>4, LimiterCallMoves
       DEF Limiter!TypeOK, Limiter!Counted
<1>4. ASSUME NEW c \in Limited, Limiter!Expire(c) PROVE Limiter!IInv'
  <2> DEFINE w == s3[c].bucket
             r == [s3[c] EXCEPT !.at = IF s3[c].count > Limit THEN "ttl" ELSE "allowed"]
             k == IF Limiter!Live(w) = Limiter!Gone THEN Limiter!Gone ELSE [Limiter!Live(w) EXCEPT !.expires = s1 + Limiter!W]
  <2>1. /\ s3[c].at = "expire" /\ w \in Limiter!Windows /\ w \in Nat
        /\ s3[c] \in [at : Limiter!Counted, bucket : Limiter!Windows, count : Nat \ {0}, time : Nat]
    BY <1>4, <1>t, CounterPhases, WindowEnds DEF Limiter!Expire, Limiter!Counted
  <2>2. /\ r \in Limiter!CallRecords /\ r.at \in {"ttl", "allowed"}
        /\ r.at = "allowed" => r.count <= Limit
        /\ r.bucket = w /\ r.count = s3[c].count /\ r.time = s3[c].time
    BY <2>1, LimiterAssumption DEF Limiter!CallRecords, Limiter!Counted
  <2>3. /\ s3' = [s3 EXCEPT ![c] = r] /\ s2' = [s2 EXCEPT ![w] = k] /\ s1' = s1
    BY <1>4 DEF Limiter!Expire
  <2>4. w * Limiter!W <= s1
    BY <1>t, <2>1, WindowEnds DEF Limiter!Sound, Limiter!Counted
  <2>5. /\ k \in [count : Nat, expires : Int]
        /\ k = Limiter!Gone \/ (k.count > 0 /\ k.expires >= Limiter!End(w) /\ k.expires \in Nat)
        /\ s1 < Limiter!End(w) => k.count = s2[w].count
    <3>1. CASE Limiter!Live(w) = Limiter!Gone
      BY <1>t, <1>w, <2>1, <3>1 DEF Limiter!Gone
    <3>2. CASE Limiter!Live(w) # Limiter!Gone
      <4>1. Limiter!Live(w) = s2[w] /\ s2[w].count > 0
        BY <1>t, <1>w, <2>1, <3>2 DEF Limiter!CounterLasts
      <4>2. k.count = s2[w].count /\ k.expires = s1 + Limiter!W /\ k \in [count : Nat, expires : Int]
        BY <1>t, <2>1, <3>2, <4>1, WindowEnds
      <4> QED
        BY <1>t, <2>1, <2>4, <4>1, <4>2, WindowEnds
    <3> QED
      BY <3>1, <3>2
  <2> HIDE DEF r, k
  <2>6. /\ s2' \in [Limiter!Windows -> [count : Nat, expires : Int]] /\ s2'[w] = k
        /\ \A v \in Limiter!Windows : v # w => s2'[v] = s2[v]
    BY <1>t, <2>1, <2>3, <2>5 DEF Limiter!TypeOK
  <2>7. Limiter!Sound(r, s1', s2')
    BY <1>t, <2>1, <2>2, <2>3, <2>5, <2>6 DEF Limiter!Sound, Limiter!Counted
  <2>8. \A v \in Limiter!Windows : Limiter!CounterLasts(v)' /\ Limiter!CounterOutlives(v)'
    BY <1>t, <2>5, <2>6
       DEF Limiter!CounterLasts, Limiter!CounterOutlives, Limiter!Gone, Limiter!Never
  <2>9. \A v \in Limiter!Windows : s2'[v].count = s2[v].count \/ Limiter!End(v) <= s1
    BY <1>t, <2>1, <2>5, <2>6, WindowEnds
  <2>10. \A v \in Limiter!Windows : s2'[v] # Limiter!Gone /\ s2'[v].expires = Limiter!Never => v # w
    BY <2>1, <2>5, <2>6, WindowEnds DEF Limiter!Never
  <2> QED
    BY <2>1, <2>2, <2>3, <2>6, <2>7, <2>8, <2>9, <2>10, LimiterCallMoves
       DEF Limiter!Counted
<1>5. ASSUME NEW c \in Limited, Limiter!Refuse(c) PROVE Limiter!IInv'
  <2> DEFINE w == s3[c].bucket
             retry == Limiter!retryAfterSec(Limiter!Ttl(w))
             r == [at |-> "refused", bucket |-> w, count |-> s3[c].count,
                   time |-> s1, retry |-> retry]
  <2>1. /\ s3[c].at = "ttl" /\ w \in Limiter!Windows /\ w \in Nat
        /\ s3[c] \in [at : Limiter!Counted, bucket : Limiter!Windows, count : Nat \ {0}, time : Nat]
    BY <1>5, <1>t, CounterPhases, WindowEnds DEF Limiter!Refuse, Limiter!Counted
  <2>2. s3' = [s3 EXCEPT ![c] = r] /\ UNCHANGED <<s1, s2>>
    BY <1>5 DEF Limiter!Refuse
  <2>3. w * Limiter!W <= s1
    BY <1>t, <2>1, WindowEnds DEF Limiter!Sound, Limiter!Counted
  <2>4. retry \in Int /\ s1 + retry * Second + Second \div 2 >= Limiter!End(w)
    <3>s. /\ Second \in Nat /\ Second > 0 /\ Second \div 2 \in Nat
          /\ 2 * (Second \div 2) >= Second - 1
      BY LimiterAssumption, DivisionFacts
    <3>1. CASE retry = Window
      <4>1. Window * Second = Limiter!W /\ Window \in Nat
        BY LimiterAssumption DEF Limiter!W
      <4> HIDE DEF Limiter!W, retry
      <4> QED
        BY <1>t, <2>1, <2>3, <3>s, <3>1, <4>1, WindowEnds
    <3>2. CASE Limiter!Ttl(w) > 0 /\ retry = Limiter!Ttl(w)
      <4> DEFINE x == Limiter!Live(w).expires - s1
      <4>1. Limiter!Live(w) = s2[w] /\ s2[w].expires # Limiter!Never /\ s2[w].expires >= Limiter!End(w)
        BY <1>t, <1>w, <2>1, <3>2 DEF Limiter!Ttl, Limiter!CounterOutlives
      <4>2. retry = (x + Second \div 2) \div Second
        BY <3>2, <4>1 DEF Limiter!Ttl
      <4>3. x \in Int /\ s1 + x >= Limiter!End(w)
        BY <1>t, <2>1, <4>1, WindowEnds
      <4> HIDE DEF x, retry
      <4>4. retry \in Int /\ x + Second \div 2 < Second * retry + Second
        BY <3>s, <4>2, <4>3, DivisionFacts
      <4>5. x <= retry * Second + Second \div 2
        BY <3>s, <4>3, <4>4
      <4> HIDE DEF Limiter!End
      <4>6. Limiter!End(w) \in Nat /\ retry * Second \in Int
        BY <2>1, <3>s, <4>4, WindowEnds
      <4> QED
        BY <1>t, <3>s, <4>3, <4>4, <4>5, <4>6
    <3> QED
      BY <3>1, <3>2 DEF Limiter!retryAfterSec
  <2> HIDE DEF retry
  <2>5. /\ r \in Limiter!CallRecords /\ r.at = "refused" /\ r.bucket = w /\ r.time = s1
        /\ r.retry = retry
    BY <1>t, <2>1, <2>4 DEF Limiter!CallRecords
  <2> HIDE DEF r
  <2>6. Limiter!Sound(r, s1', s2')
    BY <2>2, <2>4, <2>5 DEF Limiter!Sound, Limiter!Counted
  <2>7. \A v \in Limiter!Windows : Limiter!CounterLasts(v)' /\ Limiter!CounterOutlives(v)'
    BY <1>t, <2>2 DEF Limiter!CounterLasts, Limiter!CounterOutlives
  <2> QED
    BY <1>t, <2>1, <2>2, <2>5, <2>6, <2>7, LimiterCallMoves
       DEF Limiter!TypeOK, Limiter!Counted
<1>6. ASSUME NEW c \in Limited, Limiter!Crash(c) PROVE Limiter!IInv'
  <2> DEFINE r == [at |-> "crashed", bucket |-> s3[c].bucket, left |-> s3[c].at]
  <2>1. s3[c].at \in {"incr", "expire", "ttl"} /\ s3[c].bucket \in Limiter!Windows
    BY <1>6, <1>t, CounterPhases DEF Limiter!Crash, Limiter!Counted
  <2>2. s3' = [s3 EXCEPT ![c] = r] /\ UNCHANGED <<s1, s2>>
    BY <1>6 DEF Limiter!Crash
  <2>3. /\ r \in Limiter!CallRecords /\ r.at = "crashed" /\ r.bucket = s3[c].bucket
        /\ r.left = s3[c].at
    BY <2>1 DEF Limiter!CallRecords
  <2> HIDE DEF r
  <2>4. Limiter!Sound(r, s1', s2')
    BY <2>3 DEF Limiter!Sound, Limiter!Counted
  <2>5. \A v \in Limiter!Windows : Limiter!CounterLasts(v)' /\ Limiter!CounterOutlives(v)'
    BY <1>t, <2>2 DEF Limiter!CounterLasts, Limiter!CounterOutlives
  <2> QED
    BY <1>t, <2>1, <2>2, <2>3, <2>4, <2>5, LimiterCallMoves
       DEF Limiter!TypeOK, Limiter!Counted
<1>7. CASE UNCHANGED Limiter!vars
  BY <1>7 DEF Limiter!vars, Limiter!IInv, Limiter!TypeOK, Limiter!CounterLasts,
              Limiter!CounterOutlives, Limiter!ExpiryIsUnderWay, Limiter!Sound,
              Limiter!CountsDiffer
<1>3. ASSUME NEW c \in Limited, Limiter!Incr(c) PROVE Limiter!IInv'
  <2> DEFINE w == s3[c].bucket
             count == Limiter!Live(w).count + 1
             k == [Limiter!Live(w) EXCEPT !.count = count]
             at == IF Limiter!SetsExpiry(count) THEN "expire"
                   ELSE IF count > Limit THEN "ttl" ELSE "allowed"
             r == [at |-> at, bucket |-> w, count |-> count, time |-> s1]
  <2>1. s3[c].at = "incr" /\ w \in Limiter!Windows /\ w * Limiter!W <= s1
    BY <1>3, <1>t, CounterPhases DEF Limiter!Incr, Limiter!Sound
  <2>2. /\ s3' = [s3 EXCEPT ![c] = r] /\ s2' = [s2 EXCEPT ![w] = k]
        /\ s1' = s1
    BY <1>3 DEF Limiter!Incr
  <2>3. Limiter!Live(w) \in [count : Nat, expires : Int] /\ (Limiter!Live(w) = Limiter!Gone \/ Limiter!Live(w) = s2[w])
    BY <1>t, <1>w, <2>1 DEF Limiter!Gone
  <2>4. /\ count \in Nat \ {0} /\ k \in [count : Nat, expires : Int]
        /\ k.count = count /\ k.expires = Limiter!Live(w).expires
    BY <2>3
  <2>5. /\ at \in Limiter!Counted /\ (at = "allowed" => count <= Limit)
        /\ count = 1 => at = "expire"
        /\ count # 1 => Limiter!Live(w) = s2[w] /\ s2[w] # Limiter!Gone
    BY <2>3, <2>4, LimiterAssumption
       DEF Limiter!Counted, Limiter!SetsExpiry, Limiter!Gone
  <2>6. s1 < Limiter!End(w) => count = s2[w].count + 1
    BY <1>w, <2>1
  <2> HIDE DEF at, k
  <2>7. /\ r \in Limiter!CallRecords /\ r.at = at /\ r.bucket = w /\ r.count = count /\ r.time = s1
    BY <1>t, <2>1, <2>4, <2>5 DEF Limiter!CallRecords
  <2> HIDE DEF r, count
  <2>8. /\ s3' \in [Limited -> Limiter!CallRecords] /\ s3'[c] = r
        /\ s2' \in [Limiter!Windows -> [count : Nat, expires : Int]] /\ s2'[w] = k
        /\ \A d \in Limited : d # c => s3'[d] = s3[d]
        /\ \A v \in Limiter!Windows : v # w => s2'[v] = s2[v]
    BY <1>t, <2>1, <2>2, <2>4, <2>7 DEF Limiter!TypeOK
  <2>9. Limiter!TypeOK'
    BY <1>t, <2>2, <2>8 DEF Limiter!TypeOK
  <2>10. ASSUME NEW v \in Limiter!Windows
         PROVE  Limiter!CounterLasts(v)' /\ Limiter!CounterOutlives(v)' /\ Limiter!ExpiryIsUnderWay(v)'
    <3>1. CASE v # w
      BY <1>t, <2>1, <2>8, <3>1
         DEF Limiter!CounterLasts, Limiter!CounterOutlives, Limiter!ExpiryIsUnderWay
    <3>2. CASE v = w
      <4>1. Limiter!CounterLasts(v)' /\ Limiter!CounterOutlives(v)'
        BY <1>t, <2>3, <2>4, <2>8, <3>2
           DEF Limiter!CounterLasts, Limiter!CounterOutlives, Limiter!Gone,
               Limiter!Never
      <4>2. CASE count = 1
        BY <2>5, <2>7, <2>8, <3>2, <4>1, <4>2 DEF Limiter!ExpiryIsUnderWay
      <4>3. CASE count # 1
        BY <1>t, <2>1, <2>4, <2>5, <2>8, <3>2, <4>1, <4>3 DEF Limiter!ExpiryIsUnderWay
      <4> QED
        BY <4>2, <4>3, <4>1
    <3> QED
      BY <3>1, <3>2
  <2>11. ASSUME NEW d \in Limited PROVE Limiter!Sound(s3'[d], s1', s2')
    <3>1. CASE d = c
      BY <1>t, <2>1, <2>2, <2>4, <2>5, <2>7, <2>8, <3>1
         DEF Limiter!Sound, Limiter!Counted
    <3>2. CASE d # c
      <4>1. Limiter!Sound(s3[d], s1, s2) /\ s3'[d] = s3[d]
        BY <1>t, <2>8, <3>2
      <4>2. s3[d].at \in Limiter!Counted =>
              /\ s3[d].bucket \in Limiter!Windows
              /\ s3[d].count \in Nat
        BY <1>t, CounterPhases
      <4>3. s3[d].at \in Limiter!Counted /\ s1 < Limiter!End(s3[d].bucket) =>
              s3[d].count <= s2'[s3[d].bucket].count
        BY <1>t, <2>1, <2>4, <2>6, <2>8, <4>1, <4>2 DEF Limiter!Sound
      <4> QED
        BY <2>2, <4>1, <4>3 DEF Limiter!Sound
    <3> QED
      BY <3>1, <3>2
  <2>12. Limiter!CountsDiffer'
    <3>1. ASSUME NEW d \in Limited, d # c, s3[d].at \in Limiter!Counted,
                 s3[d].bucket = w,
                 s1 < Limiter!End(w)
          PROVE  s3[d].count < count
      <4>1. s3[d].count \in Nat /\ s3[d].count <= s2[w].count
        BY <1>t, <3>1, CounterPhases DEF Limiter!Sound
      <4> QED
        BY <1>t, <2>1, <2>6, <4>1, <3>1
    <3>2. \A d \in Limited : d # c /\ s3[d].at \in Limiter!Counted => s3[d].count \in Nat
      BY <1>t, CounterPhases
    <3>3. count \in Nat
      BY <2>4
    <3> QED
      BY <1>t, <2>7, <2>8, <3>1, <3>2, <3>3 DEF Limiter!CountsDiffer
  <2> QED
    BY <2>9, <2>10, <2>11, <2>12 DEF Limiter!IInv
<1> QED
  BY <1>1, <1>2, <1>3, <1>4, <1>5, <1>6, <1>7 DEF Limiter!Next

\* The instance counts as FiniteSets does.
LEMMA CardinalityIsOne == \A S : Limiter!Cardinality(S) = Cardinality(S)
BY DEF Limiter!Cardinality, Cardinality

\* A limit is kept by numbering who came: those that are allowed in a window have
\* different numbers, from 1 to the limit.
LEMMA LimitFromCounts == Limiter!IInv => Limiter!AtMostLimitPerWindow
<1> SUFFICES ASSUME Limiter!IInv, NEW w \in Limiter!Windows
             PROVE  Cardinality({c \in Limiter!Prompt : s3[c].bucket = w}) <= Limit
  BY CardinalityIsOne DEF Limiter!AtMostLimitPerWindow
<1> DEFINE S == {c \in Limiter!Prompt : s3[c].bucket = w}
           number == [c \in S |-> s3[c].count]
<1>1. ASSUME NEW c \in S
      PROVE  /\ c \in Limited /\ s3[c].at \in Limiter!Counted /\ s3[c].bucket = w
             /\ s3[c].time < Limiter!End(w) /\ s3[c].count \in 1..Limit
  <2>1. /\ c \in Limited /\ s3[c].at = "allowed" /\ s3[c].bucket = w
        /\ s3[c].time \div Limiter!W = w
    BY DEF Limiter!Prompt, Limiter!Allowed
  <2>2. s3[c].count \in Nat \ {0} /\ s3[c].time \in Nat /\ s3[c].count <= Limit
    BY <2>1, CounterPhases
       DEF Limiter!IInv, Limiter!TypeOK, Limiter!Sound, Limiter!Counted
  <2>3. s3[c].time < Limiter!End(w)
    BY <2>1, <2>2, WindowTimes, WindowEnds
  <2> QED
    BY <2>1, <2>2, <2>3, LimiterAssumption DEF Limiter!Counted
<1>2. number \in Injection(S, 1..Limit)
  <2>1. number \in [S -> 1..Limit]
    BY <1>1
  <2>2. ASSUME NEW c \in S, NEW d \in S, number[c] = number[d] PROVE c = d
    <3> HIDE DEF S
    <3> QED
      BY <1>1, <2>2 DEF Limiter!IInv, Limiter!CountsDiffer
  <2> HIDE DEF S, number
  <2> QED
    BY <2>1, <2>2 DEF Injection, IsInjective
<1>3. IsFiniteSet(1..Limit) /\ Cardinality(1..Limit) = Limit
  BY FS_Interval, LimiterAssumption
<1> HIDE DEF number, S
<1>4. Cardinality(S) <= Limit
  BY <1>2, <1>3, FS_Injection
<1> QED
  BY <1>4 DEF S

LEMMA LimiterKeeps == Limiter!IInv => Limiter!AtMostLimitPerWindow /\ Limiter!CountersExpire /\ Limiter!RetryIsEnough
<1> SUFFICES ASSUME Limiter!IInv PROVE Limiter!CountersExpire /\ Limiter!RetryIsEnough
  BY LimitFromCounts
<1>1. Limiter!CountersExpire
  BY DEF Limiter!IInv, Limiter!CountersExpire, Limiter!ExpiryIsUnderWay, Limiter!Live
<1>2. ASSUME NEW c \in Limited, s3[c].at = "refused"
      PROVE  (s3[c].time + s3[c].retry * Second + Second \div 2) \div Limiter!W > s3[c].bucket
  <2>1. /\ s3[c].bucket \in Limiter!Windows /\ s3[c].time \in Nat /\ s3[c].retry \in Int
        /\ s3[c].time + s3[c].retry * Second + Second \div 2 >= Limiter!End(s3[c].bucket)
    BY <1>2 DEF Limiter!IInv, Limiter!TypeOK, Limiter!Sound, Limiter!CallRecords,
                Limiter!Counted
  <2> DEFINE t == s3[c].time + s3[c].retry * Second + Second \div 2
  <2>2. t \in Int
    BY <2>1, LimiterAssumption
  <2> HIDE DEF t
  <2>3. t \in Nat
    BY <2>1, <2>2, WindowEnds DEF t
  <2>4. t \div Limiter!W > s3[c].bucket
    BY <2>1, <2>3, WindowTimes, WindowEnds DEF t
  <2> QED
    BY <2>4 DEF t
<1> QED
  BY <1>1, <1>2 DEF Limiter!RetryIsEnough

\* assertOrpcRateLimit allows at most the limit in every window of its clock, a
\* counter that never expires is due to a death between INCR and EXPIRE, and
\* who waits as long as he was told comes in another window.
THEOREM LimitAlwaysKept == ServerSpec => []LimitIsKept
<1> DEFINE Holds == part = "limit" => Limiter!IInv
<1>1. ServerInit => Holds
  BY LimiterInit DEF ServerInit
<1>2. Holds /\ [ServerNext]_<<part, vars, state>> => Holds'
  BY LimiterStep DEF ServerNext, state, Limiter!vars
<1>3. Holds => LimitIsKept
  BY LimiterKeeps DEF LimitIsKept
<1> QED
  BY <1>1, <1>2, <1>3, PTL DEF ServerSpec

-----------------------------------------------------------------------------
(* The oRPC surface: s1 is session, s2 role, s3 connection, s4 members, s5     *)
(* calls, s6 used, s7 where and s8 was.  Each gate that a call has passed had  *)
(* its ground at some time since the call began, and the history keeps it.     *)

\* The gates of the contract's procedures: those of one connection that members
\* may call are the ones whose access is checked.
LEMMA Gates ==
    ASSUME NEW p \in Surface!Procedures
    PROVE  /\ Surface!Gate(p) \in {"open", "withAuth", "withAdmin"}
           /\ Surface!Gate(p) = "withAuth" /\ Surface!OfConnection(p) => p \in Surface!Accessible
<1>1. PICK r \in DOMAIN Surface!contract : p \in {r} \X DOMAIN Surface!contract[r]
  BY DEF Surface!Procedures
<1>2. PICK q \in DOMAIN Surface!contract[r] : p = <<r, q>>
  BY <1>1
<1>3. CASE r = "connections"
  BY <1>2, <1>3
     DEF Surface!Gate, Surface!router, Surface!contract, Surface!connectionsHandlers,
         Surface!connectionsContract,
                    Surface!OfConnection, Surface!Input, Surface!Accessible
<1>4. CASE r = "app"
  BY <1>2, <1>4
     DEF Surface!Gate, Surface!router, Surface!contract, Surface!appHandlers,
         Surface!appContract, Surface!AllBehind,
                    Surface!OfConnection, Surface!Input, Surface!Accessible
<1>5. CASE r \notin {"connections", "app"}
  BY <1>2, <1>5
     DEF Surface!Gate, Surface!router, Surface!contract, Surface!AllBehind,
         Surface!setupHandlers, Surface!connectionsRlsHandlers,
         Surface!rolesHandlers, Surface!usersHandlers, Surface!provisionHandlers,
            Surface!dashboardHandlers, Surface!healthHandlers,
         Surface!accessHandlers, Surface!setupContract, Surface!connectionsRlsContract,
            Surface!rolesContract, Surface!usersContract,
         Surface!provisionContract, Surface!dashboardContract, Surface!healthContract,
            Surface!accessContract
<1> QED
  BY <1>3, <1>4, <1>5

LEMMA GateOf ==
    /\ \A p \in Surface!Accessible : Surface!Gate(p) = "withAuth"
    /\ Surface!Gate(<<"setup", "createAdmin">>) = "open"
BY DEF Surface!Gate, Surface!router, Surface!contract, Surface!connectionsHandlers,
       Surface!connectionsContract, Surface!Accessible,
       Surface!setupHandlers, Surface!setupContract, Surface!AllBehind

LEMMA NowIs ==
    ASSUME NEW u \in Askers
    PROVE  /\ Surface!Now(u) \subseteq Surface!Facts
           /\ s1[u] => "session" \in Surface!Now(u)
           /\ ~s1[u] => "no session" \in Surface!Now(u)
           /\ s2[u] = "platform_admin" => "admin" \in Surface!Now(u)
           /\ s2[u] # "platform_admin" => "no admin" \in Surface!Now(u)
           /\ u \in s4 => "member" \in Surface!Now(u)
           /\ u \notin s4 => "no member" \in Surface!Now(u)
           /\ s3 # "gone" => "connection" \in Surface!Now(u)
           /\ s3 = "gone" => "gone" \in Surface!Now(u)
           /\ s3 = "ready" => "ready" \in Surface!Now(u)
BY DEF Surface!Now, Surface!Facts

LEMMA SurfaceInit == Surface!Init => Surface!IInv
BY DEF Surface!Init, Surface!IInv, Surface!TypeOK, Surface!NowIsSeen, Surface!Sound,
       Surface!CallRecords, Surface!Idle, Surface!Facts

\* What has been true stays so.
LEMMA AnswersStaySound ==
    ASSUME NEW c, NEW facts, NEW more, facts \subseteq more, Surface!Sound(c, facts)
    PROVE  Surface!Sound(c, more)
<1>1. c.phase = "answered" /\ c.answer = "OK" => Surface!HadGrounds(c.procedure, more)
  BY DEF Surface!Sound, Surface!HadGrounds
<1>2. c.phase = "answered" => Surface!HadReason(c, more)
  BY DEF Surface!Sound, Surface!HadReason
<1> QED
  BY <1>1, <1>2 DEF Surface!Sound

\* Witness writes down what is true.
LEMMA SurfaceWitnessed ==
    ASSUME Surface!Witness, s5' \in [Askers -> Surface!CallRecords], Surface!TypeOK,
           \A u \in Askers : s5'[u] = Surface!Idle \/ Surface!Sound(s5'[u], s8[u] \union Surface!Now(u)'),
           s1' \in [Askers -> BOOLEAN], s2' \in [Askers -> Surface!Roles],
           s3' \in {"gone", "pending", "ready"}
    PROVE  Surface!IInv'
<1>1. \A u \in Askers : s8'[u] = IF s5'[u] = Surface!Idle THEN {} ELSE s8[u] \union Surface!Now(u)'
  BY DEF Surface!Witness
<1>2. \A u \in Askers : Surface!Now(u)' \subseteq Surface!Facts
  BY DEF Surface!Now, Surface!Facts
<1>3. s8' \in [Askers -> SUBSET Surface!Facts]
  BY <1>1, <1>2 DEF Surface!Witness, Surface!TypeOK
<1>4. Surface!Idle.phase = "idle"
  BY DEF Surface!Idle
<1>5. \A u \in Askers : Surface!Sound(s5'[u], s8'[u])
  BY <1>1, <1>4 DEF Surface!Sound
<1> QED
  BY <1>1, <1>3, <1>5 DEF Surface!IInv, Surface!TypeOK, Surface!NowIsSeen

\* The call of u moves on to c.
LEMMA SurfaceCallMoves ==
    ASSUME Surface!IInv, Surface!Witness, NEW u \in Askers,
           NEW c \in Surface!CallRecords,
           s5' = [s5 EXCEPT ![u] = c],
           c = Surface!Idle \/ Surface!Sound(c, s8[u]),
           s1' \in [Askers -> BOOLEAN], s2' \in [Askers -> Surface!Roles],
           s3' \in {"gone", "pending", "ready"}
    PROVE  Surface!IInv'
<1>1. /\ s5' \in [Askers -> Surface!CallRecords] /\ s5'[u] = c
      /\ \A v \in Askers : v # u => s5'[v] = s5[v]
  BY DEF Surface!IInv, Surface!TypeOK
<1>2. \A v \in Askers : s5'[v] = Surface!Idle \/ Surface!Sound(s5'[v], s8[v])
  BY <1>1 DEF Surface!IInv
<1>3. \A v \in Askers : s5'[v] = Surface!Idle \/ Surface!Sound(s5'[v], s8[v] \union Surface!Now(v)')
  BY <1>2, AnswersStaySound
<1> QED
  BY <1>1, <1>3, SurfaceWitnessed DEF Surface!IInv

\* Something changes under the calls.
LEMMA SurfaceChanges ==
    ASSUME Surface!IInv, Surface!Witness, UNCHANGED s5,
           s1' \in [Askers -> BOOLEAN], s2' \in [Askers -> Surface!Roles],
           s3' \in {"gone", "pending", "ready"}
    PROVE  Surface!IInv'
<1>1. \A v \in Askers : Surface!Sound(s5'[v], s8[v])
  BY DEF Surface!IInv
<1>2. \A v \in Askers : Surface!Sound(s5'[v], s8[v] \union Surface!Now(v)')
  BY <1>1, AnswersStaySound
<1> QED
  BY <1>2, SurfaceWitnessed DEF Surface!IInv, Surface!TypeOK

LEMMA SurfaceStep == Surface!IInv /\ [Surface!Next]_(Surface!vars) => Surface!IInv'
<1> SUFFICES ASSUME Surface!IInv, [Surface!Next]_(Surface!vars) PROVE Surface!IInv'
  OBVIOUS
<1> DEFINE Full == Surface!CallRecords \ {Surface!Idle}
<1>t. /\ s1 \in [Askers -> BOOLEAN] /\ s2 \in [Askers -> Surface!Roles]
      /\ s3 \in {"gone", "pending", "ready"}
      /\ \A u \in Askers : s5[u] \in Surface!CallRecords /\ Surface!Sound(s5[u], s8[u])
  BY DEF Surface!IInv, Surface!TypeOK
<1>f. ASSUME NEW u \in Askers, s5[u].phase # "idle"
      PROVE  /\ s5[u] \in
                  [phase : Surface!Phases, procedure : Surface!Procedures, via : {"rpc", "page"},
                   valid : BOOLEAN, actorId : Askers \union {"nobody"},
                   role : Surface!Roles \union {"none"}, unread : BOOLEAN, answer : Surface!Answers]
             /\ Surface!Now(u) \subseteq s8[u]
  <2>1. s5[u] # Surface!Idle
    BY <1>f DEF Surface!Idle
  <2> QED
    BY <1>t, <2>1 DEF Surface!CallRecords, Surface!IInv, Surface!NowIsSeen
<1>1. ASSUME NEW u \in Askers, NEW p \in Surface!Procedures, NEW via \in {"rpc", "page"},
             NEW valid \in BOOLEAN, Surface!Send(u, p, via, valid)
      PROVE  Surface!IInv'
  <2> DEFINE c == [phase |-> "context", procedure |-> p, via |-> via, valid |-> valid,
                   actorId |-> "nobody", role |-> "none", unread |-> FALSE, answer |-> "none"]
  <2>1. c \in Surface!CallRecords /\ c.phase = "context"
    BY DEF Surface!CallRecords, Surface!Phases, Surface!Answers
  <2>2. s5' = [s5 EXCEPT ![u] = c]
    BY <1>1 DEF Surface!Send
  <2> HIDE DEF c
  <2>3. Surface!Sound(c, s8[u])
    BY <2>1 DEF Surface!Sound
  <2> QED
    BY <1>1, <1>t, <2>1, <2>2, <2>3, SurfaceCallMoves DEF Surface!Send
<1>2. ASSUME NEW u \in Askers, Surface!ReadContext(u) PROVE Surface!IInv'
  <2> DEFINE c == [s5[u] EXCEPT !.phase = IF s5[u].via = "rpc" THEN "limit" ELSE "gate",
                                   !.actorId = IF s1[u] THEN u ELSE "nobody"]
  <2>1. s5[u].phase = "context"
    BY <1>2 DEF Surface!ReadContext
  <2>2. /\ c \in Surface!CallRecords /\ c.phase \in {"limit", "gate"}
        /\ c.actorId = IF s1[u] THEN u ELSE "nobody"
    BY <1>f, <2>1 DEF Surface!CallRecords, Surface!Phases, Surface!Answers
  <2>3. s5' = [s5 EXCEPT ![u] = c]
    BY <1>2 DEF Surface!ReadContext
  <2> HIDE DEF c
  <2>4. Surface!Sound(c, s8[u])
    BY <1>f, <2>1, <2>2, NowIs, SurfaceAssumption DEF Surface!Sound
  <2> QED
    BY <1>2, <1>t, <2>2, <2>3, <2>4, SurfaceCallMoves DEF Surface!ReadContext
<1>3. ASSUME NEW u \in Askers, NEW answer \in Surface!Answers, Surface!Reply(u, answer),
             Surface!Witness,
             s5[u].phase # "idle",
             answer = "OK" => Surface!HadGrounds(s5[u].procedure, s8[u]),
             Surface!HadReason([s5[u] EXCEPT !.answer = answer], s8[u]),
             UNCHANGED <<s1, s2>>, s3' \in {"gone", "pending", "ready"}
      PROVE  Surface!IInv'
  <2> DEFINE c == [s5[u] EXCEPT !.phase = "answered", !.answer = answer]
             a == [s5[u] EXCEPT !.answer = answer]
  <2>1. /\ c \in Surface!CallRecords /\ c.phase = "answered" /\ c.answer = answer
        /\ c.procedure = s5[u].procedure /\ c.unread = s5[u].unread
        /\ a.answer = answer /\ a.procedure = s5[u].procedure /\ a.unread = s5[u].unread
    BY <1>3, <1>f DEF Surface!CallRecords, Surface!Phases, Surface!Answers
  <2>2. s5' = [s5 EXCEPT ![u] = c]
    BY <1>3 DEF Surface!Reply
  <2>3. Surface!HadReason(a, s8[u])
    BY <1>3
  <2> HIDE DEF c, a
  <2>4. Surface!HadReason(c, s8[u])
    BY <2>1, <2>3 DEF Surface!HadReason
  <2>5. Surface!Sound(c, s8[u])
    BY <1>3, <2>1, <2>4 DEF Surface!Sound
  <2> QED
    BY <1>3, <1>t, <2>1, <2>2, <2>5, SurfaceCallMoves
<1>4. ASSUME NEW u \in Askers, NEW phase \in {"gate", "work"}, Surface!To(u, phase),
             Surface!Witness,
             s5[u].phase # "idle",
             Surface!Sound([s5[u] EXCEPT !.phase = phase], s8[u]),
             UNCHANGED <<s1, s2, s3>>
      PROVE  Surface!IInv'
  <2>1. [s5[u] EXCEPT !.phase = phase] \in Surface!CallRecords
    BY <1>4, <1>f DEF Surface!CallRecords, Surface!Phases, Surface!Answers
  <2> QED
    BY <1>4, <1>t, <2>1, SurfaceCallMoves DEF Surface!To
<1>r. ASSUME NEW u \in Askers, s5[u].phase # "idle",
             NEW answer \in Surface!Answers \ {"UNAUTHORIZED", "FORBIDDEN", "NOT_FOUND"}
      PROVE  Surface!HadReason([s5[u] EXCEPT !.answer = answer], s8[u])
  BY <1>f, <1>r DEF Surface!HadReason
<1>5. ASSUME NEW u \in Askers, Surface!CheckLimit(u) PROVE Surface!IInv'
  <2>1. s5[u].phase = "limit" /\ Surface!Witness /\ UNCHANGED <<s1, s2, s3>>
    BY <1>5 DEF Surface!CheckLimit
  <2>2. CASE Surface!Reply(u, "TOO_MANY_REQUESTS")
    BY <1>3, <1>r, <1>t, <2>1, <2>2 DEF Surface!Answers
  <2>3. CASE Surface!To(u, "gate")
    <3> DEFINE c == [s5[u] EXCEPT !.phase = "gate"]
    <3>1. c.phase = "gate" /\ c.actorId = s5[u].actorId
      BY <1>f, <2>1
    <3> HIDE DEF c
    <3>2. Surface!Sound(c, s8[u])
      BY <1>t, <2>1, <3>1 DEF Surface!Sound
    <3> QED
      BY <1>4, <2>1, <2>3, <3>2 DEF c
  <2> QED
    BY <1>5, <2>2, <2>3 DEF Surface!CheckLimit
<1>6. ASSUME NEW u \in Askers, Surface!Validate(u) PROVE Surface!IInv'
  BY <1>3, <1>6, <1>r, <1>t DEF Surface!Validate, Surface!Answers
<1>7. ASSUME NEW u \in Askers, Surface!CheckAccess(u) PROVE Surface!IInv'
  <2> DEFINE p == s5[u].procedure
  <2>1. /\ s5[u].phase = "access" /\ Surface!Witness /\ UNCHANGED <<s1, s2, s3>>
        /\ Surface!Sound(s5[u], s8[u]) /\ Surface!Now(u) \subseteq s8[u] /\ p \in Surface!Procedures
        /\ s5[u].role \in Surface!Roles \union {"none"}
    BY <1>7, <1>f, <1>t DEF Surface!CheckAccess
  <2>2. CASE Surface!mayReach(u, p)
    <3> DEFINE c == [s5[u] EXCEPT !.phase = "work"]
    <3>1. c.phase = "work" /\ c.role = s5[u].role /\ c.procedure = p
      BY <1>f, <2>1
    <3>2. p \in Surface!Accessible => s5[u].role = "platform_admin" \/ u \in s4
      BY <2>2 DEF Surface!mayReach, Surface!Accessible
    <3> HIDE DEF c
    <3>3. Surface!Sound(c, s8[u])
      BY <2>1, <3>1, <3>2, NowIs DEF Surface!Sound
    <3>4. Surface!To(u, "work")
      BY <1>7, <2>2 DEF Surface!CheckAccess
    <3> QED
      BY <1>4, <2>1, <3>3, <3>4 DEF c
  <2>3. CASE ~Surface!mayReach(u, p)
    <3> DEFINE a == [s5[u] EXCEPT !.answer = "FORBIDDEN"]
    <3>1. a.answer = "FORBIDDEN" /\ a.procedure = p /\ a.unread = s5[u].unread
      BY <1>f, <2>1
    <3>2. /\ p \in Surface!Accessible
          /\ s5[u].role # "platform_admin" => u \notin s4
          /\ s5[u].role = "platform_admin" => s3 = "gone"
      BY <2>3 DEF Surface!mayReach, Surface!Accessible
    <3>3. /\ s5[u].role # "platform_admin" => {"no admin", "no member"} \subseteq s8[u]
          /\ s5[u].role = "platform_admin" => "gone" \in s8[u]
      BY <2>1, <3>2, NowIs, GateOf DEF Surface!Sound, Surface!Roles
    <3> HIDE DEF a
    <3>4. Surface!HadReason(a, s8[u])
      BY <3>1, <3>2, <3>3, GateOf DEF Surface!HadReason
    <3>5. Surface!Reply(u, "FORBIDDEN")
      BY <1>7, <2>3 DEF Surface!CheckAccess, Surface!orpcCodeFromErrorCode
    <3> QED
      BY <1>3, <1>t, <2>1, <3>4, <3>5 DEF a, Surface!Answers
  <2> QED
    BY <2>2, <2>3
<1>8. ASSUME NEW u \in Askers, Surface!PassGate(u) PROVE Surface!IInv'
  <2> DEFINE p == s5[u].procedure
  <2>1. PICK read \in BOOLEAN :
         LET held == IF s1[u] /\ read THEN s2[u] ELSE "none"
             refusal == CASE Surface!Gate(p) = "open" -> {}
                          [] Surface!Gate(p) = "withAuth" -> Surface!withAuth(u, held)
                          [] Surface!Gate(p) = "withAdmin" -> Surface!withAdmin(u, held)
         IN s5' = [s5 EXCEPT ![u].phase = IF refusal = {} THEN "access" ELSE "answered",
                                   ![u].answer = IF refusal = {} THEN @ ELSE CHOOSE a \in refusal : TRUE,
                                   ![u].role = held, ![u].unread = ~read]
    BY <1>8 DEF Surface!PassGate
  <2> DEFINE held == IF s1[u] /\ read THEN s2[u] ELSE "none"
             refusal == CASE Surface!Gate(p) = "open" -> {}
                          [] Surface!Gate(p) = "withAuth" -> Surface!withAuth(u, held)
                          [] Surface!Gate(p) = "withAdmin" -> Surface!withAdmin(u, held)
             answer == IF refusal = {} THEN s5[u].answer ELSE CHOOSE a \in refusal : TRUE
             c == [s5[u] EXCEPT !.phase = IF refusal = {} THEN "access" ELSE "answered",
                                   !.answer = answer, !.role = held, !.unread = ~read]
  <2>2. s5' = [s5 EXCEPT ![u] = c]
    BY <2>1
  <2>3. /\ s5[u].phase = "gate" /\ Surface!Witness /\ UNCHANGED <<s1, s2, s3>>
        /\ Surface!Sound(s5[u], s8[u]) /\ Surface!Now(u) \subseteq s8[u] /\ p \in Surface!Procedures
    BY <1>8, <1>f, <1>t DEF Surface!PassGate
  <2>4. /\ Surface!Gate(p) \in {"open", "withAuth", "withAdmin"}
        /\ held \in Surface!Roles \union {"none"}
        /\ held = "platform_admin" => {"session", "admin"} \subseteq s8[u]
        /\ held = "member" => {"session", "no admin"} \subseteq s8[u]
        /\ held = "none" => "no session" \in s8[u] \/ ~read
        /\ s5[u].actorId = "nobody" => "no session" \in s8[u]
    BY <1>t, <2>3, Gates, NowIs DEF Surface!Sound, Surface!Roles
  <2> HIDE DEF held
  <2>5. \/ /\ refusal = {}
           /\ Surface!Gate(p) = "withAuth" => held # "none"
           /\ Surface!Gate(p) = "withAdmin" => held = "platform_admin"
        \/ /\ refusal = {"UNAUTHORIZED"}
           /\ held = "none" \/ s5[u].actorId = "nobody"
        \/ /\ refusal = {"FORBIDDEN"} /\ Surface!Gate(p) = "withAdmin"
           /\ held # "platform_admin"
    BY <2>4 DEF Surface!withAuth, Surface!withAdmin
  <2> HIDE DEF refusal
  <2>6. \A x : (CHOOSE a \in {x} : TRUE) = x
    OBVIOUS
  <2>7. /\ refusal = {} => answer = s5[u].answer
        /\ refusal = {"UNAUTHORIZED"} => answer = "UNAUTHORIZED"
        /\ refusal = {"FORBIDDEN"} => answer = "FORBIDDEN"
        /\ answer \in Surface!Answers
    BY <1>f, <2>3, <2>5, <2>6 DEF Surface!Answers
  <2> HIDE DEF answer
  <2>8. /\ c \in Surface!CallRecords /\ c.phase = IF refusal = {} THEN "access" ELSE "answered"
        /\ c.answer = answer /\ c.role = held /\ c.unread = ~read /\ c.procedure = p
    BY <1>f, <2>3, <2>4, <2>7 DEF Surface!CallRecords, Surface!Phases
  <2> HIDE DEF c
  <2>9. Surface!Sound(c, s8[u])
    <3>1. CASE refusal = {}
      BY <2>4, <2>5, <2>8, <3>1 DEF Surface!Sound
    <3>2. CASE refusal # {}
      <4>1. c.phase = "answered" /\ c.answer # "OK"
        BY <2>5, <2>7, <2>8, <3>2
      <4>2. Surface!HadReason(c, s8[u])
        BY <2>4, <2>5, <2>7, <2>8, <3>2 DEF Surface!HadReason, Surface!Roles
      <4> QED
        BY <4>1, <4>2 DEF Surface!Sound
    <3> QED
      BY <3>1, <3>2
  <2> QED
    BY <1>t, <2>2, <2>3, <2>8, <2>9, SurfaceCallMoves
<1>9. ASSUME NEW u \in Askers, Surface!Work(u) PROVE Surface!IInv'
  <2> DEFINE p == s5[u].procedure
  <2>1. PICK answer \in Surface!WorkAnswers(p) \union Surface!SetupAnswers(p) :
         /\ Surface!Reply(u, answer)
         /\ IF answer = "OK" THEN Surface!Effect(p) ELSE UNCHANGED <<s3, s4>>
    BY <1>9 DEF Surface!Work
  <2>2. /\ s5[u].phase = "work" /\ Surface!Witness /\ UNCHANGED <<s1, s2>>
        /\ Surface!Sound(s5[u], s8[u]) /\ Surface!Now(u) \subseteq s8[u] /\ p \in Surface!Procedures
        /\ s5[u].role \in Surface!Roles \union {"none"}
    BY <1>9, <1>f, <1>t DEF Surface!Work
  <2>3. s3' \in {"gone", "pending", "ready"}
    BY <1>t, <2>1 DEF Surface!Effect
  <2>4. /\ answer \in Surface!Answers
        /\ answer = "OK" => /\ p \in Surface!NeedsConnection => s3 # "gone"
                            /\ p \in Surface!NeedsReady => s3 = "ready"
        /\ answer = "FORBIDDEN" => \/ p = <<"connections", "getAnonKey">> /\ s3 = "gone"
                                   \/ p = <<"setup", "createAdmin">>
        /\ answer = "NOT_FOUND" => s3 = "gone" \/ p = <<"users", "get">>
        /\ answer # "UNAUTHORIZED"
    BY <2>1 DEF Surface!WorkAnswers, Surface!SetupAnswers,
                Surface!orpcCodeFromErrorCode, Surface!Answers
  <2>5. answer = "OK" => Surface!HadGrounds(p, s8[u])
    BY <2>2, <2>4, Gates, NowIs DEF Surface!HadGrounds, Surface!Sound, Surface!Roles
  <2>6. Surface!HadReason([s5[u] EXCEPT !.answer = answer], s8[u])
    <3> DEFINE a == [s5[u] EXCEPT !.answer = answer]
    <3>1. a.answer = answer /\ a.procedure = p
      BY <1>f, <2>2
    <3>2. <<"connections", "getAnonKey">> \in Surface!Accessible
      BY DEF Surface!Accessible
    <3> HIDE DEF a
    <3>3. Surface!HadReason(a, s8[u])
      BY <2>2, <2>4, <3>1, <3>2, GateOf, NowIs DEF Surface!HadReason
    <3> QED
      BY <3>3 DEF a
  <2> QED
    BY <1>3, <2>1, <2>2, <2>3, <2>4, <2>5, <2>6
<1>10. ASSUME NEW u \in Askers, Surface!Receive(u) PROVE Surface!IInv'
  BY <1>10, <1>t, SurfaceCallMoves DEF Surface!Receive, Surface!CallRecords
<1>11. ASSUME NEW u \in Askers,
              Surface!SignIn(u) \/ Surface!SessionEnds(u) \/ Surface!RoleChanges(u)
              PROVE  Surface!IInv'
  <2>1. s2' \in [Askers -> Surface!Roles]
    <3>1. \A r \in Surface!Roles : (CHOOSE s \in Surface!Roles : s # r) \in Surface!Roles
      BY DEF Surface!Roles
    <3> QED
      BY <1>11, <1>t, <3>1 DEF Surface!SignIn, Surface!SessionEnds, Surface!RoleChanges
  <2>2. s1' \in [Askers -> BOOLEAN]
    BY <1>11, <1>t DEF Surface!SignIn, Surface!SessionEnds, Surface!RoleChanges
  <2> QED
    BY <1>11, <1>t, <2>1, <2>2, SurfaceChanges
       DEF Surface!SignIn, Surface!SessionEnds, Surface!RoleChanges
<1>12. CASE Surface!NewWindow
  BY <1>12, <1>t, SurfaceChanges DEF Surface!NewWindow
<1>13. CASE UNCHANGED Surface!vars
  BY <1>13 DEF Surface!vars, Surface!IInv, Surface!TypeOK, Surface!NowIsSeen,
               Surface!Now
<1> QED
  BY <1>1, <1>2, <1>5, <1>6, <1>7, <1>8, <1>9, <1>10, <1>11, <1>12, <1>13
     DEF Surface!Next

LEMMA SurfaceTells == Surface!IInv => Surface!OkHadItsGrounds /\ Surface!RefusalsAreTrue
BY DEF Surface!IInv, Surface!Sound, Surface!OkHadItsGrounds, Surface!RefusalsAreTrue

\* What a procedure answers, whatever was changed while it ran: success means
\* that its gates' conditions held, and a refusal that what it names did, at some
\* time since the call began.
THEOREM AnswersAlwaysTrue == ServerSpec => []AnswersAreTrue
<1> DEFINE Holds == part = "surface" => Surface!IInv
<1>1. ServerInit => Holds
  BY SurfaceInit DEF ServerInit
<1>2. Holds /\ [ServerNext]_<<part, vars, state>> => Holds'
  BY SurfaceStep DEF ServerNext, state, Surface!vars
<1>3. Holds => AnswersAreTrue
  BY SurfaceTells DEF AnswersAreTrue
<1> QED
  BY <1>1, <1>2, <1>3, PTL DEF ServerSpec

=============================================================================
