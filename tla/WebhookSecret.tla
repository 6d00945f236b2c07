----------------------------- MODULE WebhookSecret -----------------------------
(***************************************************************************)
(* The webhook secret of a connection: connections.revealWebhookSecret,    *)
(* which reads it and then writes another, rotateWebhookSecret, which only *)
(* writes one, and the deliveries to /api/webhooks/schema-sync that are    *)
(* checked against it.  The signature of a body stands for the secret it   *)
(* was made with; the synchronisation itself is ConnectionSchema's.        *)
(***************************************************************************)
CONSTANTS Secrets,     \* values of randomBytes(32)
          Calls        \* requests under way at the same time

VARIABLES stored,      \* webhook_secret_enc, or None once the connection is gone
          answered,    \* secrets that reveal or rotate has handed out
          call,        \* the requests
          used,        \* secrets stored so far (history)
          retired      \* secrets that stopped being the stored one (history)

vars == <<stored, answered, call, used, retired>>

None == "none"

Awaits == {"read", "write", "limit", "verify"}

Running(c) == call[c].at \in Awaits

\* repo.create has made the first secret.
Init == /\ \E s \in Secrets : stored = s /\ used = {s}
        /\ answered = {}
        /\ call = [c \in Calls |-> [kind |-> "deliver", at |-> "error", secret |-> None,
                                    old |-> {}, alone |-> FALSE]]
        /\ retired = {}

Goto(c, at) == call' = [call EXCEPT ![c].at = at]

\* The UPDATE of the secret, which finds no row once the connection is gone.
SetWebhookSecretEnc(s) ==
    /\ stored' = IF stored = None THEN None ELSE s
    /\ used' = IF stored = None THEN used ELSE used \union {s}
    /\ retired' = IF stored = None THEN retired ELSE retired \union {stored}

Start(c, kind, at, signature) ==
    /\ ~Running(c)
    /\ call' = [call EXCEPT ![c] = [kind |-> kind, at |-> at, secret |-> signature,
                                    old |-> retired, alone |-> TRUE]]
    /\ UNCHANGED <<stored, answered, used, retired>>

-----------------------------------------------------------------------------

\* deleteConnection.
DeleteConnection ==
    /\ stored # None
    /\ stored' = None
    /\ retired' = retired \union {stored}
    /\ call' = [c \in Calls |-> [call[c] EXCEPT !.alone = FALSE]]
    /\ UNCHANGED <<answered, used>>

\* getWebhookSecretEnc.
Read(c) ==
    /\ call[c].kind = "reveal"
    /\ call[c].at = "read"
    /\ IF stored = None
       THEN Goto(c, "not found")
       ELSE call' = [call EXCEPT ![c].at = "write", ![c].secret = stored]
    /\ UNCHANGED <<stored, answered, used, retired>>

\* The secret just read is answered, and another takes its place, or would: the
\* result of the UPDATE is not looked at.
Reveal(c) ==
    /\ call[c].kind = "reveal"
    /\ call[c].at = "write"
    /\ \E s \in Secrets \ used : SetWebhookSecretEnc(s)
    /\ \/ /\ answered' = answered \union {call[c].secret}
          /\ call' = [d \in Calls |->
                        IF d = c THEN [call[c] EXCEPT !.at = "ok"]
                                 ELSE [call[d] EXCEPT !.alone = FALSE]]
       \/ /\ call' = [d \in Calls |->
                        IF d = c THEN [call[c] EXCEPT !.at = "error"]
                                 ELSE [call[d] EXCEPT !.alone = FALSE]]
          /\ UNCHANGED answered

\* Mutant: the answer is the secret that was there before.
RotateToOld(c) ==
    /\ call[c].kind = "rotate"
    /\ call[c].at = "write"
    /\ stored # None
    /\ \E s \in Secrets \ used : SetWebhookSecretEnc(s)
    /\ answered' = answered \union {stored}
    /\ call' = [call EXCEPT ![c].at = "ok", ![c].secret = stored]

\* rotateWebhookSecret: makes a secret, writes it and answers it.
Rotate(c) ==
    /\ call[c].kind = "rotate"
    /\ call[c].at = "write"
    /\ \E s \in Secrets \ used :
         /\ SetWebhookSecretEnc(s)
         /\ \/ /\ answered' = IF stored = None THEN answered ELSE answered \union {s}
               /\ call' = [d \in Calls |->
                    IF d = c
                    THEN [call[c] EXCEPT !.at = IF stored = None THEN "not found" ELSE "ok",
                                         !.secret = s]
                    ELSE [call[d] EXCEPT !.alone = FALSE]]
            \/ /\ call' = [d \in Calls |->
                    IF d = c THEN [call[c] EXCEPT !.at = "error"]
                             ELSE [call[d] EXCEPT !.alone = FALSE]]
               /\ UNCHANGED answered

-----------------------------------------------------------------------------

\* A body that does not parse gets no further; checkRateLimit may refuse.
CheckRateLimit(c) ==
    /\ call[c].at = "limit"
    /\ \E at \in {"bad request", "rate limited", "verify"} : Goto(c, at)
    /\ UNCHANGED <<stored, answered, used, retired>>

\* verifyHmac against the secret stored at the moment; None is a header that is
\* missing or malformed.
VerifyHmac(c) ==
    /\ call[c].at = "verify"
    /\ Goto(c, IF stored # None /\ call[c].secret = stored THEN "ok" ELSE "unauthorized")
    /\ UNCHANGED <<stored, answered, used, retired>>

Fails(c) ==
    /\ Running(c)
    /\ Goto(c, "error")
    /\ UNCHANGED <<stored, answered, used, retired>>

\* A delivery is signed with a secret its sender was given, or not at all.
Arrive(c) == \/ Start(c, "reveal", "read", None)
             \/ Start(c, "rotate", "write", None)
             \/ \E s \in answered \union {None} : Start(c, "deliver", "limit", s)

Step(c) == \/ Read(c)
           \/ Reveal(c)
           \/ Rotate(c)
           \/ CheckRateLimit(c)
           \/ VerifyHmac(c)
           \/ Fails(c)

Next == DeleteConnection \/ \E c \in Calls : Arrive(c) \/ Step(c)

Spec == Init /\ [][Next]_vars

-----------------------------------------------------------------------------

\* A secret that reveal or rotate replaced opens nothing any more: a delivery
\* accepted with it was on its way before it was replaced.
RetiredSecretsRefused ==
    \A c \in Calls : call[c].kind = "deliver" /\ call[c].at = "ok" =>
        call[c].secret \notin call[c].old

\* A revealed secret is worthless for deliveries from then on, however reveals,
\* rotations and deletions overlap: reveal answers with it only once it is gone.
RevealRetires ==
    \A c \in Calls : call[c].kind = "reveal" /\ call[c].at = "ok" =>
        call[c].secret # stored

\* What rotate answered is what is stored, unless another request wrote a secret
\* during it or since.
RotatedSecretWorks ==
    \A c \in Calls : call[c].kind = "rotate" /\ call[c].at = "ok" /\ call[c].alone =>
        call[c].secret = stored

\* "Copy it and store it securely": the secret that reveal shows is the one that
\* deliveries are checked against, unless another request wrote one.
RevealedSecretWorks ==
    \A c \in Calls : call[c].kind = "reveal" /\ call[c].at = "ok" /\ call[c].alone =>
        call[c].secret = stored

-----------------------------------------------------------------------------
(* The inductive invariant behind these properties.                         *)

Kinds == {"reveal", "rotate", "deliver"}
Answers == {"ok", "error", "not found", "bad request", "rate limited", "unauthorized"}
CallRecords == [kind : Kinds, at : Awaits \union Answers, secret : Secrets \union {None},
                old : SUBSET (Secrets \union {None}), alone : BOOLEAN]

\* What is true of a request's record, for a stored secret and the history: what
\* it remembers as replaced was replaced, what reveal has read was stored once,
\* and the properties below.
Sound(r, st, us, re) ==
    /\ r \in CallRecords
    /\ r.old \subseteq re
    /\ r.at \in {"limit", "verify"} => r.kind = "deliver"
    /\ r.kind = "reveal" /\ r.at \in {"write", "ok"} => r.secret \in us
    /\ r.kind = "deliver" /\ r.at = "ok" => r.secret \notin r.old
    /\ r.kind = "reveal" /\ r.at = "ok" => r.secret # st
    /\ r.kind = "rotate" /\ r.at = "ok" /\ r.alone => r.secret = st

\* The stored secret was written once, and is not one that was replaced.
StoredIsFresh == /\ stored \in Secrets \union {None}
                 /\ answered \subseteq Secrets \union {None}
                 /\ used \subseteq Secrets
                 /\ retired \subseteq used
                 /\ stored # None => stored \in used \ retired

IInv == /\ StoredIsFresh
        /\ call \in [Calls -> CallRecords]
        /\ \A c \in Calls : Sound(call[c], stored, used, retired)
=============================================================================
