----------------------------- MODULE SetupProofs ----------------------------
(*****************************************************************************)
(* Proofs about first-time setup, for any number of requests, accounts and   *)
(* browsers: the safety properties of createAdmin, that it implements        *)
(* SetupOnce, and what the middleware's gate makes of it.                    *)
(*                                                                           *)
(* The invariant that carries the first argument ties where a request        *)
(* stands to the row it believes it has locked: only the request that holds  *)
(* the lock can have moved the row away from in_progress, and then it is     *)
(* about to unlock or has already answered.                                  *)
(*****************************************************************************)
EXTENDS SetupGate, TLAPS

\* A request inside the try block faces the in_progress row it wrote.
TryBlockHoldsRow ==
    \A r \in Requests :
        pc[r] \in {"creating", "promoting", "completing"} => setting = InProgress

\* A request in the catch block may have written true, but not false.
CatchBlockBeforeRelease ==
    \A r \in Requests : pc[r] = "unlocking" => setting # Open

\* completeSetup is awaited only after the promotion took effect.
PromotedBeforeComplete ==
    \A r \in Requests : pc[r] = "completing" => profile[account[r]] = "platform_admin"

IInv == /\ TypeOK
        /\ OneHolder
        /\ TryBlockHoldsRow
        /\ CatchBlockBeforeRelease
        /\ PromotedBeforeComplete
        /\ CompleteHasAdmin
        /\ SuccessIsFinal
        /\ OneSuccess
        /\ LeakNeedsLoss

USE DEF Open, InProgress, Complete, Settings, ProfileRoles, Holding, Abandoned,
        PCs, Admins, Holders

LEMMA InitIInv == Init => IInv
BY DEF Init, IInv, TypeOK, OneHolder, TryBlockHoldsRow, CatchBlockBeforeRelease,
       PromotedBeforeComplete, CompleteHasAdmin, SuccessIsFinal, OneSuccess,
       LeakNeedsLoss

\* Every statement of createAdmin preserves the invariant.
LEMMA NextIInv == IInv /\ [Next]_setupVars => IInv'
<1> SUFFICES ASSUME IInv, [Next]_setupVars PROVE IInv'
  OBVIOUS
<1> USE DEF IInv, TypeOK, OneHolder, TryBlockHoldsRow, CatchBlockBeforeRelease,
            PromotedBeforeComplete, CompleteHasAdmin, SuccessIsFinal, OneSuccess,
            LeakNeedsLoss, Goto
<1>1. ASSUME NEW r \in Requests, TryLockSetup(r) PROVE IInv'
  BY <1>1 DEF TryLockSetup
<1>2. ASSUME NEW r \in Requests, TryLockSetupDenied(r) PROVE IInv'
  BY <1>2 DEF TryLockSetupDenied
<1>3. ASSUME NEW r \in Requests, CreateUser(r) PROVE IInv'
  BY <1>3 DEF CreateUser
<1>4. ASSUME NEW r \in Requests, PromoteProfileToAdmin(r) PROVE IInv'
  BY <1>4 DEF PromoteProfileToAdmin
<1>5. ASSUME NEW r \in Requests, CompleteSetup(r) PROVE IInv'
  BY <1>5 DEF CompleteSetup
<1>6. ASSUME NEW r \in Requests, CallFails(r) PROVE IInv'
  BY <1>6 DEF CallFails
<1>7. ASSUME NEW r \in Requests, UnlockSetup(r) PROVE IInv'
  BY <1>7 DEF UnlockSetup
<1>8. ASSUME NEW r \in Requests, UnlockFails(r) PROVE IInv'
  BY <1>8 DEF UnlockFails
<1>9. ASSUME NEW r \in Requests, Kill(r) PROVE IInv'
  BY <1>9 DEF Kill
<1>10. CASE UNCHANGED setupVars
  BY <1>10 DEF setupVars
<1>11. QED
  BY <1>1, <1>2, <1>3, <1>4, <1>5, <1>6, <1>7, <1>8, <1>9, <1>10 DEF Next, Proceed

-----------------------------------------------------------------------------

\* The invariant holds in every reachable state.
THEOREM SetupInvariant == Spec => []IInv
BY InitIInv, NextIInv, PTL DEF Spec

\* createAdmin keeps the row, the profiles and its requests in their types.
THEOREM SetupTypeCorrect == Spec => []TypeOK
<1>1. IInv => TypeOK
  BY DEF IInv
<1> QED
  BY <1>1, SetupInvariant, PTL

\* However many calls of createAdmin overlap, fail or are killed, no two of
\* them are between taking the lock and answering.
THEOREM SetupExcludes == Spec => []OneHolder
<1>1. IInv => OneHolder
  BY DEF IInv
<1> QED
  BY <1>1, SetupInvariant, PTL

\* setup_complete is never true on an installation nobody can administrate.
THEOREM CompleteSetupHasAdmin == Spec => []CompleteHasAdmin
<1>1. IInv => CompleteHasAdmin
  BY DEF IInv
<1> QED
  BY <1>1, SetupInvariant, PTL

\* A success that was answered stays: nobody unlocks it.
THEOREM SetupSuccessIsFinal == Spec => []SuccessIsFinal
<1>1. IInv => SuccessIsFinal
  BY DEF IInv
<1> QED
  BY <1>1, SetupInvariant, PTL

\* Nobody repeats it: the invariant has at most one success, since the row that
\* a second tryLockSetup would need is true from the first on.
THEOREM SetupSucceedsOnce == Spec => []OneSuccess
<1>1. IInv => OneSuccess
  BY DEF IInv
<1> QED
  BY <1>1, SetupInvariant, PTL

\* An in_progress row without a running request means one was cut off.
THEOREM SetupLeakNeedsLoss == Spec => []LeakNeedsLoss
<1>1. IInv => LeakNeedsLoss
  BY DEF IInv
<1> QED
  BY <1>1, SetupInvariant, PTL

-----------------------------------------------------------------------------

LEMMA InitOnce == Init => Once!Init
BY DEF Init, Once!Init, Phase

\* Each statement is one step of the window, or none.
LEMMA NextOnce == IInv /\ [Next]_setupVars => [Once!Next]_(Once!onceVars)
<1> SUFFICES ASSUME IInv, [Next]_setupVars
             PROVE  \/ Once!Next
                    \/ UNCHANGED <<Phase, Admins>>
  BY DEF Once!onceVars
<1> USE DEF IInv, TypeOK, Goto
<1>1. ASSUME NEW r \in Requests, TryLockSetup(r) PROVE Once!Acquire
  BY <1>1 DEF TryLockSetup, Once!Acquire, Phase
<1>2. ASSUME NEW r \in Requests, TryLockSetupDenied(r)
      PROVE  UNCHANGED <<Phase, Admins>>
  BY <1>2 DEF TryLockSetupDenied, Phase
<1>3. ASSUME NEW r \in Requests, CreateUser(r)
      PROVE  UNCHANGED <<Phase, Admins>>
  BY <1>3 DEF CreateUser, Phase, TryBlockHoldsRow
<1>4. ASSUME NEW r \in Requests, PromoteProfileToAdmin(r)
      PROVE  \E a \in Accounts : Once!Appoint(a)
  BY <1>4 DEF PromoteProfileToAdmin, Once!Appoint, Phase, TryBlockHoldsRow
<1>5. ASSUME NEW r \in Requests, CompleteSetup(r)
      PROVE  Once!Finish \/ UNCHANGED <<Phase, Admins>>
  <2>1. Phase = "held" /\ Admins' = Admins /\ Admins # {}
    BY <1>5 DEF CompleteSetup, Phase, TryBlockHoldsRow, PromotedBeforeComplete
  <2>2. CASE Goto(r, "succeeded")
    <3>1. Holders' = {}
      BY <1>5, <2>2 DEF CompleteSetup, OneHolder
    <3> QED
      BY <1>5, <2>1, <3>1 DEF CompleteSetup, Once!Finish, Phase
  <2>3. CASE Goto(r, "unlocking")
    <3>1. r \in Holders'
      BY <2>3
    <3> QED
      BY <1>5, <2>1, <3>1 DEF CompleteSetup, Phase
  <2> QED
    BY <1>5, <2>2, <2>3 DEF CompleteSetup
<1>6. ASSUME NEW r \in Requests, CallFails(r)
      PROVE  UNCHANGED <<Phase, Admins>>
  BY <1>6 DEF CallFails, Phase, TryBlockHoldsRow
<1>7. ASSUME NEW r \in Requests, UnlockSetup(r)
      PROVE  Once!Release
  BY <1>7 DEF UnlockSetup, Once!Release, Phase, CatchBlockBeforeRelease
<1>8. ASSUME NEW r \in Requests, UnlockFails(r) \/ Kill(r)
      PROVE  Once!Finish \/ UNCHANGED <<Phase, Admins>>
  BY <1>8 DEF UnlockFails, Kill, Once!Finish, Phase, OneHolder, TryBlockHoldsRow,
              CatchBlockBeforeRelease, CompleteHasAdmin
<1>9. CASE UNCHANGED setupVars
  BY <1>9 DEF setupVars, Phase
<1>10. CASE Next
  <2>1. PICK r \in Requests :
          TryLockSetup(r) \/ TryLockSetupDenied(r) \/ Proceed(r) \/ Kill(r)
    BY <1>10 DEF Next
  <2> QED
    BY <2>1, <1>1, <1>2, <1>3, <1>4, <1>5, <1>6, <1>7, <1>8
       DEF Proceed, Once!Next
<1> QED
  BY <1>9, <1>10

\* createAdmin implements the one-shot window: administrators appear only
\* while the lock is held, and after completion the window never reopens.
THEOREM SetupImplementsOnce == Spec => ImplementsOnce
BY InitOnce, NextOnce, SetupInvariant, PTL DEF Spec, ImplementsOnce, Once!Spec

-----------------------------------------------------------------------------
(* The gate.  What bounds the redirects is that a load passes each page at    *)
(* most once before the cookie is set, and none after it.                     *)

GateTypeOK == /\ cookie \in [Browsers -> BOOLEAN]
              /\ user \in [Browsers -> Accounts \union {NoUser}]
              /\ page \in [Browsers -> Pages]
              /\ loading \in [Browsers -> BOOLEAN]
              /\ hops \in [Browsers -> Nat]
              /\ form \in [Browsers -> Requests \union {NoRequest}]

\* No page is loaded while the form waits: what is signed in does not change
\* between two redirects.
OneThingAtATime == \A b \in Browsers : loading[b] => form[b] = NoRequest

\* Where a load can be after how many redirects.
HopsFit(b) ==
    \/ hops[b] = 0
    \/ user[b] = NoUser /\ hops[b] = 1 /\ page[b] = "/login"
    \/ user[b] # NoUser /\ hops[b] = 1 /\ page[b] \in {"/", "/setup"}
    \/ user[b] # NoUser /\ hops[b] = 2 /\ page[b] = "/setup"
    \/ user[b] # NoUser /\ hops[b] \in {2, 3} /\ page[b] = "/" /\ cookie[b]

LoadsFit == \A b \in Browsers : /\ loading[b] => HopsFit(b)
                                /\ hops[b] <= MaxRedirects

GateIInv == /\ IInv
            /\ GateTypeOK
            /\ OneThingAtATime
            /\ GateMeansAdmin
            /\ LoadsFit

USE DEF Pages, PublicPages, MaxRedirects

LEMMA InitGate == GateInit => GateIInv
BY InitIInv
   DEF GateInit, GateIInv, GateTypeOK, OneThingAtATime, GateMeansAdmin, LoadsFit,
       HopsFit

\* Nobody stops being an administrator.
LEMMA AdminsStay == ASSUME IInv, [Next]_setupVars PROVE Admins \subseteq Admins'
<1> USE DEF IInv, TypeOK, Goto
<1>1. ASSUME NEW r \in Requests, TryLockSetup(r) \/ TryLockSetupDenied(r)
      PROVE  Admins \subseteq Admins'
  BY <1>1 DEF TryLockSetup, TryLockSetupDenied
<1>2. ASSUME NEW r \in Requests, CreateUser(r) PROVE Admins \subseteq Admins'
  BY <1>2 DEF CreateUser
<1>3. ASSUME NEW r \in Requests, PromoteProfileToAdmin(r) PROVE Admins \subseteq Admins'
  BY <1>3 DEF PromoteProfileToAdmin
<1>4. ASSUME NEW r \in Requests, \/ CompleteSetup(r) \/ CallFails(r) \/ UnlockSetup(r)
                                 \/ UnlockFails(r) \/ Kill(r)
      PROVE  Admins \subseteq Admins'
  BY <1>4 DEF CompleteSetup, CallFails, UnlockSetup, UnlockFails, Kill
<1>5. CASE UNCHANGED setupVars
  BY <1>5 DEF setupVars
<1> QED
  BY <1>1, <1>2, <1>3, <1>4, <1>5 DEF Next, Proceed

\* createAdmin goes on, and no browser moves.
LEMMA ServerKeepsGate ==
    ASSUME GateIInv, [Next]_setupVars, UNCHANGED gateVars PROVE GateIInv'
<1>1. IInv' /\ Admins \subseteq Admins'
  BY NextIInv, AdminsStay DEF GateIInv
<1>2. (GateTypeOK /\ OneThingAtATime /\ LoadsFit)'
  BY DEF GateIInv, gateVars, GateTypeOK, OneThingAtATime, LoadsFit, HopsFit
<1>3. GateMeansAdmin'
  BY <1>1 DEF GateIInv, GateMeansAdmin, gateVars
<1> QED
  BY <1>1, <1>2, <1>3 DEF GateIInv

\* A browser begins to load a page.
LEMMA LoadKeepsGate ==
    ASSUME GateIInv, NEW b \in Browsers, NEW path \in Pages, Load(b, path),
           UNCHANGED setupVars, cookie' \in [Browsers -> BOOLEAN],
           \A c \in Browsers : cookie'[c] => cookie[c] \/ Admins # {},
           user' \in [Browsers -> Accounts \union {NoUser}],
           \A c \in Browsers : c # b => /\ cookie'[c] = cookie[c]
                                        /\ user'[c] = user[c]
                                        /\ form'[c] = form[c],
           form' \in [Browsers -> Requests \union {NoRequest}], form'[b] = NoRequest
    PROVE  GateIInv'
<1>1. IInv' /\ Admins' = Admins
  BY NextIInv DEF GateIInv, setupVars
<1>2. /\ page' \in [Browsers -> Pages] /\ page'[b] = path
      /\ loading' \in [Browsers -> BOOLEAN] /\ loading'[b]
      /\ hops' \in [Browsers -> Nat] /\ hops'[b] = 0
      /\ \A c \in Browsers : c # b => /\ page'[c] = page[c]
                                      /\ loading'[c] = loading[c]
                                      /\ hops'[c] = hops[c]
  BY DEF Load, GateIInv, GateTypeOK
<1>3. GateTypeOK'
  BY <1>2 DEF GateTypeOK
<1>4. OneThingAtATime'
  BY <1>2 DEF GateIInv, OneThingAtATime
<1>5. GateMeansAdmin'
  BY <1>1, <1>2 DEF GateIInv, GateMeansAdmin
<1>6. LoadsFit'
  BY <1>2 DEF GateIInv, LoadsFit, HopsFit
<1> QED
  BY <1>1, <1>3, <1>4, <1>5, <1>6 DEF GateIInv

LEMMA NextGate == GateIInv /\ [GateNext]_vars => GateIInv'
<1> SUFFICES ASSUME GateIInv, [GateNext]_vars PROVE GateIInv'
  OBVIOUS
<1>t. IInv /\ GateTypeOK
  BY DEF GateIInv
<1>1. ASSUME NEW b \in Browsers, Visit(b) PROVE GateIInv'
  BY <1>1, <1>t, LoadKeepsGate DEF Visit, Shown, GateTypeOK
<1>2. ASSUME NEW b \in Browsers, SignIn(b) PROVE GateIInv'
  BY <1>2, <1>t, LoadKeepsGate DEF SignIn, Shown, GateTypeOK
<1>3. ASSUME NEW b \in Browsers, SignOut(b) PROVE GateIInv'
  BY <1>3, <1>t, LoadKeepsGate DEF SignOut, Shown, GateTypeOK
<1>4. ASSUME NEW b \in Browsers, NEW r \in Requests, Submit(b, r) PROVE GateIInv'
  <2>1. [Next]_setupVars
    BY <1>4 DEF Submit, Next
  <2>2. IInv' /\ Admins \subseteq Admins'
    BY <1>t, <2>1, NextIInv, AdminsStay
  <2>3. GateTypeOK'
    BY <1>4, <1>t DEF Submit, GateTypeOK
  <2>4. (OneThingAtATime /\ LoadsFit)'
    BY <1>4, <1>t
       DEF Submit, Shown, GateTypeOK, GateIInv, OneThingAtATime, LoadsFit, HopsFit
  <2>5. GateMeansAdmin'
    BY <1>4, <2>2 DEF Submit, GateIInv, GateMeansAdmin
  <2> QED
    BY <2>2, <2>3, <2>4, <2>5 DEF GateIInv
<1>5. ASSUME NEW b \in Browsers, Answer(b) PROVE GateIInv'
  <2>1. CASE pc[form[b]] = "succeeded"
    <3>1. Admins # {}
      BY <1>5, <1>t, <2>1 DEF Answer, GateTypeOK, IInv, SuccessIsFinal
    <3>2. /\ cookie' \in [Browsers -> BOOLEAN]
          /\ \A c \in Browsers : c # b => cookie'[c] = cookie[c] /\ form'[c] = form[c]
          /\ form' \in [Browsers -> Requests \union {NoRequest}] /\ form'[b] = NoRequest
      BY <1>5, <1>t, <2>1 DEF Answer, GateTypeOK
    <3>3. Load(b, "/login") /\ UNCHANGED <<setupVars, user>>
      BY <1>5, <2>1 DEF Answer
    <3> QED
      BY <1>t, <3>1, <3>2, <3>3, LoadKeepsGate DEF GateTypeOK
  <2>2. CASE pc[form[b]] # "succeeded"
    <3>1. IInv' /\ Admins' = Admins
      BY <1>5, <1>t, NextIInv DEF Answer, setupVars
    <3>2. /\ form' \in [Browsers -> Requests \union {NoRequest}]
          /\ \A c \in Browsers : form'[c] \in {form[c], NoRequest}
          /\ UNCHANGED <<cookie, user, page, loading, hops>>
      BY <1>5, <1>t, <2>2 DEF Answer, GateTypeOK
    <3> QED
      BY <3>1, <3>2
         DEF GateIInv, GateTypeOK, OneThingAtATime, GateMeansAdmin, LoadsFit, HopsFit
  <2> QED
    BY <2>1, <2>2
<1>6. ASSUME NEW b \in Browsers, Middleware(b) PROVE GateIInv'
  <2>1. PICK answered \in BOOLEAN :
          /\ cookie' = [cookie EXCEPT ![b] = SetupComplete(b, answered)]
          /\ page' = [page EXCEPT ![b] = Redirect(b, SetupComplete(b, answered))]
          /\ IF Redirect(b, SetupComplete(b, answered)) = page[b]
             THEN loading' = [loading EXCEPT ![b] = FALSE] /\ UNCHANGED hops
             ELSE hops' = [hops EXCEPT ![b] = @ + 1] /\ UNCHANGED loading
    BY <1>6 DEF Middleware
  <2> DEFINE complete == SetupComplete(b, answered)
             target == Redirect(b, complete)
  <2>2. /\ loading[b] /\ form[b] = NoRequest /\ HopsFit(b)
        /\ UNCHANGED <<setupVars, user, form>>
    BY <1>6 DEF Middleware, GateIInv, OneThingAtATime, LoadsFit
  <2>3. IInv' /\ Admins' = Admins
    BY <1>t, <2>2, NextIInv DEF setupVars
  <2>4. complete \in BOOLEAN /\ (cookie[b] => complete) /\ (complete => Admins # {})
    BY <1>t DEF SetupComplete, IsSetupComplete, IInv, CompleteHasAdmin, GateIInv,
                GateMeansAdmin, GateTypeOK
  <2>5. /\ target \in Pages
        /\ user[b] = NoUser => target \in {"/login", page[b]} \ {"/", "/users"}
        /\ user[b] # NoUser /\ page[b] \in {"/", "/setup"} =>
             target = IF complete THEN "/" ELSE "/setup"
        /\ user[b] # NoUser /\ page[b] = "/login" => target = "/"
        /\ page[b] = "/users" => target \in {"/users", "/login"}
        /\ page[b] = "/login" => target \in {"/", "/login"}
        /\ user[b] # NoUser /\ page[b] = "/users" => target = "/users"
    BY <1>t, <2>4 DEF Redirect, GateTypeOK
  <2> HIDE DEF complete, target
  <2>6. /\ cookie' = [cookie EXCEPT ![b] = complete]
        /\ page' = [page EXCEPT ![b] = target]
        /\ \/ /\ target = page[b]
              /\ loading' = [loading EXCEPT ![b] = FALSE] /\ UNCHANGED hops
           \/ /\ target # page[b]
              /\ hops' = [hops EXCEPT ![b] = @ + 1] /\ UNCHANGED loading
    BY <2>1 DEF complete, target
  <2>7. GateTypeOK'
    <3>1. cookie' \in [Browsers -> BOOLEAN] /\ page' \in [Browsers -> Pages]
      BY <1>t, <2>4, <2>5, <2>6 DEF GateTypeOK
    <3>2. loading' \in [Browsers -> BOOLEAN] /\ hops' \in [Browsers -> Nat]
      <4>1. hops \in [Browsers -> Nat] /\ loading \in [Browsers -> BOOLEAN]
        BY <1>t DEF GateTypeOK
      <4>2. loading' \in [Browsers -> BOOLEAN]
        BY <2>6, <4>1
      <4>3. hops' = hops \/ hops' = [hops EXCEPT ![b] = hops[b] + 1]
        BY <2>6
      <4>4. hops[b] + 1 \in Nat
        BY <4>1
      <4> QED
        BY <4>1, <4>2, <4>3, <4>4
    <3> QED
      BY <1>t, <2>2, <3>1, <3>2 DEF GateTypeOK, setupVars
  <2>8. OneThingAtATime'
    BY <1>t, <2>2, <2>6 DEF GateTypeOK, GateIInv, OneThingAtATime
  <2>9. /\ cookie'[b] = complete /\ page'[b] = target
        /\ hops'[b] = IF target = page[b] THEN hops[b] ELSE hops[b] + 1
        /\ loading'[b] = (target # page[b])
        /\ \A c \in Browsers : c # b => /\ cookie'[c] = cookie[c] /\ page'[c] = page[c]
                                        /\ hops'[c] = hops[c] /\ loading'[c] = loading[c]
    BY <1>t, <2>2, <2>6 DEF GateTypeOK
  <2>10. GateMeansAdmin'
    BY <2>3, <2>4, <2>5, <2>9 DEF GateIInv, GateMeansAdmin
  <2>11. loading'[b] => HopsFit(b)'
    BY <1>t, <2>2, <2>4, <2>5, <2>9 DEF HopsFit, GateTypeOK
  <2>12. hops'[b] <= MaxRedirects
    BY <1>t, <2>2, <2>4, <2>5, <2>9 DEF HopsFit, GateTypeOK
  <2>13. LoadsFit'
    BY <2>2, <2>9, <2>11, <2>12 DEF GateIInv, LoadsFit, HopsFit
  <2> QED
    BY <2>3, <2>7, <2>8, <2>10, <2>13 DEF GateIInv
<1>7. ASSUME NEW b \in Browsers, TooManyRequests(b) PROVE GateIInv'
  <2>1. IInv' /\ Admins' = Admins
    BY <1>7, <1>t, NextIInv DEF TooManyRequests, setupVars
  <2> QED
    BY <1>7, <1>t, <2>1 DEF TooManyRequests, GateIInv, GateTypeOK, OneThingAtATime,
       GateMeansAdmin, LoadsFit, HopsFit
<1>8. ASSUME NEW r \in Requests, Server(r) PROVE GateIInv'
  BY <1>8, ServerKeepsGate DEF Server, Next
<1>9. CASE UNCHANGED vars
  BY <1>9, ServerKeepsGate DEF vars
<1> QED
  BY <1>1, <1>2, <1>3, <1>4, <1>5, <1>6, <1>7, <1>8, <1>9 DEF GateNext

\* Whoever is treated as set up, by the cookie or by being shown the dashboard,
\* is so on a platform with an administrator.
THEOREM GateHasAdmin == GateSpec => []GateMeansAdmin
<1>1. GateIInv => GateMeansAdmin
  BY DEF GateIInv
<1> QED
  BY <1>1, InitGate, NextGate, PTL DEF GateSpec

\* The middleware redirects a load at most three times, whatever the row does
\* meanwhile and however its queries fail.
THEOREM LoadsEnd == GateSpec => []RedirectsBounded
<1>1. GateIInv => RedirectsBounded
  BY DEF GateIInv, LoadsFit, RedirectsBounded
<1> QED
  BY <1>1, InitGate, NextGate, PTL DEF GateSpec

=============================================================================
