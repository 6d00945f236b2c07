------------------------------ MODULE SetupLock ------------------------------
(***************************************************************************)
(* First-time setup: createAdmin of feature-setup, over the setup_complete *)
(* row of app_settings and the profiles table of the Meta database.        *)
(*                                                                         *)
(* A request is one call of createAdmin.  The database statements and the  *)
(* auth call it awaits are separate transactions, so a step of the model   *)
(* is one of them, and other requests run between any two.  A statement    *)
(* may fail before it took effect, or take effect and have its answer      *)
(* lost; the process that runs the request may be killed at any await.     *)
(***************************************************************************)

CONSTANTS Requests,  \* calls of createAdmin; a retry is another request
          Accounts   \* the e-mail addresses the calls may name

ASSUME RequestsAssumption == Requests # {}

VARIABLES setting,   \* app_settings.value of the key setup_complete
          profile,   \* profiles.role of each account, or "none"
          pc,        \* where each request stands
          account    \* the e-mail in the input of each request

setupVars == <<setting, profile, pc, account>>

\* The jsonb values the code writes: false, {"status": "in_progress"}, true.
Open == "false"
InProgress == "in_progress"
Complete == "true"
Settings == {Open, InProgress, Complete}

ProfileRoles == {"none", "member", "platform_admin"}

\* A request that was granted the lock and has not answered yet.
Holding == {"creating", "promoting", "completing", "unlocking"}
\* A request that ended without having had its chance to release the lock: the
\* answer of tryLockSetup or the effect of unlockSetup was lost, or the process
\* was killed.
Abandoned == {"unanswered", "stranded", "killed"}
\* "refused": answered "Setup already complete"; "failed": any other error.
PCs == {"idle", "succeeded", "refused", "failed"} \union Holding \union Abandoned

Admins == {a \in Accounts : profile[a] = "platform_admin"}
Holders == {r \in Requests : pc[r] \in Holding}

\* parseSetupComplete of the repository, which isSetupComplete returns.
IsSetupComplete == setting = Complete

-----------------------------------------------------------------------------

\* The migration seeds the row with false.  Accounts with a member profile
\* may be there already, left by an earlier attempt or made by an operator.
Init == /\ setting = Open
        /\ profile \in [Accounts -> {"none", "member"}]
        /\ pc = [r \in Requests |-> "idle"]
        /\ account \in [Requests -> Accounts]

Goto(r, label) == pc' = [pc EXCEPT ![r] = label]

\* Mutants of tryLockSetup: the WHERE clause excludes only one of the values.
TryLockUnlessComplete(r) ==
    /\ pc[r] = "idle"
    /\ setting # Complete
    /\ setting' = InProgress
    /\ Goto(r, "creating") \/ Goto(r, "unanswered")
    /\ UNCHANGED <<profile, account>>

TryLockUnlessHeld(r) ==
    /\ pc[r] = "idle"
    /\ setting # InProgress
    /\ setting' = InProgress
    /\ Goto(r, "creating") \/ Goto(r, "unanswered")
    /\ UNCHANGED <<profile, account>>

\* UPDATE ... SET value = in_progress WHERE key = ... AND value = false.  The
\* call stands before the try block: when its answer is lost the lock is
\* taken and nothing releases it.
TryLockSetup(r) ==
    /\ pc[r] = "idle"
    /\ setting = Open
    /\ setting' = InProgress
    /\ \/ Goto(r, "creating")
       \/ Goto(r, "unanswered")
    /\ UNCHANGED <<profile, account>>

\* The UPDATE found no row, or did not run at all.
TryLockSetupDenied(r) ==
    /\ pc[r] = "idle"
    /\ \/ setting # Open /\ Goto(r, "refused")
       \/ Goto(r, "failed")
    /\ UNCHANGED <<setting, profile, account>>

\* Mutant: setup is marked complete before the profile is promoted.
CreateUserThenComplete(r) ==
    /\ pc[r] = "creating"
    /\ profile[account[r]] = "none"
    /\ profile' = [profile EXCEPT ![account[r]] = "member"]
    /\ Goto(r, "completing") \/ Goto(r, "unlocking")
    /\ UNCHANGED <<setting, account>>

\* auth.admin.createUser: the trigger handle_new_user inserts the profile as
\* a member in the same transaction.  The client returns an error as a value
\* when the answer is lost, and the code throws it.
CreateUser(r) ==
    /\ pc[r] = "creating"
    /\ profile[account[r]] = "none"
    /\ profile' = [profile EXCEPT ![account[r]] = "member"]
    /\ Goto(r, "promoting") \/ Goto(r, "unlocking")
    /\ UNCHANGED <<setting, account>>

PromoteProfileToAdmin(r) ==
    /\ pc[r] = "promoting"
    /\ profile' = [profile EXCEPT ![account[r]] = "platform_admin"]
    /\ Goto(r, "completing") \/ Goto(r, "unlocking")
    /\ UNCHANGED <<setting, account>>

CompleteSetup(r) ==
    /\ pc[r] = "completing"
    /\ setting' = Complete
    /\ Goto(r, "succeeded") \/ Goto(r, "unlocking")
    /\ UNCHANGED <<profile, account>>

\* Mutant: a failed call is answered without unlockSetup.
CallFailsUncaught(r) ==
    /\ pc[r] \in {"creating", "promoting", "completing"}
    /\ Goto(r, "failed")
    /\ UNCHANGED <<setting, profile, account>>

\* One of the three calls in the try block failed without effect; an e-mail
\* that is already registered is such a failure of createUser.
CallFails(r) ==
    /\ pc[r] \in {"creating", "promoting", "completing"}
    /\ Goto(r, "unlocking")
    /\ UNCHANGED <<setting, profile, account>>

\* The catch block: unlockSetup writes false whatever the row holds.
UnlockSetup(r) ==
    /\ pc[r] = "unlocking"
    /\ setting' = Open
    /\ Goto(r, "failed")
    /\ UNCHANGED <<profile, account>>

\* unlockSetup itself throws, out of the catch block.
UnlockFails(r) ==
    /\ pc[r] = "unlocking"
    /\ Goto(r, "stranded")
    /\ UNCHANGED <<setting, profile, account>>

\* The process is killed: a deployment, a function timeout, an OOM kill.
Kill(r) ==
    /\ pc[r] \in Holding
    /\ Goto(r, "killed")
    /\ UNCHANGED <<setting, profile, account>>

\* The steps the event loop takes once a request holds the lock.
Proceed(r) ==
    \/ CreateUser(r)
    \/ PromoteProfileToAdmin(r)
    \/ CompleteSetup(r)
    \/ CallFails(r)
    \/ UnlockSetup(r)
    \/ UnlockFails(r)

Next == \E r \in Requests : \/ TryLockSetup(r)
                            \/ TryLockSetupDenied(r)
                            \/ Proceed(r)
                            \/ Kill(r)

Spec == Init /\ [][Next]_setupVars

\* Every await of a running request returns or throws in the end.  Nothing
\* makes a client send a request, and nothing restarts a killed one.
FairSpec == Spec /\ \A r \in Requests : WF_setupVars(Proceed(r))

-----------------------------------------------------------------------------

TypeOK == /\ setting \in Settings
          /\ profile \in [Accounts -> ProfileRoles]
          /\ pc \in [Requests -> PCs]
          /\ account \in [Requests -> Accounts]

\* The lock excludes: between tryLockSetup and its answer, a createAdmin
\* never overlaps with another one that was granted the lock, whatever
\* failed, was lost or was killed before.
OneHolder == \A r, s \in Holders : r = s

\* When setup counts as complete somebody can administrate the platform: no
\* interleaving of failures leaves the row true without an admin profile
\* (the row is never reset, so such an installation could not be recovered).
CompleteHasAdmin == setting = Complete => Admins # {}

\* A createAdmin that answered success is the last word: its account is an
\* admin, the row stays true in spite of the unconditional UPDATE that
\* unlockSetup runs for other requests, and no request holds the lock.
SuccessIsFinal ==
    \A r \in Requests : pc[r] = "succeeded" =>
        /\ setting = Complete
        /\ account[r] \in Admins
        /\ Holders = {}

\* Two calls of createAdmin never both answer success.
OneSuccess ==
    \A r, s \in Requests : pc[r] = "succeeded" /\ pc[s] = "succeeded" => r = s

\* Seen from outside, setup is a window that opens to one request at a time
\* and closes for good: SetupOnce.  While a request may still run unlockSetup
\* the window counts as held even if the row already says true.
Phase == IF setting = Open THEN "open"
         ELSE IF setting = Complete /\ Holders = {} THEN "done" ELSE "held"

Once == INSTANCE SetupOnce WITH phase <- Phase, admins <- Admins

\* Every behaviour of createAdmin is one that SetupOnce allows.
ImplementsOnce == Once!Spec

\* An in_progress row always has somebody to blame: a request that still runs,
\* or one that was cut off.  Every failure the catch block sees releases it.
LeakNeedsLoss ==
    setting = InProgress => \E r \in Requests : pc[r] \in Holding \union Abandoned

\* A lock that was taken is released or turned into completion, unless some
\* request was cut off: a client is not locked out by failures alone.
LockIsReleased ==
    setting = InProgress ~>
        (setting # InProgress \/ \E r \in Requests : pc[r] \in Abandoned)

\* What the refusal says of the program: "Setup already complete".
RefusalMeansComplete ==
    [][\A r \in Requests :
         pc[r] # "refused" /\ pc'[r] = "refused" => IsSetupComplete]_setupVars

=============================================================================
