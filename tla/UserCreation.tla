---------------------------- MODULE UserCreation ----------------------------
(***************************************************************************)
(* createUser of feature-users: an account is made by the auth server,     *)
(* whose INSERT makes the profile by a trigger, and then the profile is    *)
(* written by a statement of its own.  The answer of either may be lost,   *)
(* and an administrator who saw a failure tries again, or another tries at *)
(* the same time.                                                          *)
(***************************************************************************)
EXTENDS Naturals, FiniteSets

CONSTANTS Emails, Names,
          Calls,
          MaxRetries  \* bound on failed calls sent again

ASSUME CreationAssumption == MaxRetries \in Nat

VARIABLES account,  \* auth.users: per e-mail the call that made its account, a set of at most one
          profile,  \* profiles: per e-mail the row, a set of at most one
          call,     \* the calls of createUser
          retried   \* how often a call that failed was sent again

vars == <<account, profile, call, retried>>

Roles == {"member", "platform_admin"}
Inputs == [email : Emails, role : Roles, name : Names]
Idle == [at |-> "idle"]

Init == /\ account = [e \in Emails |-> {}] /\ profile = [e \in Emails |-> {}]
        /\ call = [c \in Calls |-> Idle]
        /\ retried = 0

Reply(c, result) == call' = [call EXCEPT ![c].at = result]

\* An administrator's form; a failed call may be sent again as it was.
Send(c) == /\ call[c] = Idle
           /\ \E input \in Inputs :
                call' = [call EXCEPT ![c] = [at |-> "account", input |-> input]]
           /\ UNCHANGED <<account, profile, retried>>

Retry(c) == /\ call[c].at = "error" /\ retried < MaxRetries
            /\ call' = [call EXCEPT ![c].at = "account"]
            /\ retried' = retried + 1
            /\ UNCHANGED <<account, profile>>

-----------------------------------------------------------------------------

\* The trigger: always a member.
handle_new_user(input) == [role |-> "member", name |-> input.name]

\* Mutant: an account that exists already is gone on with.
CreateOrFindAccount(c) ==
    LET input == call[c].input IN
    /\ call[c].at = "account"
    /\ IF account[input.email] = {}
       THEN /\ account' = [account EXCEPT ![input.email] = {c}]
            /\ profile' = [profile EXCEPT ![input.email] = {handle_new_user(input)}]
       ELSE UNCHANGED <<account, profile>>
    /\ Reply(c, "profile")
    /\ UNCHANGED retried

\* auth.admin.createUser with the trigger, one transaction of the auth server;
\* the e-mail of an account is taken.
CreateAccount(c) ==
    LET input == call[c].input IN
    /\ call[c].at = "account"
    /\ IF account[input.email] # {}
       THEN Reply(c, "error") /\ UNCHANGED <<account, profile>>
       ELSE /\ account' = [account EXCEPT ![input.email] = {c}]
            /\ profile' = [profile EXCEPT ![input.email] = {handle_new_user(input)}]
            /\ \E answer \in {"profile", "error"} : Reply(c, answer)
    /\ UNCHANGED retried

\* updateProfile, by the id of the account.
UpdateProfile(c) ==
    LET input == call[c].input IN
    /\ call[c].at = "profile"
    /\ profile' = [profile EXCEPT ![input.email] = {[role |-> input.role, name |-> input.name]}]
    /\ \E answer \in {"ok", "error"} : Reply(c, answer)
    /\ UNCHANGED <<account, retried>>

\* A statement fails, or the process dies, which the browser is told as well.
Fail(c) == /\ call[c].at \in {"account", "profile"}
           /\ Reply(c, "error")
           /\ UNCHANGED <<account, profile, retried>>

Next == \/ \E c \in Calls : Send(c) \/ Retry(c) \/ CreateAccount(c) \/ UpdateProfile(c) \/ Fail(c)

Spec == Init /\ [][Next]_vars

-----------------------------------------------------------------------------

\* Who is told that the user was created finds him as he was asked for, also
\* when others asked for the same e-mail, or he himself twice.
CreatedAsAsked ==
    \A c \in Calls :
      call[c].at = "ok" =>
        profile[call[c].input.email] = {[role |-> call[c].input.role, name |-> call[c].input.name]}

\* An administrator is made by the call that made the account and by none that
\* found the e-mail taken; a call that fails in between leaves a member.
AdministratorAsAsked ==
    \A e \in Emails :
      (\E row \in profile[e] : row.role = "platform_admin") =>
        \E c \in account[e] : /\ call[c].input.email = e
                              /\ call[c].input.role = "platform_admin"
                              /\ call[c].at \in {"ok", "error", "account"}

=============================================================================
