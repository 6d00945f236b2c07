------------------------- MODULE UserCreationProofs -------------------------
(***************************************************************************)
(* CreatedAsAsked and AdministratorAsAsked for any number of calls and     *)
(* e-mails, and any bound on retries.  Both rest on who made the account:  *)
(* a call that goes on to the profile has made it, and nobody else can.    *)
(***************************************************************************)
EXTENDS UserCreation, TLAPS

States == {"account", "profile", "ok", "error"}
CallsMade == [at : States, input : Inputs]

\* The types the proofs need.
Types == /\ account \in [Emails -> SUBSET Calls]
         /\ profile \in [Emails -> SUBSET [role : Roles, name : Names]]
         /\ call \in [Calls -> {Idle} \union CallsMade]

\* A call that is past its account is the one that made it.
MadeIt == \A c \in Calls : call[c].at \in {"profile", "ok"} => account[call[c].input.email] = {c}

\* There is no profile without an account.
RowHasAccount == \A e \in Emails : account[e] = {} => profile[e] = {}

\* Who made an account asked for it, with this e-mail.
MakerAsked == \A e \in Emails : \A c \in account[e] : call[c] # Idle /\ call[c].input.email = e

\* The invariant: what a row says of an administrator is its maker's input.
IInv == /\ Types /\ MadeIt /\ RowHasAccount /\ MakerAsked
        /\ CreatedAsAsked /\ AdministratorAsAsked

LEMMA CallTypes ==
    ASSUME Types, NEW c \in Calls, call[c].at # "idle"
    PROVE  call[c] \in CallsMade
BY DEF Types, Idle

\* Where accounts and profiles stay, calls that made an account need only not
\* become calls that write a profile.
LEMMA StillAsAsked ==
    ASSUME IInv, account' = account, profile' = profile,
           \A e \in Emails : \A d \in account[e] :
             /\ call'[d].input = call[d].input /\ call'[d] # Idle
             /\ call'[d].at \in {"profile", "ok", "error", "account"}
             /\ call'[d].at = "profile" => call[d].at = "profile"
    PROVE  RowHasAccount' /\ MakerAsked' /\ AdministratorAsAsked'
<1>1. RowHasAccount' /\ MakerAsked'
  BY DEF IInv, RowHasAccount, MakerAsked
<1>2. AdministratorAsAsked'
  <2> SUFFICES ASSUME NEW e \in Emails, NEW r \in profile[e], r.role = "platform_admin"
               PROVE  \E d \in account[e] :
                        /\ call'[d].input.email = e
                        /\ call'[d].input.role = "platform_admin"
                        /\ call'[d].at \in {"ok", "error", "account"}
    BY DEF AdministratorAsAsked
  <2>1. PICK d \in account[e] : /\ call[d].input.email = e
                                /\ call[d].input.role = "platform_admin"
                                /\ call[d].at \in {"ok", "error", "account"}
    BY DEF IInv, AdministratorAsAsked
  <2> QED BY <2>1
<1> QED BY <1>1, <1>2

LEMMA CreationInit == Init => IInv
BY DEF Init, IInv, Types, MadeIt, RowHasAccount, MakerAsked, CreatedAsAsked, AdministratorAsAsked, Idle

LEMMA CreationStep == IInv /\ [Next]_vars => IInv'
<1> SUFFICES ASSUME IInv, [Next]_vars PROVE IInv'
  OBVIOUS
<1> USE DEF IInv
<1>1. CASE UNCHANGED vars
  BY <1>1 DEF vars, Types, MadeIt, RowHasAccount, MakerAsked, CreatedAsAsked, AdministratorAsAsked
<1>2. ASSUME NEW c \in Calls, Send(c) PROVE IInv'
  <2> PICK input \in Inputs : call' = [call EXCEPT ![c] = [at |-> "account", input |-> input]]
    BY <1>2 DEF Send
  <2>1. call[c] = Idle /\ account' = account /\ profile' = profile
    BY <1>2 DEF Send
  <2>2. Types'
    BY <2>1 DEF Types, CallsMade, States
  <2>3. \A e \in Emails : c \notin account[e]
    BY <2>1 DEF MakerAsked
  <2>4. \A d \in Calls : d # c => call'[d] = call[d]
    BY DEF Types
  <2>5. call'[c].at = "account"
    BY DEF Types
  <2>6. MadeIt' /\ CreatedAsAsked'
    BY <2>1, <2>4, <2>5 DEF MadeIt, CreatedAsAsked
  <2>7. RowHasAccount' /\ MakerAsked'
    BY <2>1, <2>3, <2>4 DEF RowHasAccount, MakerAsked, Types
  <2>8. AdministratorAsAsked'
    BY <2>1, <2>3, <2>4 DEF AdministratorAsAsked, Types
  <2> QED BY <2>2, <2>6, <2>7, <2>8
<1>3. ASSUME NEW c \in Calls, Retry(c) PROVE IInv'
  <2>1. /\ call[c].at = "error" /\ account' = account /\ profile' = profile
        /\ call' = [call EXCEPT ![c].at = "account"]
    BY <1>3 DEF Retry
  <2>2. call[c] \in CallsMade
    BY <2>1, CallTypes
  <2>3. \A d \in Calls : d # c => call'[d] = call[d]
    BY <2>1 DEF Types
  <2>4. call'[c] = [at |-> "account", input |-> call[c].input]
    BY <2>1, <2>2 DEF Types, CallsMade
  <2>5. Types'
    BY <2>1, <2>2, <2>4 DEF Types, CallsMade, States
  <2>6. MadeIt' /\ CreatedAsAsked'
    BY <2>1, <2>3, <2>4 DEF MadeIt, CreatedAsAsked
  <2>7. \A e \in Emails : \A d \in account[e] :
          /\ call'[d].input = call[d].input /\ call'[d] # Idle /\ d \in Calls
          /\ call'[d].at \in {"profile", "ok", "error", "account"}
          /\ call'[d].at = "profile" => call[d].at = "profile"
    <3> SUFFICES ASSUME NEW e \in Emails, NEW d \in account[e]
                 PROVE  /\ call'[d].input = call[d].input /\ call'[d] # Idle /\ d \in Calls
                        /\ call'[d].at \in {"profile", "ok", "error", "account"}
                        /\ call'[d].at = "profile" => call[d].at = "profile"
      OBVIOUS
    <3>1. d \in Calls /\ call[d] \in CallsMade
      BY DEF Types, MakerAsked
    <3>2. CASE d = c
      BY <2>4, <3>1, <3>2 DEF Idle
    <3>3. CASE d # c
      BY <2>3, <3>1, <3>3 DEF CallsMade, States, Idle
    <3> QED BY <3>2, <3>3
  <2>8. RowHasAccount' /\ MakerAsked' /\ AdministratorAsAsked'
    BY <2>1, <2>7, StillAsAsked
  <2> QED BY <2>5, <2>6, <2>8
<1>4. ASSUME NEW c \in Calls, CreateAccount(c) PROVE IInv'
  <2> DEFINE input == call[c].input
  <2>1. call[c].at = "account" /\ call[c] \in CallsMade
    BY <1>4, CallTypes DEF CreateAccount
  <2>2. input \in Inputs /\ input.email \in Emails
    BY <2>1 DEF CallsMade, Inputs
  <2>3. PICK answer \in {"profile", "error"} : call' = [call EXCEPT ![c].at = answer]
    BY <1>4 DEF CreateAccount, Reply
  <2>4. call'[c] = [at |-> answer, input |-> input]
    BY <2>1, <2>3 DEF Types, CallsMade
  <2>5. \A d \in Calls : d # c => call'[d] = call[d]
    BY <2>3 DEF Types
  <2>6. CASE account[input.email] # {}
    <3>1. account' = account /\ profile' = profile /\ answer = "error"
      BY <1>4, <2>1, <2>3, <2>4, <2>6 DEF CreateAccount, Reply, Types
    <3>2. Types'
      BY <2>2, <2>3, <2>4, <3>1 DEF Types, CallsMade, States
    <3>3. MadeIt' /\ CreatedAsAsked'
      BY <2>4, <2>5, <3>1 DEF MadeIt, CreatedAsAsked
    <3>4. \A e \in Emails : \A d \in account[e] :
            /\ call'[d].input = call[d].input /\ call'[d] # Idle /\ d \in Calls
            /\ call'[d].at \in {"profile", "ok", "error", "account"}
            /\ call'[d].at = "profile" => call[d].at = "profile"
      <4> SUFFICES ASSUME NEW e \in Emails, NEW d \in account[e]
                   PROVE  /\ call'[d].input = call[d].input /\ call'[d] # Idle /\ d \in Calls
                          /\ call'[d].at \in {"profile", "ok", "error", "account"}
                          /\ call'[d].at = "profile" => call[d].at = "profile"
        OBVIOUS
      <4>1. d \in Calls /\ call[d] \in CallsMade
        BY DEF Types, MakerAsked
      <4>2. CASE d = c
        BY <2>4, <3>1, <4>1, <4>2 DEF Idle
      <4>3. CASE d # c
        BY <2>5, <4>1, <4>3 DEF CallsMade, States, Idle
      <4> QED BY <4>2, <4>3
    <3>5. RowHasAccount' /\ MakerAsked' /\ AdministratorAsAsked'
      BY <3>1, <3>4, StillAsAsked
    <3> QED BY <3>2, <3>3, <3>5
  <2>7. CASE account[input.email] = {}
    <3>1. /\ account' = [account EXCEPT ![input.email] = {c}]
          /\ profile' = [profile EXCEPT ![input.email] = {handle_new_user(input)}]
      BY <1>4, <2>7 DEF CreateAccount
    <3>2. Types'
      BY <2>2, <2>3, <2>4, <3>1 DEF Types, CallsMade, States, Inputs, handle_new_user, Roles
    <3>3. /\ account'[input.email] = {c}
          /\ \A e \in Emails : e # input.email => account'[e] = account[e] /\ profile'[e] = profile[e]
          /\ \A row \in profile'[input.email] : row.role = "member"
      BY <2>2, <3>1 DEF Types, handle_new_user
    <3>4. MadeIt'
      <4> SUFFICES ASSUME NEW d \in Calls, call'[d].at \in {"profile", "ok"}
                   PROVE  account'[call'[d].input.email] = {d}
        BY DEF MadeIt
      <4>1. CASE d = c
        BY <2>4, <3>3, <4>1
      <4>2. CASE d # c
        <5>1. call[d] \in CallsMade /\ account[call[d].input.email] = {d}
          BY <2>5, <4>2, CallTypes DEF MadeIt
        <5> QED BY <2>5, <2>7, <3>3, <4>2, <5>1 DEF CallsMade, Inputs
      <4> QED BY <4>1, <4>2
    <3>5. CreatedAsAsked'
      <4> SUFFICES ASSUME NEW d \in Calls, call'[d].at = "ok"
                   PROVE  profile'[call'[d].input.email]
                            = {[role |-> call'[d].input.role, name |-> call'[d].input.name]}
        BY DEF CreatedAsAsked
      <4>1. d # c
        BY <2>4
      <4>2. call[d] \in CallsMade /\ account[call[d].input.email] = {d}
        BY <2>5, <4>1, CallTypes DEF MadeIt
      <4> QED BY <2>5, <2>7, <3>3, <4>1, <4>2 DEF CallsMade, Inputs, CreatedAsAsked
    <3>6. RowHasAccount' /\ MakerAsked'
      <4>1. RowHasAccount'
        BY <2>2, <3>3 DEF RowHasAccount
      <4>2. MakerAsked'
        <5> SUFFICES ASSUME NEW e \in Emails, NEW d \in account'[e]
                     PROVE  call'[d] # Idle /\ call'[d].input.email = e
          BY DEF MakerAsked
        <5>1. CASE e = input.email
          <6>1. d = c
            BY <3>3, <5>1
          <6> QED BY <2>1, <2>4, <5>1, <6>1 DEF Idle
        <5>2. CASE e # input.email
          <6>1. d \in account[e] /\ d \in Calls
            BY <3>3, <5>2 DEF Types
          <6>2. d # c
            BY <5>2, <6>1 DEF MakerAsked
          <6> QED BY <2>5, <6>1, <6>2 DEF MakerAsked
        <5> QED BY <5>1, <5>2
      <4> QED BY <4>1, <4>2
    <3>7. AdministratorAsAsked'
      <4> SUFFICES ASSUME NEW e \in Emails, NEW row \in profile'[e], row.role = "platform_admin"
                   PROVE  \E d \in account'[e] :
                            /\ call'[d].input.email = e
                            /\ call'[d].input.role = "platform_admin"
                            /\ call'[d].at \in {"ok", "error", "account"}
        BY DEF AdministratorAsAsked
      <4>1. e # input.email
        BY <3>3
      <4>2. PICK d \in account[e] : /\ call[d].input.email = e
                                    /\ call[d].input.role = "platform_admin"
                                    /\ call[d].at \in {"ok", "error", "account"}
        BY <3>3, <4>1 DEF AdministratorAsAsked
      <4>3. d \in Calls /\ d # c
        BY <4>1, <4>2 DEF Types, MakerAsked
      <4> QED BY <2>5, <3>3, <4>1, <4>2, <4>3
    <3> QED BY <3>2, <3>4, <3>5, <3>6, <3>7
  <2> QED BY <2>6, <2>7
<1>5. ASSUME NEW c \in Calls, UpdateProfile(c) PROVE IInv'
  <2> DEFINE input == call[c].input
             row == [role |-> input.role, name |-> input.name]
  <2>1. call[c].at = "profile" /\ call[c] \in CallsMade /\ account' = account
    BY <1>5, CallTypes DEF UpdateProfile
  <2>2. input \in Inputs /\ input.email \in Emails /\ account[input.email] = {c}
    BY <2>1 DEF CallsMade, Inputs, MadeIt
  <2>3. PICK answer \in {"ok", "error"} : call' = [call EXCEPT ![c].at = answer]
    BY <1>5 DEF UpdateProfile, Reply
  <2>4. call'[c] = [at |-> answer, input |-> input]
    BY <2>1, <2>3 DEF Types, CallsMade
  <2>5. \A d \in Calls : d # c => call'[d] = call[d]
    BY <2>3 DEF Types
  <2>6. profile' = [profile EXCEPT ![input.email] = {row}]
    BY <1>5 DEF UpdateProfile
  <2>7. Types'
    BY <2>1, <2>2, <2>3, <2>4, <2>6 DEF Types, CallsMade, States, Inputs
  <2>8. /\ profile'[input.email] = {row}
        /\ \A e \in Emails : e # input.email => profile'[e] = profile[e]
    BY <2>2, <2>6 DEF Types
  <2>9. MadeIt'
    BY <2>1, <2>2, <2>4, <2>5 DEF MadeIt
  <2>10. CreatedAsAsked'
    <3> SUFFICES ASSUME NEW d \in Calls, call'[d].at = "ok"
                 PROVE  profile'[call'[d].input.email]
                          = {[role |-> call'[d].input.role, name |-> call'[d].input.name]}
      BY DEF CreatedAsAsked
    <3>1. CASE d = c
      BY <2>4, <2>8, <3>1
    <3>2. CASE d # c
      <4>1. call[d] \in CallsMade /\ account[call[d].input.email] = {d}
        BY <2>5, <3>2, CallTypes DEF MadeIt
      <4>2. call[d].input.email \in Emails /\ call[d].input.email # input.email
        BY <2>2, <3>2, <4>1 DEF CallsMade, Inputs
      <4> QED BY <2>5, <2>8, <3>2, <4>2 DEF CreatedAsAsked
    <3> QED BY <3>1, <3>2
  <2>11. RowHasAccount' /\ MakerAsked'
    BY <2>1, <2>2, <2>4, <2>5, <2>8 DEF RowHasAccount, MakerAsked, Types, Idle
  <2>12. AdministratorAsAsked'
    <3> SUFFICES ASSUME NEW e \in Emails, NEW r \in profile'[e], r.role = "platform_admin"
                 PROVE  \E d \in account'[e] :
                          /\ call'[d].input.email = e
                          /\ call'[d].input.role = "platform_admin"
                          /\ call'[d].at \in {"ok", "error", "account"}
      BY DEF AdministratorAsAsked
    <3>1. CASE e = input.email
      BY <2>1, <2>2, <2>4, <2>8, <3>1 DEF Inputs
    <3>2. CASE e # input.email
      <4>1. PICK d \in account[e] : /\ call[d].input.email = e
                                    /\ call[d].input.role = "platform_admin"
                                    /\ call[d].at \in {"ok", "error", "account"}
        BY <2>8, <3>2 DEF AdministratorAsAsked
      <4>2. d \in Calls /\ d # c
        BY <3>2, <4>1 DEF Types, MakerAsked
      <4> QED BY <2>1, <2>5, <4>1, <4>2
    <3> QED BY <3>1, <3>2
  <2> QED BY <2>7, <2>9, <2>10, <2>11, <2>12
<1>6. ASSUME NEW c \in Calls, Fail(c) PROVE IInv'
  <2>1. /\ call[c].at \in {"account", "profile"} /\ account' = account /\ profile' = profile
        /\ call' = [call EXCEPT ![c].at = "error"]
    BY <1>6 DEF Fail, Reply
  <2>2. call[c] \in CallsMade
    BY <2>1, CallTypes
  <2>3. \A d \in Calls : d # c => call'[d] = call[d]
    BY <2>1 DEF Types
  <2>4. call'[c] = [at |-> "error", input |-> call[c].input]
    BY <2>1, <2>2 DEF Types, CallsMade
  <2>5. Types'
    BY <2>1, <2>2, <2>4 DEF Types, CallsMade, States
  <2>6. MadeIt' /\ CreatedAsAsked'
    BY <2>1, <2>3, <2>4 DEF MadeIt, CreatedAsAsked
  <2>7. \A e \in Emails : \A d \in account[e] :
          /\ call'[d].input = call[d].input /\ call'[d] # Idle /\ d \in Calls
          /\ call'[d].at \in {"profile", "ok", "error", "account"}
          /\ call'[d].at = "profile" => call[d].at = "profile"
    <3> SUFFICES ASSUME NEW e \in Emails, NEW d \in account[e]
                 PROVE  /\ call'[d].input = call[d].input /\ call'[d] # Idle /\ d \in Calls
                        /\ call'[d].at \in {"profile", "ok", "error", "account"}
                        /\ call'[d].at = "profile" => call[d].at = "profile"
      OBVIOUS
    <3>1. d \in Calls /\ call[d] \in CallsMade
      BY DEF Types, MakerAsked
    <3>2. CASE d = c
      BY <2>4, <3>1, <3>2 DEF Idle
    <3>3. CASE d # c
      BY <2>3, <3>1, <3>3 DEF CallsMade, States, Idle
    <3> QED BY <3>2, <3>3
  <2>8. RowHasAccount' /\ MakerAsked' /\ AdministratorAsAsked'
    BY <2>1, <2>7, StillAsAsked
  <2> QED BY <2>5, <2>6, <2>8
<1> QED BY <1>1, <1>2, <1>3, <1>4, <1>5, <1>6 DEF Next

\* Who is told that the user was created finds him as he was asked for
\* (create-user.ts), whatever overlaps or is retried.
THEOREM CreationIsAsAsked == Spec => []CreatedAsAsked
<1>1. Spec => []IInv
  BY CreationInit, CreationStep, PTL DEF Spec
<1>2. IInv => CreatedAsAsked
  BY DEF IInv
<1> QED BY <1>1, <1>2, PTL

\* An administrator is made by the call that made the account, and only if it
\* asked for one.
THEOREM AdministratorsAreAsAsked == Spec => []AdministratorAsAsked
<1>1. Spec => []IInv
  BY CreationInit, CreationStep, PTL DEF Spec
<1>2. IInv => AdministratorAsAsked
  BY DEF IInv
<1> QED BY <1>1, <1>2, PTL
=============================================================================
