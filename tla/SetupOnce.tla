------------------------------ MODULE SetupOnce ------------------------------
(***************************************************************************)
(* What first-time setup promises, without saying how it is done.          *)
(*                                                                         *)
(* Setup is a window in which platform administrators may be appointed.    *)
(* The window is opened by one request at a time, may be closed again      *)
(* without having led anywhere, and closes for good only once there is an  *)
(* administrator.  Outside of the window nobody is appointed.              *)
(* SetupLock carries this out with one row of app_settings.                *)
(***************************************************************************)

CONSTANT Accounts   \* the auth users setup may create, named by their e-mail

VARIABLES phase,    \* "open", "held" by a request, or "done"
          admins    \* the accounts whose profile is platform_admin

onceVars == <<phase, admins>>

Init == phase = "open" /\ admins = {}

Acquire == phase = "open" /\ phase' = "held" /\ UNCHANGED admins

Appoint(a) == phase = "held" /\ admins' = admins \union {a} /\ UNCHANGED phase

Release == phase = "held" /\ phase' = "open" /\ UNCHANGED admins

Finish == phase = "held" /\ admins # {} /\ phase' = "done" /\ UNCHANGED admins

Next == \/ Acquire
        \/ \E a \in Accounts : Appoint(a)
        \/ Release
        \/ Finish

Spec == Init /\ [][Next]_onceVars

=============================================================================
