--------------------------- MODULE TargetReadiness ---------------------------
(***************************************************************************)
(* What the rest of the application may rely upon about a Target: which of *)
(* SupaAdmin's functions and tables it has, and when its connection counts *)
(* as ready.  TargetBootstrap implements it; RlsSync builds upon it.       *)
(***************************************************************************)
CONSTANT Tables   \* tables of the Target's public schema

VARIABLES functions,  \* SupaAdmin functions the Target has
          existing,   \* tables the Target has
          status      \* connections.bootstrap_status

readinessVars == <<functions, existing, status>>

\* has_permission is what policies call; bootstrap and apply_rls are the RPCs
\* with a fixed purpose; exec_sql is the legacy one that runs anything.
Functions == {"has_permission", "bootstrap", "apply_rls", "exec_sql"}

\* The functions of the setup SQL.
SetupFunctions == {"has_permission", "bootstrap", "apply_rls"}

\* A new Target, or one with the functions of the time before the RPCs with a
\* fixed purpose.
Init == /\ functions \in {{}, {"exec_sql"}}
        /\ existing = Tables
        /\ status = "pending"

\* The setup SQL is run; where exec_sql is there, it may instead install just
\* the helper, or be replaced by the other functions.
Install == /\ \/ functions' = functions \union SetupFunctions
              \/ /\ "exec_sql" \in functions
                 /\ functions' \in {functions \union {"has_permission"}, SetupFunctions}
           /\ UNCHANGED <<existing, status>>

MarkReady == /\ "has_permission" \in functions
             /\ status' = "ready"
             /\ UNCHANGED <<functions, existing>>

DropTable(t) == /\ t \in existing
                /\ existing' = existing \ {t}
                /\ UNCHANGED <<functions, status>>

CreateTable(t) == /\ t \notin existing
                  /\ existing' = existing \union {t}
                  /\ UNCHANGED <<functions, status>>

Next == \/ Install
        \/ MarkReady
        \/ \E t \in Tables : DropTable(t) \/ CreateTable(t)

Spec == Init /\ [][Next]_readinessVars

=============================================================================
