------------------------ MODULE MCPermissionResolution ------------------------
(* Instances of PermissionResolution for TLC.  Every input is enumerated:   *)
(* for each role and table a row or none, for each table an override or     *)
(* none.                                                                    *)
EXTENDS PermissionResolution, TLC

\* Init, with the rows built per key instead of filtered from all subsets.
MCInit ==
    /\ platformRole \in {"member", "platform_admin"}
    /\ \E cells \in [Roles \X Tables -> SUBSET Actions \union {{"none"}}] :
         rolePerms = {[role |-> k[1], table_name |-> k[2], can |-> cells[k]] :
                        k \in {c \in Roles \X Tables : cells[c] # {"none"}}}
    /\ \E cells \in [Tables -> {<<>>} \union [Actions -> {"allow", "deny", "inherit"}]] :
         overrides = {[table_name |-> t,
                       allow |-> {a \in Actions : cells[t][a] = "allow"},
                       deny |-> {a \in Actions : cells[t][a] = "deny"}] :
                        t \in {u \in Tables : cells[u] # <<>>}}
    /\ synced \in SUBSET Tables
    /\ stage = "start"
    /\ rest = {}
    /\ permMap = EmptyMap

MCSpec == MCInit /\ [][Next]_vars

Alike == Permutations(Tables) \union Permutations(Actions) \union Permutations(Roles)

=============================================================================
