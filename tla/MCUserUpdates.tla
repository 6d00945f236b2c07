----------------------------- MODULE MCUserUpdates -----------------------------
(* Instances of UserUpdates for TLC: writers, roles and tables are alike.   *)
EXTENDS UserUpdates, TLC

Alike == Permutations(Writers) \union Permutations(Roles) \union Permutations(Tables)

=============================================================================
