-------------------------- MODULE MCConnectionContext --------------------------
(* Instances of ConnectionContext for TLC.                                  *)
EXTENDS ConnectionContext, TLC

Alike == Permutations(Writers) \union Permutations(Roles) \union Permutations(Readers)

=============================================================================
