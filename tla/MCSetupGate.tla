----------------------------- MODULE MCSetupGate -----------------------------
(* Instances of SetupGate for TLC: browsers and accounts are alike.        *)
EXTENDS SetupGate, TLC

Alike == Permutations(Browsers) \union Permutations(Accounts)

=============================================================================
