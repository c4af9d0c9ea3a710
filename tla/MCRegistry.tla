----------------------------- MODULE MCRegistry -----------------------------
(* Small instances of AssertionRegistry for TLC.                           *)
EXTENDS AssertionRegistry, TLC

(* Identifiers and accounts are interchangeable: no configuration that     *)
(* uses this set names one of them elsewhere.                              *)
Symmetry == Permutations(Ids) \cup Permutations(Accounts)

(* Every callback trusts every enforcer, or only the first one deployed.   *)
AllTrusted == Ids \X Enforcers

CONSTANT FirstEnforcer

FirstTrusted == Ids \X {FirstEnforcer}
=============================================================================
