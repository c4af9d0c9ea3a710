------------------------------ MODULE MCBackend ------------------------------
(* Small instances of Backend for TLC.                                     *)
EXTENDS Backend, TLC

(* Every callback trusts every enforcer.                                   *)
AllTrusted == Ids \X Enforcers
=============================================================================
