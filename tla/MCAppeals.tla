------------------------------ MODULE MCAppeals ------------------------------
(* Small instances of AppealWorker for TLC.                                *)
EXTENDS AppealWorker, TLC

(* Every callback trusts every enforcer.                                   *)
AllTrusted == Ids \X Enforcers

ThreePanellists == <<1, 2, 3>>
=============================================================================
