---------------------------- MODULE VerdictTypes ----------------------------
(***************************************************************************)
(* The enumerations every contract of the protocol shares                  *)
(* (contracts/interfaces/IVerdictTypes.sol).  A status "NONE" stands for   *)
(* an identifier for which `_exists` is still false.                       *)
(***************************************************************************)

Modes == {"INSTANT", "AUDITED"}

Outcomes == {"PENDING", "TRUE", "FALSE", "INVALID", "ESCALATED"}

(* The outcomes a verdict may carry: the guard repeated by submitVerdict,  *)
(* resolveAssertion, forceResolve and recordPanelVote.                     *)
Rulings == {"TRUE", "FALSE", "INVALID"}

IsRuling(o) == o \notin {"PENDING", "ESCALATED"}

Statuses == {"NONE", "OPEN", "VERDICTED", "CHALLENGED", "RESOLVED"}
=============================================================================
