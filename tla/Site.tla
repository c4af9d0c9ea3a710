-------------------------------- MODULE Site ---------------------------------
(***************************************************************************)
(* The web site and the service behind it: the forms that open records     *)
(* (FundingForms) and a case about one of them (Case).  They meet in the   *)
(* record only, which is there before a case about it can begin, so that   *)
(* a behaviour explores either the opening of records or a case.           *)
(***************************************************************************)
EXTENDS Case, FundingForms

siteVars == <<vars, formsVars>>

Tabs == [Forms -> Contracts]

SiteInit ==
  /\ Init
  /\ FormsInit(IF "forms" \in scope THEN Tabs ELSE {CHOOSE t \in Tabs : TRUE})

OpeningRecords ==
  /\ "forms" \in scope
  /\ \/ FormsNext /\ UNCHANGED faults
     \/ Fault /\ \E f \in Forms : SubmitThrows(f)
  /\ UNCHANGED <<storageVars, inferenceVars, evidenceVars, viewer,
                 scope, dialog, filed, ruling, row, judge>>

HavingACase == "forms" \notin scope /\ Next /\ UNCHANGED formsVars

SiteNext == OpeningRecords \/ HavingACase

SiteSpec == SiteInit /\ [][SiteNext]_siteVars /\ Fairness
=============================================================================
