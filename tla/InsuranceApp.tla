----------------------------- MODULE InsuranceApp -----------------------------
(***************************************************************************)
(* The insurance application as its users meet it: the contract, the table *)
(* that mirrors it (handlePolicyEvent of api/src/workers/indexer.ts) and   *)
(* the buttons its page offers to the insurer and to the holder            *)
(* (web/src/app/(app)/insurance/[id]/actions.tsx).                         *)
(*                                                                         *)
(* The claim dialog leaves a mark in the open page that hides the button   *)
(* behind it; every other button only sends a call that anyone may also    *)
(* send without the page.                                                  *)
(***************************************************************************)
EXTENDS ParametricInsurance, ApplicationIndexer

CONSTANT Scopes     \* bound: what a behaviour may be about

ASSUME InsuranceAppAssumption ==
  Scopes \subseteq
    [created : SUBSET Policies, payouts : SUBSET Payouts, asked : SUBSET Ids,
     gifts : SUBSET (1..MaxDonation), followed : SUBSET Policies]

VARIABLES
  row,     \* the policies table
  filed,   \* policies whose holder has a page open that filed a claim
  scope    \* the scope of this behaviour

appVars == <<vars, indexerVars, row, filed, scope>>

NoRow == [status |-> "NONE", question |-> NoQuestion]

Row == [status : PolicyStatus, question : Ids \cup {NoQuestion}]

AppTypeOK ==
  /\ IndexerTypeOK
  /\ row \in [Policies -> Row]
  /\ filed \subseteq scope.followed
  /\ scope \in Scopes

AppInit ==
  /\ Init
  /\ IndexerInit
  /\ row = [p \in Policies |-> NoRow]
  /\ filed = {}
  /\ scope \in Scopes
-----------------------------------------------------------------------------
Event(kind, p) == [kind |-> kind, policy |-> p, question |-> NoQuestion]

Log(event) == IF event.policy \in scope.followed THEN Emit(event) ELSE EmitNothing

(* A claim from the page (setClaimedAssertionId), or from elsewhere.       *)
FileClaim(p, i) ==
  /\ Claim(p, i)
  /\ Log([Event("ClaimOpened", p) EXCEPT !.question = i])
  /\ filed' \in {filed, filed \cup ({p} \cap scope.followed)}

(* The verdict on a claim, and the event it makes the contract emit.       *)
HearVerdict(i, o) ==
  /\ Verdict(i, o)
  /\ IF status[link[i]] = "CLAIM_PENDING"
       THEN Log(Event(IF o = "TRUE" THEN "ClaimPaid" ELSE "ClaimRejected", link[i]))
       ELSE EmitNothing

ContractStep ==
  \/ /\ \E p \in Policies :
          \/ /\ p \in scope.created
             /\ \E a \in scope.payouts, when \in Phases : Underwrite(p, a, when)
             /\ Log(Event("PolicyCreated", p))
          \/ Reclaim(p) /\ Log(Event("Expired", p))
          \/ RescueInvalidClaim(p) /\ Log(Event("ClaimRejected", p))
          \/ Elapse(p) /\ EmitNothing
     /\ UNCHANGED filed
  \/ \E p \in Policies, i \in scope.asked : FileClaim(p, i)
  \/ /\ \E x \in scope.gifts : Receive(x)
     /\ EmitNothing /\ UNCHANGED filed
  \/ /\ \E i \in Ids :
          \/ Overruled(i) /\ EmitNothing
          \/ \E o \in Rulings : HearVerdict(i, o)
     /\ UNCHANGED filed
-----------------------------------------------------------------------------
(* Fault: a denied claim stays on the row.                                 *)
UpdatedKeepingClaim(r, e) ==
  CASE e.kind = "ClaimOpened" -> [status |-> "CLAIM_PENDING", question |-> e.question]
    [] e.kind = "ClaimPaid" -> [r EXCEPT !.status = "PAID"]
    [] e.kind = "ClaimRejected" -> [r EXCEPT !.status = "ACTIVE"]
    [] OTHER -> r

(* What the handler makes of an existing row.                              *)
Updated(r, e) ==
  CASE e.kind = "PolicyCreated" -> r
    [] e.kind = "ClaimOpened" -> [status |-> "CLAIM_PENDING", question |-> e.question]
    [] e.kind = "ClaimPaid" -> [r EXCEPT !.status = "PAID"]
    [] e.kind = "ClaimRejected" -> [status |-> "ACTIVE", question |-> NoQuestion]
    [] e.kind = "Expired" -> [r EXCEPT !.status = "EXPIRED"]

(* An insert that leaves an existing row alone, or an update of no row.    *)
Handled(r, e) ==
  IF r # NoRow THEN Updated(r, e)
  ELSE IF e.kind = "PolicyCreated" THEN [r EXCEPT !.status = "ACTIVE"] ELSE r

HandlePolicyEvent(p) ==
  LET e == Upcoming(p) IN
  /\ HandleNext(p)
  /\ row' = [row EXCEPT ![e.policy] = Handled(@, e)]

IndexerStep ==
  \/ Housekeeping /\ UNCHANGED row
  \/ \E p \in Passes : HandlePolicyEvent(p)
-----------------------------------------------------------------------------
(* router.refresh fetches the row again and keeps the mark.                *)
Reload(p) ==
  /\ p \in filed
  /\ filed' = filed \ {p}
  /\ UNCHANGED <<vars, indexerVars, row, scope>>

AppNext ==
  \/ ContractStep /\ UNCHANGED <<row, scope>>
  \/ IndexerStep /\ UNCHANGED <<vars, filed, scope>>
  \/ \E p \in Policies : Reload(p)

AppSpec == AppInit /\ [][AppNext]_appVars
-----------------------------------------------------------------------------
(* The page, apart from the premium, which changes nothing in the policy.  *)
Shown(p) == row[p]

(* InsuranceActionButtons.                                                 *)
Offers(party, p, b) ==
  LET s == Shown(p).status IN
  \/ b = "claim" /\ party = "holder" /\ s = "ACTIVE" /\ phase[p] = "during" /\ p \notin filed
  \/ b = "rescue" /\ party = "holder" /\ s = "CLAIM_PENDING"
  \/ b = "reclaim" /\ party = "insurer" /\ s = "ACTIVE" /\ phase[p] = "after"

(* What the contract takes from a party.                                   *)
Takes(party, p, b) ==
  \/ b = "claim" /\ party = "holder" /\ (\E i \in Ids : CanClaim(p, i))
  \/ b = "rescue" /\ party = "holder" /\ CanRescue(p)
  \/ b = "reclaim" /\ party = "insurer" /\ CanReclaim(p)
-----------------------------------------------------------------------------
(* Once every event was handled the row shows the policy, with the claim   *)
(* it waits for or was paid on, whatever was redelivered after throws and  *)
(* restarts and unless a straggler wrote late.                             *)
Mirrored(p) ==
  [status |-> status[p],
   question |-> IF status[p] \in {"CLAIM_PENDING", "PAID"} THEN question[p] ELSE NoQuestion]

MirrorAgrees ==
  /\ AppTypeOK
  /\ AtRest /\ ~straggled => \A p \in scope.followed : row[p] = Mirrored(p)

(* "Actions below are what the contract allows for your role right now":   *)
(* then what the page offers is taken, except for a rescue while the claim *)
(* is judged, and what the contract takes is offered, except for a new     *)
(* claim from the page that filed the last one.                            *)
Unhindered(p) ==
  /\ <<p, "insurer">> \notin Unpayable
  /\ \E i \in Ids : answer[i] = "UNASKED"

PageIsRight ==
  AtRest /\ ~straggled =>
    \A p \in scope.followed, party \in {"insurer", "holder"},
       b \in {"claim", "rescue", "reclaim"} :
      Unhindered(p) =>
        /\ Offers(party, p, b) /\ b # "rescue" => Takes(party, p, b)
        /\ Takes(party, p, b) => Offers(party, p, b) \/ (b = "claim" /\ p \in filed)

(* What the indexer and the page make of the contract's state, together.   *)
SiteAgrees == MirrorAgrees /\ PageIsRight
=============================================================================
