---------------------------- MODULE FundingForms -----------------------------
(***************************************************************************)
(* The forms that open an escrow, a grant or a policy                      *)
(* (web/src/app/(app)/escrow/new, milestones/new and insurance/new), as    *)
(* used at the same time in several tabs with one wallet, beside other     *)
(* people's, and the faucet of the demo token.                             *)
(*                                                                         *)
(* A form reads the allowance, has the wallet approve the amount if it is  *)
(* short and waits for that, sends its transaction, waits for the receipt  *)
(* and goes to the page of the record whose event the receipt holds.  The  *)
(* wallet's transactions are mined in the order sent (nonces).  Every      *)
(* await may throw, a transaction that was sent included: the form is then *)
(* free to be submitted again.                                             *)
(***************************************************************************)
EXTENDS Integers, SequencesExt

CONSTANTS
  Forms,      \* open tabs
  Need,       \* Need[f]: the amount, of a grant the sum of its milestones
  Someone,    \* whoever else opens records
  FAUCET_CAP, \* what the faucet mints
  Runs        \* bound: submissions of one form

ASSUME FormsAssumption ==
  /\ IsFiniteSet(Forms)
  /\ Need \in [Forms -> Nat \ {0}]
  /\ Someone \notin Forms
  /\ FAUCET_CAP \in Nat /\ Runs \in Nat \ {0}

VARIABLES
  form,        \* what each form is doing
  sent,        \* transactions of the wallet that are not mined, in order
  allowance,   \* of the wallet, per contract
  balance,     \* tokens of the wallet
  records,     \* per contract, who opened each record, by its identifier
  hasClaimed,  \* of the faucet
  claim,       \* the faucet's button: hasClaimed as read, and a claim pending
  crossed      \* history: forms whose allowance was used or set by another
               \* transaction than theirs since they looked at it

formsVars == <<form, sent, allowance, balance, records, hasClaimed, claim, crossed>>

(* Which record a form opens, and whether its amount is pulled from the    *)
(* wallet's tokens, for which an approval is needed, or sent as ether.     *)
NewEscrowForm == [opens |-> "escrow", pulls |-> TRUE]
CreateGrantForm == [opens |-> "grant", pulls |-> TRUE]
UnderwriteForm == [opens |-> "policy", pulls |-> FALSE]

PageForms == {NewEscrowForm, CreateGrantForm, UnderwriteForm}
Contracts == {f.opens : f \in PageForms}
ByValue == {f.opens : f \in {g \in PageForms : ~g.pulls}}

(* target: the contract; step: where handleSubmit is; run: which           *)
(* submission; heard: what the receipt it waits for says, when it is       *)
(* there; page: the record shown; unheard: receipts given up.              *)
FormStep == {"filling", "approving", "approved", "creating", "routed"}
Heard == {"nothing", "success", "reverted"}
Blank(t) == [target |-> t, step |-> "filling", run |-> 0, heard |-> "nothing",
             page |-> 0, unheard |-> 0]

FormsTypeOK ==
  /\ \A f \in Forms :
       /\ form[f].target \in Contracts
       /\ form[f].step \in FormStep /\ form[f].heard \in Heard
       /\ form[f].run \in 0..Runs /\ form[f].unheard \in 0..Runs /\ form[f].page \in Nat
  /\ \A t \in Contracts : allowance[t] \in Nat /\ records[t] \in Seq(Forms \cup {Someone})
  /\ balance \in Nat
  /\ hasClaimed \in BOOLEAN
  /\ claim \in [read : BOOLEAN, pending : BOOLEAN]
  /\ crossed \subseteq Forms

(* The tabs that may be open: of which contract each of the forms is.      *)
FormsInit(Tabs) ==
  /\ \E target \in Tabs : form = [f \in Forms |-> Blank(target[f])]
  /\ sent = <<>>
  /\ allowance = [t \in Contracts |-> 0]
  /\ balance = 0
  /\ records = [t \in Contracts |-> <<>>]
  /\ hasClaimed = FALSE
  /\ claim = [read |-> FALSE, pending |-> FALSE]
  /\ crossed = {}

Target(f) == form[f].target
Submitting(f) == form[f].step \in {"approving", "approved", "creating"}
Covered(f) == Target(f) \in ByValue \/ allowance[Target(f)] >= Need[f]
Affordable(f) == Target(f) \in ByValue \/ balance >= Need[f]

Transaction(kind, f) == [kind |-> kind, form |-> f, run |-> form'[f].run]
SendTx(kind, f) == sent' = Append(sent, Transaction(kind, f))

chainVars == <<allowance, balance, records, hasClaimed>>
-----------------------------------------------------------------------------
Pressed(f) ==
  form' = [form EXCEPT ![f] =
    [form[f] EXCEPT !.step = IF Covered(f) THEN "approved" ELSE "approving",
                    !.heard = "nothing", !.run = @ + 1]]

(* handleSubmit: the allowance as it is on chain, and an approval unless   *)
(* it is enough.                                                           *)
HandleSubmit(f) ==
  /\ form[f].step = "filling" /\ form[f].run < Runs
  /\ Pressed(f)
  /\ IF Covered(f) THEN UNCHANGED sent ELSE SendTx("approve", f)
  /\ crossed' = crossed \ {f}
  /\ UNCHANGED <<chainVars, claim>>

(* Fault: runTx without waitFor.                                           *)
NextStepUnawaited(f) ==
  /\ form[f].step = "approving"
  /\ form' = [form EXCEPT ![f].step = "approved"]
  /\ UNCHANGED <<sent, chainVars, claim, crossed>>

(* runTx with waitFor: the receipt of the approval.                        *)
ApprovalHeard(f) ==
  /\ form[f].step = "approving" /\ form[f].heard = "success"
  /\ form' = [form EXCEPT ![f].step = "approved", ![f].heard = "nothing"]
  /\ UNCHANGED <<sent, chainVars, claim, crossed>>

(* createEscrow, createGrant or underwrite is sent.                        *)
SendCreate(f) ==
  /\ form[f].step = "approved" /\ Covered(f) /\ Affordable(f)
  /\ form' = [form EXCEPT ![f].step = "creating"]
  /\ SendTx("create", f)
  /\ UNCHANGED <<chainVars, claim, crossed>>

(* The wallet does not sign what would revert.                             *)
CreateRefused(f) ==
  /\ form[f].step = "approved" /\ ~(Covered(f) /\ Affordable(f))
  /\ form' = [form EXCEPT ![f].step = "filling"]
  /\ UNCHANGED <<sent, chainVars, claim, crossed>>

(* Fault: the newest record is taken for the one that was created.         *)
CreatedIdByTotal(f) == Len(records[Target(f)])

(* The identifier in the event of the receipt, which is of this run.       *)
CreatedId(f) == form[f].page

Routed(f) ==
  /\ form[f].step = "creating" /\ form[f].heard = "success"
  /\ form' = [form EXCEPT ![f].step = "routed", ![f].page = CreatedId(f)]
  /\ UNCHANGED <<sent, chainVars, claim, crossed>>

RevertHeard(f) ==
  /\ Submitting(f) /\ form[f].heard = "reverted"
  /\ form' = [form EXCEPT ![f].step = "filling"]
  /\ UNCHANGED <<sent, chainVars, claim, crossed>>

(* A refused signature, or a receipt that is never heard.                  *)
SubmitThrows(f) ==
  /\ Submitting(f) /\ form[f].heard # "reverted"
  /\ form' = [form EXCEPT ![f].step = "filling",
                          ![f].unheard = IF form[f].step = "creating" THEN @ + 1 ELSE @]
  /\ UNCHANGED <<sent, chainVars, claim, crossed>>
-----------------------------------------------------------------------------
(* VusdcFaucet: the button shows unless the wallet is known to have        *)
(* claimed.  runTx does not wait here, so that hasClaimed is mostly read   *)
(* before the claim is mined, and the button stays.                        *)
MaxClaims == 2     \* bound: claims not mined at one time

ClaimTokens ==
  /\ ~claim.read /\ ~claim.pending /\ ~hasClaimed
  /\ Cardinality({n \in DOMAIN sent : sent[n].kind = "faucet"}) < MaxClaims
  /\ claim' = [claim EXCEPT !.pending = TRUE]
  /\ sent' = Append(sent, [kind |-> "faucet", form |-> Someone, run |-> 0])
  /\ UNCHANGED <<form, chainVars, crossed>>

ClaimSent ==
  /\ claim.pending
  /\ claim' = [read |-> hasClaimed, pending |-> FALSE]
  /\ UNCHANGED <<form, sent, chainVars, crossed>>

(* The page reads it again.                                                *)
ReadHasClaimed ==
  /\ claim' = [claim EXCEPT !.read = hasClaimed]
  /\ UNCHANGED <<form, sent, chainVars, crossed>>
-----------------------------------------------------------------------------
(* The receipt is there for the submission that waits for it.              *)
ReceiptFor(tx, status, id) ==
  LET f == tx.form IN
  form' = IF form[f].run = tx.run /\ Submitting(f)
            THEN [form EXCEPT ![f].heard = status, ![f].page = id]
            ELSE form

(* The others of the wallet that have looked at this contract's allowance. *)
Crosses(f) == crossed' = crossed \cup {g \in Forms \ {f} : Target(g) = Target(f) /\ Submitting(g)}

MineApprove(tx) ==
  /\ tx.kind = "approve"
  /\ allowance' = [allowance EXCEPT ![Target(tx.form)] = Need[tx.form]]
  /\ ReceiptFor(tx, "success", 0)
  /\ Crosses(tx.form)
  /\ UNCHANGED <<balance, records, hasClaimed, claim>>

(* safeTransferFrom takes the amount, or reverts the creation.             *)
MineCreate(tx) ==
  LET f == tx.form
      t == Target(f)
  IN
  /\ tx.kind = "create"
  /\ IF Covered(f) /\ Affordable(f)
       THEN /\ records' = [records EXCEPT ![t] = Append(@, f)]
            /\ ReceiptFor(tx, "success", Len(records[t]) + 1)
            /\ IF t \in ByValue THEN UNCHANGED <<allowance, balance>>
               ELSE /\ allowance' = [allowance EXCEPT ![t] = @ - Need[f]]
                    /\ balance' = balance - Need[f]
       ELSE ReceiptFor(tx, "reverted", 0) /\ UNCHANGED <<records, allowance, balance>>
  /\ Crosses(f)
  /\ UNCHANGED <<hasClaimed, claim>>

(* faucet(): once per wallet.                                              *)
MineFaucet(tx) ==
  /\ tx.kind = "faucet"
  /\ hasClaimed' = TRUE
  /\ balance' = IF hasClaimed THEN balance ELSE balance + FAUCET_CAP
  /\ UNCHANGED <<form, allowance, records, claim, crossed>>

Mine ==
  /\ sent # <<>>
  /\ sent' = Tail(sent)
  /\ LET tx == Head(sent) IN MineApprove(tx) \/ MineCreate(tx) \/ MineFaucet(tx)

(* Somebody else opens a record.                                           *)
OthersCreate(t) ==
  /\ ~Contains(records[t], Someone) /\ \E f \in Forms : Target(f) = t
  /\ records' = [records EXCEPT ![t] = Append(@, Someone)]
  /\ UNCHANGED <<form, sent, allowance, balance, hasClaimed, claim, crossed>>
-----------------------------------------------------------------------------
HandlerGoesOn(f) ==
  ApprovalHeard(f) \/ SendCreate(f) \/ CreateRefused(f) \/ Routed(f) \/ RevertHeard(f)

FormsNext ==
  \/ \E f \in Forms : HandleSubmit(f) \/ HandlerGoesOn(f)
  \/ ClaimTokens \/ ClaimSent \/ ReadHasClaimed
  \/ Mine
  \/ \E t \in Contracts : OthersCreate(t)
-----------------------------------------------------------------------------
Opened(f) == {k \in DOMAIN records[Target(f)] : records[Target(f)][k] = f}

(* The page a form goes to is that of a record it opened itself, whoever   *)
(* else opens records.  One form opens one record, and one more only for   *)
(* each receipt it did not hear.  What the wallet spent is what its        *)
(* records hold.                                                           *)
Spent(f) == IF Target(f) \in ByValue THEN 0 ELSE Need[f] * Cardinality(Opened(f))

SpentOnRecords == SumFunctionOnSet([f \in Forms |-> Spent(f)], Forms)

FormsInv ==
  /\ FormsTypeOK
  /\ \A f \in Forms :
       /\ form[f].step = "routed" => form[f].page \in Opened(f)
       /\ Cardinality(Opened(f)) <= 1 + form[f].unheard
  /\ SpentOnRecords + balance = (IF hasClaimed THEN FAUCET_CAP ELSE 0)

(* A submission is turned down for want of an allowance only if another    *)
(* form of the wallet, or a transaction the form itself lost sight of,     *)
(* used the allowance meanwhile: an approval that was asked for is there   *)
(* when the contract wants it.                                             *)
ApprovedInTime ==
  [][\A f \in Forms :
       form[f].step \in {"approved", "creating"} /\ form'[f].step = "filling" /\ ~Covered(f)
         /\ (form[f].step = "approved" \/ form[f].heard = "reverted")
       => f \in crossed \/ form[f].unheard > 0]_formsVars
=============================================================================
