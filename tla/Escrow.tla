-------------------------------- MODULE Escrow --------------------------------
(***************************************************************************)
(* Freelance escrow (contracts/applications/Escrow.sol) on top of the      *)
(* protocol's promise.  All escrows of one token share the balance of the  *)
(* contract, which is `held` here.                                         *)
(***************************************************************************)
EXTENDS VerdictConsumer

CONSTANTS
  Escrows,       \* escrow ids
  Amounts,       \* amounts that may be locked
  Unpayable      \* pairs <<e, party>>: token transfers to that party revert

ASSUME EscrowAssumption ==
  /\ IsFiniteSet(Escrows)   \* 256-bit numbers
  /\ Amounts \subseteq Nat \ {0}
  /\ Unpayable \subseteq Escrows \X {"client", "freelancer"}

VARIABLES
  status,     \* status of every escrow
  amount,     \* tokens locked
  question,   \* assertionId of the dispute, or NoQuestion
  response,   \* freelancerEvidence # 0
  overdue,    \* escrows whose deadline + 30 days has been reached
  held,       \* token balance of the contract
  got         \* what each party was sent

escrowVars == <<status, amount, question, response, overdue, held, got>>
vars == <<consumerVars, escrowVars>>

EscrowStatus ==
  {"NONE", "FUNDED", "DELIVERED", "ACCEPTED", "DISPUTED", "RESOLVED_CLIENT",
   "RESOLVED_FREELANCER", "EXPIRED"}

Active == {"FUNDED", "DELIVERED", "DISPUTED"}

TypeOK ==
  /\ Oracle!TypeOK
  /\ link \in [Ids -> Escrows \cup {NoLink}]
  /\ status \in [Escrows -> EscrowStatus]
  /\ amount \in [Escrows -> Amounts \cup {0}]
  /\ question \in [Escrows -> Ids \cup {NoQuestion}]
  /\ response \in [Escrows -> BOOLEAN]
  /\ overdue \subseteq Escrows
  /\ held \in Nat
  /\ got \in [Escrows -> [client : Nat, freelancer : Nat]]

Init ==
  /\ ConsumerInit
  /\ status = [e \in Escrows |-> "NONE"]
  /\ amount = [e \in Escrows |-> 0]
  /\ question = [e \in Escrows |-> NoQuestion]
  /\ response = [e \in Escrows |-> FALSE]
  /\ overdue = {}
  /\ held = 0
  /\ got = [e \in Escrows |-> [client |-> 0, freelancer |-> 0]]
-----------------------------------------------------------------------------
Become(e, s) == status' = [status EXCEPT ![e] = s]

(* safeTransfer of the locked amount.                                      *)
CanTransfer(e, party) == <<e, party>> \notin Unpayable /\ amount[e] <= held

Transfer(e, party) ==
  /\ CanTransfer(e, party)
  /\ held' = held - amount[e]
  /\ got' = [got EXCEPT ![e][party] = @ + amount[e]]

CreateEscrow(e, a) ==
  /\ status[e] = "NONE"
  /\ Become(e, "FUNDED")
  /\ amount' = [amount EXCEPT ![e] = a]
  /\ held' = held + a
  /\ UNCHANGED <<consumerVars, question, response, overdue, got>>

CanDeliver(e) == status[e] = "FUNDED"

Deliver(e) ==
  /\ CanDeliver(e)
  /\ Become(e, "DELIVERED")
  /\ UNCHANGED <<consumerVars, amount, question, response, overdue, held, got>>

CanAccept(e) == status[e] \in {"FUNDED", "DELIVERED"} /\ CanTransfer(e, "freelancer")

Accept(e) ==
  /\ CanAccept(e)
  /\ Become(e, "ACCEPTED")
  /\ Transfer(e, "freelancer")
  /\ UNCHANGED <<consumerVars, amount, question, response, overdue>>

(* Fault: a second dispute may be opened beside the first.                 *)
OpenDisputeAgain(e, i) ==
  /\ status[e] \in {"DELIVERED", "DISPUTED"}
  /\ Become(e, "DISPUTED")
  /\ CreateAssertionFor(i, e)
  /\ question' = [question EXCEPT ![e] = i]
  /\ UNCHANGED <<amount, response, overdue, held, got>>

CanOpenDispute(e, i) == status[e] = "DELIVERED" /\ Oracle!CanAsk(i)

OpenDispute(e, i) ==
  /\ CanOpenDispute(e, i)
  /\ Become(e, "DISPUTED")
  /\ CreateAssertionFor(i, e)
  /\ question' = [question EXCEPT ![e] = i]
  /\ UNCHANGED <<amount, response, overdue, held, got>>

CanRespond(e) == status[e] = "DISPUTED"

RespondToDispute(e) ==
  /\ CanRespond(e)
  /\ response' = [response EXCEPT ![e] = TRUE]
  /\ UNCHANGED <<consumerVars, status, amount, question, overdue, held, got>>

(* Fault: a disputed escrow has no safety valve.                           *)
ExpireUndisputed(e) ==
  /\ status[e] \in {"FUNDED", "DELIVERED"}
  /\ e \in overdue
  /\ Become(e, "EXPIRED")
  /\ Transfer(e, "client")
  /\ UNCHANGED <<consumerVars, amount, question, response, overdue>>

CanExpire(e) == status[e] \in Active /\ e \in overdue /\ CanTransfer(e, "client")

Expire(e) ==
  /\ CanExpire(e)
  /\ Become(e, "EXPIRED")
  /\ Transfer(e, "client")
  /\ UNCHANGED <<consumerVars, amount, question, response, overdue>>

(* Time passes.  The deadline lies ahead when an escrow is created.        *)
Elapse(e) ==
  /\ status[e] # "NONE"
  /\ overdue' = overdue \cup {e}
  /\ UNCHANGED <<consumerVars, status, amount, question, response, held, got>>

(* Fault: TRUE and FALSE are mistaken for each other.                      *)
RuleReversed(e, o) ==
  /\ status[e] = "DISPUTED" /\ o # "INVALID"
  /\ Become(e, IF o = "FALSE" THEN "RESOLVED_CLIENT" ELSE "RESOLVED_FREELANCER")
  /\ Transfer(e, IF o = "FALSE" THEN "client" ELSE "freelancer")
  /\ UNCHANGED <<amount, question, response, overdue>>

(* onVerdict looks only at the escrow's status, not at which question was  *)
(* answered; a late answer falls on deaf ears.                             *)
Rule(e, o) ==
  \/ /\ status[e] # "DISPUTED"
     /\ UNCHANGED escrowVars
  \/ /\ status[e] = "DISPUTED"
     /\ \/ /\ o = "TRUE"
           /\ Become(e, "RESOLVED_CLIENT")
           /\ Transfer(e, "client")
           /\ UNCHANGED <<question, response>>
        \/ /\ o = "FALSE"
           /\ Become(e, "RESOLVED_FREELANCER")
           /\ Transfer(e, "freelancer")
           /\ UNCHANGED <<question, response>>
        \/ /\ o = "INVALID"
           /\ Become(e, "DELIVERED")
           /\ question' = [question EXCEPT ![e] = NoQuestion]
           /\ response' = [response EXCEPT ![e] = FALSE]
           /\ UNCHANGED <<held, got>>
     /\ UNCHANGED <<amount, overdue>>

Verdict(i, o) == OnVerdict(i, o) /\ Rule(link[i], o)

Overruled(i) == ForceResolve(i) /\ UNCHANGED escrowVars
-----------------------------------------------------------------------------
Next ==
  \/ \E e \in Escrows :
       \/ \E a \in Amounts : CreateEscrow(e, a)
       \/ Deliver(e)
       \/ Accept(e)
       \/ \E i \in Ids : OpenDispute(e, i)
       \/ RespondToDispute(e)
       \/ Expire(e)
       \/ Elapse(e)
  \/ \E i \in Ids : Overruled(i) \/ \E o \in Rulings : Verdict(i, o)

Spec == Init /\ [][Next]_vars

(* Time passes, and a client who can have its money back asks for it.      *)
FairSpec == Spec /\ \A e \in Escrows : WF_vars(Elapse(e)) /\ WF_vars(Expire(e))
-----------------------------------------------------------------------------
(* The balance is exactly what the unfinished escrows locked: no escrow is *)
(* ever paid out of another one's money.                                   *)
Locked(e) == IF status[e] \in Active THEN amount[e] ELSE 0

Solvent == held = SumFunctionOnSet([e \in Escrows |-> Locked(e)], Escrows)

(* One party gets the whole amount, once, and it is the party that the     *)
(* final status names, however many disputes came before.                  *)
Winner(e) ==
  CASE status[e] \in {"ACCEPTED", "RESOLVED_FREELANCER"} -> "freelancer"
    [] status[e] \in {"RESOLVED_CLIENT", "EXPIRED"} -> "client"
    [] OTHER -> "nobody"

PaidOnce ==
  \A e \in Escrows, p \in {"client", "freelancer"} :
    got[e][p] = IF p = Winner(e) THEN amount[e] ELSE 0

(* onVerdict never compares the answered question with the one on record,  *)
(* so it is the life cycle that must make sure no other can arrive: while  *)
(* an escrow is in dispute, every question about it that may still be      *)
(* answered is the one on record.                                          *)
OneQuestion(e) ==
  \A i \in Ids : status[e] = "DISPUTED" /\ Waiting(i) /\ link[i] = e => question[e] = i

(* A dispute is never left behind by its answer: if the application heard  *)
(* the ruling, the escrow is no longer waiting for it.                     *)
DisputeIsLive(e) ==
  status[e] = "DISPUTED" =>
    /\ question[e] \in Ids
    /\ link[question[e]] = e
    /\ Waiting(question[e]) \/ DecidedUnheard(question[e])

(* What onVerdict relies on: the right question, a live one, a balance     *)
(* that holds every unfinished escrow's money, and nobody paid before.     *)
EscrowInv ==
  /\ TypeOK
  /\ Solvent
  /\ PaidOnce
  /\ \A e \in Escrows : OneQuestion(e) /\ DisputeIsLive(e)

(* An escrow that a verdict closed was closed by the answer to its own     *)
(* last question, and that answer was not ambiguous.                       *)
RulingObeyed ==
  \A e \in Escrows :
    /\ status[e] = "RESOLVED_CLIENT" => heard[question[e]] = <<"TRUE">>
    /\ status[e] = "RESOLVED_FREELANCER" => heard[question[e]] = <<"FALSE">>


(* Whatever becomes of the question, a dispute ends: the client's refund   *)
(* after the deadline needs no verdict, even one given over the            *)
(* application's head.                                                     *)
DisputeEnds ==
  \A e \in Escrows :
    (status[e] = "DISPUTED" /\ <<e, "client">> \notin Unpayable)
      ~> status[e] # "DISPUTED"

=============================================================================
