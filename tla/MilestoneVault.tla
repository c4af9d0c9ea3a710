---------------------------- MODULE MilestoneVault ----------------------------
(***************************************************************************)
(* Milestone grants (contracts/applications/MilestoneVault.sol) on top of  *)
(* the protocol's promise.  All grants of one token share the balance of   *)
(* the contract, which is `held` here.                                     *)
(***************************************************************************)
EXTENDS VerdictConsumer

CONSTANTS
  Grants,        \* grant ids
  Slots,         \* milestone indices
  Amounts        \* amounts a milestone may have

VaultAssumption ==             \* assumed of the constants
  /\ IsFiniteSet(Grants)       \* 256-bit numbers
  /\ IsFiniteSet(Slots)        \* 128-bit numbers
  /\ Amounts \subseteq Nat \ {0}

VARIABLES
  created,    \* grants that exist
  amount,     \* amount of every milestone of a grant
  status,     \* status of every milestone
  question,   \* its latest assertionId, or NoQuestion
  released,   \* releasedAmount of a grant
  expired,    \* grants whose grantExpiresAt has passed
  reclaimed,  \* grants the DAO took the residue of
  residue,    \* what the DAO took
  held        \* token balance of the contract

grantVars ==
  <<created, amount, status, question, released, expired, reclaimed, residue, held>>
vars == <<consumerVars, grantVars>>

MilestoneStatus == {"PENDING", "SUBMITTED", "RELEASED", "REJECTED"}

TypeOK ==
  /\ Oracle!TypeOK
  /\ link \in [Ids -> (Grants \X Slots) \cup {NoLink}]
  /\ created \subseteq Grants
  /\ amount \in [Grants -> [Slots -> Amounts \cup {0}]]
  /\ status \in [Grants -> [Slots -> MilestoneStatus]]
  /\ question \in [Grants -> [Slots -> Ids \cup {NoQuestion}]]
  /\ released \in [Grants -> Nat]
  /\ expired \subseteq Grants
  /\ reclaimed \subseteq Grants
  /\ residue \in [Grants -> Nat]
  /\ held \in Nat

Init ==
  /\ ConsumerInit
  /\ created = {}
  /\ amount = [g \in Grants |-> [m \in Slots |-> 0]]
  /\ status = [g \in Grants |-> [m \in Slots |-> "PENDING"]]
  /\ question = [g \in Grants |-> [m \in Slots |-> NoQuestion]]
  /\ released = [g \in Grants |-> 0]
  /\ expired = {}
  /\ reclaimed = {}
  /\ residue = [g \in Grants |-> 0]
  /\ held = 0
-----------------------------------------------------------------------------
(* totalAmount is the sum of the milestones, fixed at creation.            *)
SumOf(amounts) == SumFunctionOnSet(amounts, Slots)
TotalAmount(g) == SumOf(amount[g])

CreateGrant(g, amounts) ==
  /\ g \notin created
  /\ created' = created \cup {g}
  /\ amount' = [amount EXCEPT ![g] = amounts]
  /\ held' = held + SumOf(amounts)
  /\ UNCHANGED <<consumerVars, status, question, released, expired, reclaimed, residue>>

(* Fault: a submission may be repeated while it is judged.                 *)
SubmitMilestoneTwice(g, m, i) ==
  /\ g \in created /\ g \notin reclaimed \cup expired
  /\ status[g][m] \in {"PENDING", "REJECTED", "SUBMITTED"}
  /\ status' = [status EXCEPT ![g][m] = "SUBMITTED"]
  /\ CreateAssertionFor(i, <<g, m>>)
  /\ question' = [question EXCEPT ![g][m] = i]
  /\ UNCHANGED <<created, amount, released, expired, reclaimed, residue, held>>

(* Fault: a released milestone may be submitted again.                     *)
SubmitMilestoneAnew(g, m, i) ==
  /\ g \in created /\ g \notin reclaimed \cup expired
  /\ status[g][m] # "SUBMITTED"
  /\ status' = [status EXCEPT ![g][m] = "SUBMITTED"]
  /\ CreateAssertionFor(i, <<g, m>>)
  /\ question' = [question EXCEPT ![g][m] = i]
  /\ UNCHANGED <<created, amount, released, expired, reclaimed, residue, held>>

CanSubmit(g, m, i) ==
  /\ g \in created
  /\ g \notin reclaimed \cup expired
  /\ status[g][m] \in {"PENDING", "REJECTED"}
  /\ Oracle!CanAsk(i)

SubmitMilestone(g, m, i) ==
  /\ CanSubmit(g, m, i)
  /\ status' = [status EXCEPT ![g][m] = "SUBMITTED"]
  /\ CreateAssertionFor(i, <<g, m>>)
  /\ question' = [question EXCEPT ![g][m] = i]
  /\ UNCHANGED <<created, amount, released, expired, reclaimed, residue, held>>

CanReclaim(g) ==
  /\ g \in expired
  /\ g \notin reclaimed
  /\ TotalAmount(g) - released[g] <= held

(* A milestone whose verdict is still out does not hold the residue back.  *)
Reclaim(g) ==
  LET rest == TotalAmount(g) - released[g] IN
  /\ CanReclaim(g)
  /\ reclaimed' = reclaimed \cup {g}
  /\ residue' = [residue EXCEPT ![g] = rest]
  /\ held' = held - rest
  /\ UNCHANGED <<consumerVars, created, amount, status, question, released, expired>>

(* Time passes.  The expiry lies ahead when a grant is created.            *)
Elapse(g) ==
  /\ g \in created
  /\ expired' = expired \cup {g}
  /\ UNCHANGED <<consumerVars, created, amount, status, question, released,
                 reclaimed, residue, held>>

(* onVerdict checks the milestone, and not whether the grant was reclaimed. *)
Rule(g, m, o) ==
  \/ /\ status[g][m] # "SUBMITTED"
     /\ UNCHANGED <<status, released, held>>
  \/ /\ status[g][m] = "SUBMITTED"
     /\ o = "TRUE"
     /\ amount[g][m] <= held
     /\ status' = [status EXCEPT ![g][m] = "RELEASED"]
     /\ released' = [released EXCEPT ![g] = @ + amount[g][m]]
     /\ held' = held - amount[g][m]
  \/ /\ status[g][m] = "SUBMITTED"
     /\ o # "TRUE"
     /\ status' = [status EXCEPT ![g][m] = "REJECTED"]
     /\ UNCHANGED <<released, held>>

Verdict(i, o) ==
  /\ OnVerdict(i, o)
  /\ Rule(link[i][1], link[i][2], o)
  /\ UNCHANGED <<created, amount, question, expired, reclaimed, residue>>

Overruled(i) == ForceResolve(i) /\ UNCHANGED grantVars
-----------------------------------------------------------------------------
Next ==
  \/ \E g \in Grants :
       \/ \E amounts \in [Slots -> Amounts] : CreateGrant(g, amounts)
       \/ \E m \in Slots, i \in Ids : SubmitMilestone(g, m, i)
       \/ Reclaim(g)
       \/ Elapse(g)
  \/ \E i \in Ids : Overruled(i) \/ \E o \in Rulings : Verdict(i, o)

Spec == Init /\ [][Next]_vars
-----------------------------------------------------------------------------
(* Every token that came in is in the contract, with a grantee or with a   *)
(* DAO, and a grantee was paid exactly its RELEASED milestones.            *)
ReleasedSlots(g) == {m \in Slots : status[g][m] = "RELEASED"}

Conserved ==
  /\ \A g \in Grants :
       released[g] = SumFunctionOnSet(amount[g], ReleasedSlots(g))
  /\ SumFunctionOnSet([g \in Grants |-> TotalAmount(g)], Grants)
       = held + SumFunctionOnSet([g \in Grants |-> released[g] + residue[g]], Grants)

(* A milestone is released by a TRUE answer to its own latest question,    *)
(* and no older question about it can still be answered.                   *)
LatestSubmissionOnly(g, m) ==
  /\ status[g][m] = "RELEASED" => heard[question[g][m]] = <<"TRUE">>
  /\ \A i \in Ids : link[i] = <<g, m>> /\ Waiting(i) =>
       status[g][m] = "SUBMITTED" /\ question[g][m] = i

(* Money and milestones: every token is accounted for, and a milestone,    *)
(* which may be submitted again after a rejection, follows its last answer. *)
GrantInv ==
  /\ TypeOK
  /\ Conserved
  /\ \A g \in Grants, m \in Slots : LatestSubmissionOnly(g, m)

(* A grant gives out more than it took in only if its residue was          *)
(* reclaimed and, of the milestones, one was released that the residue     *)
(* covers.                                                                 *)
Overpaid(g) == released[g] + residue[g] > TotalAmount(g)

OverpaidAfterReclaimOnly ==
  \A g \in Grants : Overpaid(g) =>
    /\ g \in reclaimed
    /\ \E m \in ReleasedSlots(g) : residue[g] >= amount[g][m]

(* The contract's description: "Any unclaimed residue may be reclaimed by  *)
(* the DAO", and its reason for refusing late submissions: a callback      *)
(* "would revert on insufficient token balance".  So a grant never gives   *)
(* out more than it took in.                                               *)
NeverOverpaid == \A g \in Grants : ~Overpaid(g)
=============================================================================
