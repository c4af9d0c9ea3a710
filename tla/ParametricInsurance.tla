------------------------- MODULE ParametricInsurance -------------------------
(***************************************************************************)
(* Parametric insurance (contracts/applications/ParametricInsurance.sol)   *)
(* on top of the protocol's promise.  Collateral, payouts, returned bonds  *)
(* and gifts all share the contract's ether balance, which is `held` here. *)
(*                                                                         *)
(* payPremium is left out: it forwards its ether to the insurer and writes *)
(* nothing.                                                                *)
(***************************************************************************)
EXTENDS VerdictConsumer

CONSTANTS
  Policies,      \* policy ids
  Payouts,       \* payouts that may be underwritten
  Unpayable,     \* pairs <<p, party>>: sending that party ether reverts
  MaxDonation    \* bound: ether sent to receive() outside the protocol

ASSUME InsuranceAssumption ==
  /\ IsFiniteSet(Policies)  \* 256-bit numbers
  /\ Payouts \subseteq Nat \ {0}
  /\ Unpayable \subseteq Policies \X {"insurer", "holder"}
  /\ MaxDonation \in Nat

VARIABLES
  status,     \* status of every policy
  payout,     \* collateral posted for it
  question,   \* assertionId of its latest claim, or NoQuestion
  phase,      \* block time against the coverage window
  held,       \* ether balance of the contract
  donated,    \* part of it that came through receive() as a gift
  got         \* what each party was sent of the collateral

policyVars == <<status, payout, question, phase, held, donated, got>>
vars == <<consumerVars, policyVars>>

PolicyStatus == {"NONE", "ACTIVE", "CLAIM_PENDING", "PAID", "EXPIRED"}
Phases == {"before", "during", "after"}

TypeOK ==
  /\ Oracle!TypeOK
  /\ link \in [Ids -> Policies \cup {NoLink}]
  /\ status \in [Policies -> PolicyStatus]
  /\ payout \in [Policies -> Payouts \cup {0}]
  /\ question \in [Policies -> Ids \cup {NoQuestion}]
  /\ phase \in [Policies -> Phases]
  /\ held \in Nat
  /\ donated \in 0..MaxDonation
  /\ got \in [Policies -> [insurer : Nat, holder : Nat]]

Init ==
  /\ ConsumerInit
  /\ status = [p \in Policies |-> "NONE"]
  /\ payout = [p \in Policies |-> 0]
  /\ question = [p \in Policies |-> NoQuestion]
  /\ phase = [p \in Policies |-> "before"]
  /\ held = 0
  /\ donated = 0
  /\ got = [p \in Policies |-> [insurer |-> 0, holder |-> 0]]
-----------------------------------------------------------------------------
Become(p, s) == status' = [status EXCEPT ![p] = s]

(* A low-level call that sends the collateral, and reverts if it fails.    *)
(* The balance has already grown by what came back of a bond.              *)
CanSend(p, party, balance) == <<p, party>> \notin Unpayable /\ payout[p] <= balance

Send(p, party, balance) ==
  /\ CanSend(p, party, balance)
  /\ held' = balance - payout[p]
  /\ got' = [got EXCEPT ![p][party] = @ + payout[p]]

(* The window may lie anywhere: it is not compared with the clock.         *)
Underwrite(p, amount, when) ==
  /\ status[p] = "NONE"
  /\ Become(p, "ACTIVE")
  /\ payout' = [payout EXCEPT ![p] = amount]
  /\ phase' = [phase EXCEPT ![p] = when]
  /\ held' = held + amount
  /\ UNCHANGED <<consumerVars, question, donated, got>>

(* The bond only passes through.                                           *)
CanClaim(p, i) == status[p] = "ACTIVE" /\ phase[p] = "during" /\ Oracle!CanAsk(i)

Claim(p, i) ==
  /\ CanClaim(p, i)
  /\ Become(p, "CLAIM_PENDING")
  /\ CreateAssertionFor(i, p)
  /\ question' = [question EXCEPT ![p] = i]
  /\ UNCHANGED <<payout, phase, held, donated, got>>

(* Fault: a pending claim does not hold the collateral.                    *)
ReclaimPending(p) ==
  /\ status[p] \in {"ACTIVE", "CLAIM_PENDING"} /\ phase[p] = "after"
  /\ Become(p, "EXPIRED")
  /\ Send(p, "insurer", held)
  /\ UNCHANGED <<consumerVars, payout, question, phase, donated>>

CanReclaim(p) ==
  status[p] = "ACTIVE" /\ phase[p] = "after" /\ CanSend(p, "insurer", held)

Reclaim(p) ==
  /\ CanReclaim(p)
  /\ Become(p, "EXPIRED")
  /\ Send(p, "insurer", held)
  /\ UNCHANGED <<consumerVars, payout, question, phase, donated>>

(* Claims are INSTANT, so the registry holds an INVALID outcome only for a *)
(* resolved question.                                                      *)
CanRescue(p) == status[p] = "CLAIM_PENDING" /\ answer[question[p]] = "INVALID"

RescueInvalidClaim(p) ==
  /\ CanRescue(p)
  /\ Become(p, "ACTIVE")
  /\ UNCHANGED <<consumerVars, payout, question, phase, held, donated, got>>

(* Block time moves through the coverage window.                           *)
Elapse(p) ==
  /\ status[p] # "NONE"
  /\ \/ phase[p] = "before" /\ phase' = [phase EXCEPT ![p] = "during"]
     \/ phase[p] = "during" /\ phase' = [phase EXCEPT ![p] = "after"]
  /\ UNCHANGED <<consumerVars, status, payout, question, held, donated, got>>

(* What the registry returns of bond i before it calls back.               *)
Refunded(i) == repaid'[i] - repaid[i]

(* Fault: a denied claim stays pending.                                    *)
SettleIgnoresFalse(p, i, o) ==
  /\ o = "FALSE"
  /\ held' = held + Refunded(i)
  /\ UNCHANGED <<status, got>>

Settle(p, i, o) ==
  \/ /\ status[p] # "CLAIM_PENDING"
     /\ held' = held + Refunded(i)
     /\ UNCHANGED <<status, got>>
  \/ /\ status[p] = "CLAIM_PENDING"
     /\ \/ /\ o = "TRUE"
           /\ Become(p, "PAID")
           /\ Send(p, "holder", held + Refunded(i))
        \/ /\ o \in {"FALSE", "INVALID"}
           /\ Become(p, "ACTIVE")
           /\ held' = held + Refunded(i)
           /\ UNCHANGED got

Verdict(i, o) ==
  /\ OnVerdict(i, o)
  /\ Settle(link[i], i, o)
  /\ UNCHANGED <<payout, question, phase, donated>>

Overruled(i) ==
  /\ ForceResolve(i)
  /\ held' = held + Refunded(i)
  /\ UNCHANGED <<status, payout, question, phase, donated, got>>

(* receive(), inherited from VerdictConsumer, takes ether from anyone.     *)
Receive(x) ==
  /\ donated + x <= MaxDonation
  /\ donated' = donated + x
  /\ held' = held + x
  /\ UNCHANGED <<consumerVars, status, payout, question, phase, got>>
-----------------------------------------------------------------------------
Next ==
  \/ \E p \in Policies :
       \/ \E a \in Payouts, when \in Phases : Underwrite(p, a, when)
       \/ \E i \in Ids : Claim(p, i)
       \/ Reclaim(p)
       \/ RescueInvalidClaim(p)
       \/ Elapse(p)
  \/ \E i \in Ids : Overruled(i) \/ \E o \in Rulings : Verdict(i, o)
  \/ \E x \in 1..MaxDonation : Receive(x)

Spec == Init /\ [][Next]_vars
-----------------------------------------------------------------------------
(* "Always fully collateralised": the ether of the contract is exactly the *)
(* collateral of every policy still open plus the bonds that came back and *)
(* the gifts, so no payout is made out of another policy's collateral or   *)
(* out of a gift.                                                          *)
Collateral(p) == IF status[p] \in {"ACTIVE", "CLAIM_PENDING"} THEN payout[p] ELSE 0

Collateralised ==
  held = donated + Refunds
           + SumFunctionOnSet([p \in Policies |-> Collateral(p)], Policies)

(* The holder or the insurer gets the collateral, once, whatever claims    *)
(* were denied, rescued or overruled before.                               *)
PaidOnce ==
  \A p \in Policies :
    /\ got[p].holder = IF status[p] = "PAID" THEN payout[p] ELSE 0
    /\ got[p].insurer = IF status[p] = "EXPIRED" THEN payout[p] ELSE 0

(* A payout answers the policy's latest claim, and no earlier claim is     *)
(* still open to be answered: a rescued claim cannot come back to life.    *)
LatestClaimOnly(p) ==
  /\ status[p] = "PAID" => heard[question[p]] = <<"TRUE">>
  /\ \A i \in Ids : link[i] = p /\ Waiting(i) =>
       status[p] = "CLAIM_PENDING" /\ question[p] = i

(* The life of a policy: its latest claim is the only one that matters,    *)
(* and every policy still open is covered by its own collateral.           *)
PolicyInv ==
  /\ TypeOK
  /\ Collateralised
  /\ PaidOnce
  /\ \A p \in Policies : LatestClaimOnly(p)

(* Only a forced resolution that is not INVALID can strand a policy in     *)
(* CLAIM_PENDING.                                                          *)
Stranded(p) ==
  /\ status[p] = "CLAIM_PENDING"
  /\ ~Waiting(question[p])
  /\ ~CanRescue(p)

StrandedByForceOnly ==
  \A p \in Policies : Stranded(p) =>
    DecidedUnheard(question[p]) /\ answer[question[p]] \in {"TRUE", "FALSE"}

=============================================================================
