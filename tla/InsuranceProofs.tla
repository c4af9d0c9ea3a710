---------------------------- MODULE InsuranceProofs ----------------------------
(***************************************************************************)
(* Theorems of ParametricInsurance, for any policies, payouts, claims and  *)
(* parties that cannot be paid: collateral goes to one party once, a       *)
(* payout answers the policy's latest claim, and a claim that is pending   *)
(* without a question was decided over the application's head.  And of     *)
(* InsuranceApp, the table and the page over it: the contract's steps are  *)
(* those of ParametricInsurance, and the page offers what the contract     *)
(* takes.                                                                  *)
(***************************************************************************)
EXTENDS InsuranceApp, Sums, TLAPS

(* What an application has heard of a question: nothing before it is       *)
(* answered.                                                               *)
Silent(i) == answer[i] \in {"UNASKED", "WAITING"} => heard[i] = <<>>

(* Asking, answering and overriding keep the types of the oracle.          *)
LEMMA AskType ==
  ASSUME Oracle!TypeOK, NEW i \in Ids, Oracle!Ask(i, Bond)
  PROVE  Oracle!TypeOK'
  BY ConsumerAssumption DEF Oracle!TypeOK, Oracle!Ask, Oracle!CanAsk

LEMMA DecideType ==
  ASSUME Oracle!TypeOK, NEW i \in Ids, NEW o \in Rulings, NEW back,
         Oracle!Decide(i, o, back)
  PROVE  /\ answer' \in [Ids -> Rulings \cup {"UNASKED", "WAITING"}]
         /\ stake' \in [Ids -> Nat]
         /\ back \in Nat
         /\ repaid' \in [Ids -> Nat]
<1>1. back \in Nat
  <2>1. stake[i] \in Nat /\ back \in {0, stake[i], 2 * stake[i]}
    BY DEF Oracle!TypeOK, Oracle!Decide, Oracle!Returns
  <2>2. QED
    BY <2>1
<1>2. QED
  BY <1>1 DEF Oracle!TypeOK, Oracle!Decide, Oracle!Rulings, Rulings

LEMMA VerdictType ==
  ASSUME Oracle!TypeOK, NEW i \in Ids, NEW o \in Rulings, OnVerdict(i, o)
  PROVE  /\ Oracle!TypeOK'
         /\ Waiting(i)
         /\ answer' = [answer EXCEPT ![i] = o]
         /\ heard' = [heard EXCEPT ![i] = Append(heard[i], o)]
         /\ \E back \in Nat : repaid' = [repaid EXCEPT ![i] = back]
         /\ link' = link
<1>1. PICK back \in Oracle!Returns(i) : Oracle!Answer(i, o, back)
  BY DEF OnVerdict
<1>2. Oracle!Decide(i, o, back) /\ heard' = [heard EXCEPT ![i] = Append(@, o)]
  BY <1>1 DEF Oracle!Answer
<1>3. heard' \in [Ids -> Seq(Rulings)]
  BY <1>2 DEF Oracle!TypeOK, Oracle!Rulings, Rulings
<1>4. QED
  BY <1>2, <1>3, DecideType
     DEF Oracle!TypeOK, Oracle!Decide, OnVerdict, Waiting, Oracle!Rulings, Rulings

LEMMA OverruledType ==
  ASSUME Oracle!TypeOK, NEW i \in Ids, ForceResolve(i)
  PROVE  /\ Oracle!TypeOK'
         /\ Waiting(i)
         /\ \E o \in Rulings : answer' = [answer EXCEPT ![i] = o]
         /\ \E back \in Nat : repaid' = [repaid EXCEPT ![i] = back]
         /\ heard' = heard /\ link' = link
<1>1. PICK o \in Rulings, back \in Oracle!Returns(i) : Oracle!Override(i, o, back)
  BY DEF ForceResolve
<1>2. Oracle!Decide(i, o, back) /\ heard' = heard
  BY <1>1 DEF Oracle!Override
<1>3. QED
  BY <1>2, DecideType
     DEF Oracle!TypeOK, Oracle!Decide, ForceResolve, Waiting, Oracle!Rulings, Rulings
-----------------------------------------------------------------------------
PaidAt(p) ==
  /\ got[p].holder = IF status[p] = "PAID" THEN payout[p] ELSE 0
  /\ got[p].insurer = IF status[p] = "EXPIRED" THEN payout[p] ELSE 0

PaidByVerdict(p) ==
  status[p] = "PAID" => question[p] \in Ids /\ heard[question[p]] = <<"TRUE">>

PendingOK(p) ==
  status[p] = "CLAIM_PENDING" =>
    /\ question[p] \in Ids /\ link[question[p]] = p
    /\ Waiting(question[p]) \/ DecidedUnheard(question[p])

PolicyOK(p) == PaidAt(p) /\ PaidByVerdict(p) /\ PendingOK(p)

(* A claim that may still be answered is its policy's latest, and the      *)
(* policy waits for it; nothing came back of its bond before.              *)
ClaimOK(i) ==
  /\ Silent(i)
  /\ answer[i] \in {"UNASKED", "WAITING"} => repaid[i] = 0
  /\ Waiting(i) =>
       link[i] \in Policies /\ status[link[i]] = "CLAIM_PENDING" /\ question[link[i]] = i

(* The inductive invariant.                                                *)
IInv ==
  /\ TypeOK
  /\ \A p \in Policies : PolicyOK(p)
  /\ \A i \in Ids : ClaimOK(i)
-----------------------------------------------------------------------------
LEMMA PayoutNat == \A a \in Payouts \cup {0} : a \in Nat
<1>1. Payouts \subseteq Nat \ {0}
  BY InsuranceAssumption
<1>2. QED
  BY <1>1

LEMMA NotSilent == <<"TRUE">> # <<>>
  OBVIOUS

LEMMA FramePolicy ==
  ASSUME NEW p \in Policies, PolicyOK(p),
         status'[p] = status[p], payout'[p] = payout[p], got'[p] = got[p],
         question'[p] = question[p], UNCHANGED consumerVars
  PROVE  PolicyOK(p)'
  BY DEF PolicyOK, PaidAt, PaidByVerdict, PendingOK, Waiting, DecidedUnheard, consumerVars

LEMMA InitOK == Init => IInv
<1> SUFFICES ASSUME Init PROVE IInv
  OBVIOUS
<1>1. TypeOK
  BY InsuranceAssumption
     DEF Init, ConsumerInit, Oracle!Init, TypeOK, Oracle!TypeOK, PolicyStatus, Phases
<1>2. ASSUME NEW p \in Policies PROVE PolicyOK(p)
  BY DEF Init, PolicyOK, PaidAt, PaidByVerdict, PendingOK
<1>3. ASSUME NEW i \in Ids PROVE ClaimOK(i)
  BY DEF Init, ConsumerInit, Oracle!Init, ClaimOK, Silent, Waiting
<1>4. QED
  BY <1>1, <1>2, <1>3 DEF IInv

(* The collateral leaves the balance and nothing else does.                *)
LEMMA SendType ==
  ASSUME TypeOK, NEW p \in Policies, NEW party \in {"insurer", "holder"},
         NEW balance \in Nat, Send(p, party, balance)
  PROVE  /\ held' \in Nat
         /\ got' \in [Policies -> [insurer : Nat, holder : Nat]]
         /\ got'[p][party] = got[p][party] + payout[p]
         /\ \A q \in {"insurer", "holder"} : q # party => got'[p][q] = got[p][q]
         /\ \A r \in Policies : r # p => got'[r] = got[r]
<1>1. payout[p] \in Nat
  <2>1. payout[p] \in Payouts \cup {0}
    BY DEF TypeOK
  <2>2. QED
    BY <2>1, PayoutNat
<1>2. payout[p] <= balance /\ held' = balance - payout[p]
  BY DEF Send, CanSend
<1>3. got[p] \in [insurer : Nat, holder : Nat]
  BY DEF TypeOK
<1>4. got' = [got EXCEPT ![p] = [got[p] EXCEPT ![party] = got[p][party] + payout[p]]]
  BY DEF Send, TypeOK
<1>5. QED
  BY <1>1, <1>2, <1>3, <1>4 DEF TypeOK
-----------------------------------------------------------------------------
(* A step of policy p alone, while nobody waits for an answer about it.    *)
LEMMA LocalStep ==
  ASSUME IInv, NEW p \in Policies, TypeOK',
         UNCHANGED <<consumerVars, question>>,
         \A r \in Policies : r # p =>
           status'[r] = status[r] /\ payout'[r] = payout[r] /\ got'[r] = got[r],
         \A i \in Ids : Waiting(i) => link[i] # p,
         PolicyOK(p)'
  PROVE  IInv'
<1>1. ASSUME NEW r \in Policies PROVE PolicyOK(r)'
  BY <1>1, FramePolicy DEF IInv
<1>2. ASSUME NEW i \in Ids PROVE ClaimOK(i)'
  <2>1. ClaimOK(i) /\ link' = link /\ answer' = answer /\ heard' = heard /\ repaid' = repaid
    BY DEF IInv, consumerVars
  <2>2. QED
    BY <2>1 DEF ClaimOK, Silent, Waiting
<1>3. QED
  BY <1>1, <1>2 DEF IInv

LEMMA UnderwriteOK ==
  ASSUME IInv, NEW p \in Policies, NEW a \in Payouts, NEW when \in Phases,
         Underwrite(p, a, when)
  PROVE  IInv'
<1>1. TypeOK /\ PolicyOK(p) /\ a \in Nat
  BY PayoutNat DEF IInv
<1>2. held' \in Nat
  BY <1>1 DEF Underwrite, TypeOK
<1>3. TypeOK'
  BY <1>1, <1>2 DEF Underwrite, Become, TypeOK, PolicyStatus, consumerVars, Oracle!TypeOK
<1>4. status[p] = "NONE" /\ status'[p] = "ACTIVE"
  BY <1>1 DEF Underwrite, Become, TypeOK
<1>5. PolicyOK(p)'
  BY <1>1, <1>4 DEF PolicyOK, PaidAt, PaidByVerdict, PendingOK, Underwrite
<1>6. \A r \in Policies : r # p =>
        status'[r] = status[r] /\ payout'[r] = payout[r] /\ got'[r] = got[r]
  BY <1>1 DEF Underwrite, Become, TypeOK
<1>7. \A i \in Ids : Waiting(i) => link[i] # p
  BY <1>4 DEF IInv, ClaimOK
<1>8. QED
  BY <1>3, <1>5, <1>6, <1>7, LocalStep DEF Underwrite

LEMMA ReclaimOK ==
  ASSUME IInv, NEW p \in Policies, Reclaim(p)
  PROVE  IInv'
<1>1. TypeOK /\ PolicyOK(p) /\ held \in Nat /\ Send(p, "insurer", held)
  BY DEF IInv, TypeOK, Reclaim
<1>2. status[p] = "ACTIVE" /\ status'[p] = "EXPIRED"
      /\ \A r \in Policies : r # p => status'[r] = status[r]
  BY <1>1 DEF Reclaim, CanReclaim, Become, TypeOK
<1>3. /\ held' \in Nat /\ got' \in [Policies -> [insurer : Nat, holder : Nat]]
      /\ got'[p].insurer = got[p].insurer + payout[p] /\ got'[p].holder = got[p].holder
      /\ \A r \in Policies : r # p => got'[r] = got[r]
  BY <1>1, SendType
<1>4. TypeOK'
  BY <1>1, <1>3 DEF Reclaim, Become, TypeOK, PolicyStatus, consumerVars, Oracle!TypeOK
<1>5. payout[p] \in Nat
  <2>1. payout[p] \in Payouts \cup {0}
    BY <1>1 DEF TypeOK
  <2>2. QED
    BY <2>1, PayoutNat
<1>6. PolicyOK(p)'
  BY <1>1, <1>2, <1>3, <1>5 DEF PolicyOK, PaidAt, PaidByVerdict, PendingOK, Reclaim
<1>7. \A i \in Ids : Waiting(i) => link[i] # p
  BY <1>2 DEF IInv, ClaimOK
<1>8. QED
  BY <1>2, <1>3, <1>4, <1>6, <1>7, LocalStep DEF Reclaim

LEMMA RescueOK ==
  ASSUME IInv, NEW p \in Policies, RescueInvalidClaim(p)
  PROVE  IInv'
<1>1. TypeOK /\ PolicyOK(p) /\ answer[question[p]] = "INVALID"
  BY DEF IInv, RescueInvalidClaim, CanRescue
<1>2. status[p] = "CLAIM_PENDING" /\ status'[p] = "ACTIVE"
      /\ \A r \in Policies : r # p => status'[r] = status[r]
  BY <1>1 DEF RescueInvalidClaim, CanRescue, Become, TypeOK
<1>3. TypeOK'
  BY <1>1 DEF RescueInvalidClaim, CanRescue, Become, TypeOK, PolicyStatus, consumerVars,
              Oracle!TypeOK
<1>4. PolicyOK(p)'
  BY <1>1, <1>2 DEF PolicyOK, PaidAt, PaidByVerdict, PendingOK, RescueInvalidClaim, CanRescue
<1>5. \A i \in Ids : Waiting(i) => link[i] # p
  BY <1>1 DEF IInv, ClaimOK, Waiting
<1>6. QED
  BY <1>2, <1>3, <1>4, <1>5, LocalStep DEF RescueInvalidClaim, CanRescue

LEMMA AsideOK ==
  ASSUME IInv, \/ \E p \in Policies : Elapse(p)
               \/ \E x \in 1..MaxDonation : Receive(x)
               \/ UNCHANGED vars
  PROVE  IInv'
<1>1. TypeOK /\ UNCHANGED <<consumerVars, status, payout, question, got>>
  BY DEF IInv, Elapse, Receive, vars, policyVars
<1>2. /\ phase' \in [Policies -> Phases] /\ held' \in Nat /\ donated' \in 0..MaxDonation
  BY InsuranceAssumption DEF IInv, TypeOK, Elapse, Receive, vars, policyVars, Phases
<1>3. TypeOK'
  BY <1>1, <1>2 DEF TypeOK, consumerVars, Oracle!TypeOK
<1>4. ASSUME NEW r \in Policies PROVE PolicyOK(r)'
  BY <1>1, FramePolicy DEF IInv
<1>5. ASSUME NEW i \in Ids PROVE ClaimOK(i)'
  BY <1>1 DEF IInv, ClaimOK, Silent, Waiting, consumerVars
<1>6. QED
  BY <1>3, <1>4, <1>5 DEF IInv
-----------------------------------------------------------------------------
LEMMA ClaimStepOK ==
  ASSUME IInv, NEW p \in Policies, NEW i \in Ids, Claim(p, i)
  PROVE  IInv'
<1>1. TypeOK /\ PolicyOK(p) /\ i # NoQuestion
  BY ConsumerAssumption DEF IInv
<1>2. status[p] = "ACTIVE" /\ status' = [status EXCEPT ![p] = "CLAIM_PENDING"]
  BY DEF Claim, CanClaim, Become
<1>3. /\ answer[i] = "UNASKED" /\ answer' = [answer EXCEPT ![i] = "WAITING"]
      /\ heard' = heard /\ repaid' = repaid /\ link' = [link EXCEPT ![i] = p]
      /\ question' = [question EXCEPT ![p] = i]
      /\ UNCHANGED <<payout, phase, held, donated, got>>
  BY DEF Claim, CreateAssertionFor, Oracle!Ask, Oracle!CanAsk
<1>4. TypeOK'
  <2>1. Oracle!TypeOK'
    BY <1>1, AskType DEF Claim, CreateAssertionFor, TypeOK
  <2>2. QED
    BY <1>1, <1>2, <1>3, <2>1 DEF TypeOK, PolicyStatus
<1>5. ASSUME NEW r \in Policies PROVE PolicyOK(r)'
  <2>1. CASE r = p
    <3>1. status'[p] = "CLAIM_PENDING" /\ question'[p] = i /\ link'[i] = p
          /\ answer'[i] = "WAITING"
      BY <1>1, <1>2, <1>3 DEF TypeOK, Oracle!TypeOK
    <3>2. QED
      BY <1>1, <1>2, <1>3, <2>1, <3>1
         DEF PolicyOK, PaidAt, PaidByVerdict, PendingOK, Waiting
  <2>2. CASE r # p
    <3>1. PolicyOK(r) /\ status'[r] = status[r] /\ question'[r] = question[r]
      BY <1>1, <1>2, <1>3, <2>2 DEF IInv, TypeOK
    <3>2. PaidAt(r)' /\ PaidByVerdict(r)'
      BY <1>3, <3>1 DEF PolicyOK, PaidAt, PaidByVerdict
    <3>3. status[r] = "CLAIM_PENDING" => question[r] # i
      BY <1>3, <3>1 DEF PolicyOK, PendingOK, Waiting, DecidedUnheard, Rulings
    <3>4. PendingOK(r)'
      BY <1>1, <1>3, <3>1, <3>3
         DEF PolicyOK, PendingOK, Waiting, DecidedUnheard, TypeOK, Oracle!TypeOK
    <3>5. QED
      BY <3>2, <3>4 DEF PolicyOK
  <2>3. QED
    BY <2>1, <2>2
<1>6. ASSUME NEW j \in Ids PROVE ClaimOK(j)'
  <2>1. CASE j = i
    <3>1. heard[i] = <<>> /\ repaid[i] = 0
      BY <1>3 DEF IInv, ClaimOK, Silent
    <3>2. QED
      BY <1>1, <1>2, <1>3, <2>1, <3>1 DEF ClaimOK, Silent, Waiting, TypeOK, Oracle!TypeOK
  <2>2. CASE j # i
    <3>1. ClaimOK(j) /\ answer'[j] = answer[j] /\ link'[j] = link[j]
      BY <1>1, <1>3, <2>2 DEF IInv, TypeOK, Oracle!TypeOK
    <3>2. Waiting(j) => link[j] # p
      BY <1>2, <3>1 DEF ClaimOK
    <3>3. QED
      BY <1>1, <1>2, <1>3, <3>1, <3>2 DEF ClaimOK, Silent, Waiting, TypeOK
  <2>3. QED
    BY <2>1, <2>2
<1>7. QED
  BY <1>4, <1>5, <1>6 DEF IInv

(* A forced resolution decides the claim and leaves the policy pending.    *)
LEMMA OverruledOK ==
  ASSUME IInv, NEW i \in Ids, Overruled(i)
  PROVE  IInv'
<1>1. /\ TypeOK /\ Oracle!TypeOK /\ ForceResolve(i) /\ held' = held + Refunded(i)
      /\ UNCHANGED <<status, payout, question, phase, donated, got>>
  BY DEF IInv, TypeOK, Overruled
<1>2. Oracle!TypeOK' /\ Waiting(i) /\ heard' = heard /\ link' = link
  BY <1>1, OverruledType
<1>3. PICK o \in Rulings : answer' = [answer EXCEPT ![i] = o]
  BY <1>1, OverruledType
<1>4. PICK back \in Nat : repaid' = [repaid EXCEPT ![i] = back]
  BY <1>1, OverruledType
<1>5. o \notin {"UNASKED", "WAITING"} /\ heard[i] = <<>> /\ repaid[i] = 0
  BY <1>2 DEF Rulings, IInv, ClaimOK, Silent, Waiting
<1>6. held' \in Nat
  BY <1>1, <1>4, <1>5 DEF TypeOK, Oracle!TypeOK, Refunded
<1>7. TypeOK'
  BY <1>1, <1>2, <1>6 DEF TypeOK
<1>8. ASSUME NEW r \in Policies PROVE PolicyOK(r)'
  <2>1. PolicyOK(r) /\ PaidAt(r)' /\ PaidByVerdict(r)'
    BY <1>1, <1>2 DEF IInv, PolicyOK, PaidAt, PaidByVerdict
  <2>2. PendingOK(r)'
    BY <1>1, <1>2, <1>3, <1>5, <2>1
       DEF PolicyOK, PendingOK, Waiting, DecidedUnheard, Oracle!TypeOK
  <2>3. QED
    BY <2>1, <2>2 DEF PolicyOK
<1>9. ASSUME NEW j \in Ids PROVE ClaimOK(j)'
  BY <1>1, <1>2, <1>3, <1>4, <1>5 DEF IInv, ClaimOK, Silent, Waiting, Oracle!TypeOK
<1>10. QED
  BY <1>7, <1>8, <1>9 DEF IInv
-----------------------------------------------------------------------------
(* A verdict is always on the latest claim of a policy that waits for it.  *)
LEMMA VerdictOK ==
  ASSUME IInv, NEW i \in Ids, NEW o \in Rulings, Verdict(i, o)
  PROVE  IInv'
<1>1. /\ TypeOK /\ Oracle!TypeOK /\ OnVerdict(i, o) /\ UNCHANGED <<payout, question, phase, donated>>
  BY DEF IInv, TypeOK, Verdict
<1>2. /\ Oracle!TypeOK' /\ Waiting(i) /\ link' = link
      /\ answer' = [answer EXCEPT ![i] = o]
      /\ heard' = [heard EXCEPT ![i] = Append(heard[i], o)]
  BY <1>1, VerdictType
<1>3. PICK back \in Nat : repaid' = [repaid EXCEPT ![i] = back]
  BY <1>1, VerdictType
<1>4. heard[i] = <<>> /\ repaid[i] = 0
  BY <1>2 DEF IInv, ClaimOK, Silent, Waiting
<1>5. PICK p \in Policies : link[i] = p /\ status[p] = "CLAIM_PENDING" /\ question[p] = i
  BY <1>2 DEF IInv, ClaimOK
<1>6. Settle(p, i, o) /\ PolicyOK(p)
  BY <1>5 DEF Verdict, IInv
<1>7. /\ heard' = [heard EXCEPT ![i] = <<o>>] /\ heard'[i] = <<o>> /\ answer'[i] = o
      /\ o \notin {"UNASKED", "WAITING"}
  BY <1>1, <1>2, <1>4 DEF Oracle!TypeOK, Rulings
<1>8. held + Refunded(i) \in Nat
  BY <1>1, <1>3, <1>4 DEF TypeOK, Oracle!TypeOK, Refunded
<1>9. payout[p] \in Nat /\ got[p].holder = 0 /\ got[p].insurer = 0
  <2>1. payout[p] \in Payouts \cup {0}
    BY <1>1 DEF TypeOK
  <2>2. QED
    BY <1>5, <1>6, <2>1, PayoutNat DEF PolicyOK, PaidAt
<1>10. ASSUME NEW s \in PolicyStatus, Become(p, s), s # "CLAIM_PENDING",
              held' \in Nat, got' \in [Policies -> [insurer : Nat, holder : Nat]],
              \A r \in Policies : r # p => got'[r] = got[r],
              PaidAt(p)', PaidByVerdict(p)'
       PROVE  IInv'
  <2>1. status'[p] = s /\ \A r \in Policies : r # p => status'[r] = status[r]
    BY <1>1, <1>10 DEF Become, TypeOK
  <2>2. TypeOK'
    BY <1>1, <1>2, <1>10 DEF TypeOK, Become
  <2>3. ASSUME NEW r \in Policies PROVE PolicyOK(r)'
    <3>1. CASE r = p
      BY <1>10, <2>1, <3>1 DEF PolicyOK, PendingOK
    <3>2. CASE r # p
      <4>1. PolicyOK(r) /\ status'[r] = status[r] /\ got'[r] = got[r]
        BY <1>10, <2>1, <3>2 DEF IInv
      <4>2. PaidAt(r)'
        BY <1>1, <4>1 DEF PolicyOK, PaidAt
      <4>3. status[r] = "PAID" => question[r] # i
        BY <1>4, <4>1, NotSilent DEF PolicyOK, PaidByVerdict
      <4>4. PaidByVerdict(r)'
        BY <1>1, <1>7, <4>1, <4>3 DEF PolicyOK, PaidByVerdict, Oracle!TypeOK
      <4>5. status[r] = "CLAIM_PENDING" => question[r] # i
        BY <1>5, <3>2, <4>1 DEF PolicyOK, PendingOK
      <4>6. PendingOK(r)'
        BY <1>1, <1>2, <1>7, <4>1, <4>5
           DEF PolicyOK, PendingOK, Waiting, DecidedUnheard, Oracle!TypeOK
      <4>7. QED
        BY <4>2, <4>4, <4>6 DEF PolicyOK
    <3>3. QED
      BY <3>1, <3>2
  <2>4. ASSUME NEW j \in Ids PROVE ClaimOK(j)'
    <3>1. CASE j = i
      BY <1>7, <3>1 DEF ClaimOK, Silent, Waiting
    <3>2. CASE j # i
      <4>1. /\ ClaimOK(j) /\ answer'[j] = answer[j] /\ heard'[j] = heard[j]
            /\ repaid'[j] = repaid[j] /\ link'[j] = link[j]
        BY <1>1, <1>2, <1>3, <1>7, <3>2 DEF IInv, Oracle!TypeOK
      <4>2. Waiting(j) => link[j] # p
        BY <1>5, <3>2, <4>1 DEF ClaimOK
      <4>3. QED
        BY <1>1, <2>1, <4>1, <4>2 DEF ClaimOK, Silent, Waiting
    <3>3. QED
      BY <3>1, <3>2
  <2>5. QED
    BY <2>2, <2>3, <2>4 DEF IInv
<1>11. CASE o = "TRUE" /\ Become(p, "PAID") /\ Send(p, "holder", held + Refunded(i))
  <2>1. /\ held' \in Nat /\ got' \in [Policies -> [insurer : Nat, holder : Nat]]
        /\ got'[p].holder = got[p].holder + payout[p] /\ got'[p].insurer = got[p].insurer
        /\ \A r \in Policies : r # p => got'[r] = got[r]
    BY <1>1, <1>8, <1>11, SendType
  <2>2. status'[p] = "PAID"
    BY <1>1, <1>11 DEF Become, TypeOK
  <2>3. PaidAt(p)'
    BY <1>1, <1>9, <2>1, <2>2 DEF PaidAt
  <2>4. PaidByVerdict(p)'
    BY <1>1, <1>5, <1>7, <1>11 DEF PaidByVerdict
  <2>5. QED
    BY <1>10, <1>11, <2>1, <2>3, <2>4 DEF PolicyStatus
<1>12. CASE o \in {"FALSE", "INVALID"} /\ Become(p, "ACTIVE")
            /\ held' = held + Refunded(i) /\ UNCHANGED got
  <2>1. status'[p] = "ACTIVE"
    BY <1>1, <1>12 DEF Become, TypeOK
  <2>2. PaidAt(p)' /\ PaidByVerdict(p)'
    BY <1>9, <1>12, <2>1 DEF PaidAt, PaidByVerdict
  <2>3. held' \in Nat /\ got' \in [Policies -> [insurer : Nat, holder : Nat]]
    BY <1>1, <1>8, <1>12 DEF TypeOK
  <2>4. QED
    BY <1>10, <1>12, <2>2, <2>3 DEF PolicyStatus
<1>13. QED
  BY <1>5, <1>6, <1>11, <1>12 DEF Settle
-----------------------------------------------------------------------------
LEMMA NextOK == IInv /\ [Next]_vars => IInv'
  BY UnderwriteOK, ReclaimOK, RescueOK, ClaimStepOK, AsideOK, OverruledOK, VerdictOK DEF Next

(* The balance.  A step moves the collateral of one policy at most, and    *)
(* what comes back of a bond stays in the contract.                        *)
LEMMA CollateralNat == ASSUME TypeOK, NEW p \in Policies PROVE Collateral(p) \in Nat
<1>1. payout[p] \in Payouts \cup {0}
  BY DEF TypeOK
<1>2. QED
  BY <1>1, PayoutNat DEF Collateral

LEMMA CollateralNext ==
  ASSUME TypeOK', NEW p \in Policies PROVE Collateral(p)' \in Nat
<1>1. payout'[p] \in Payouts \cup {0}
  BY DEF TypeOK
<1>2. QED
  BY <1>1, PayoutNat DEF Collateral

LEMMA RefundsNat == ASSUME Oracle!TypeOK PROVE Refunds \in Nat
<1>1. \A i \in Ids : repaid[i] \in Nat
  BY DEF Oracle!TypeOK
<1>2. QED
  BY <1>1, SumNat, ConsumerAssumption DEF Refunds

LEMMA RefundsNext ==
  ASSUME Oracle!TypeOK, Oracle!TypeOK', NEW i \in Ids, NEW back \in Nat,
         repaid' = [repaid EXCEPT ![i] = back]
  PROVE  Refunds' = Refunds + Refunded(i) /\ Refunded(i) \in Int
<1> DEFINE r == repaid
           s == repaid'
<1>1. /\ \A j \in Ids : repaid[j] \in Int /\ repaid'[j] \in Int
      /\ \A j \in Ids \ {i} : repaid'[j] = repaid[j]
  BY DEF Oracle!TypeOK
<1>2. SumFunctionOnSet(s, Ids) = SumFunctionOnSet(r, Ids) - r[i] + s[i]
  <2>1. (\A j \in Ids : r[j] \in Int /\ s[j] \in Int) /\ \A j \in Ids \ {i} : s[j] = r[j]
    BY <1>1
  <2> HIDE DEF r, s
  <2>2. QED
    BY <2>1, SumChanged, ConsumerAssumption
<1>3. Refunds \in Nat
  BY RefundsNat
<1>4. QED
  BY <1>1, <1>2, <1>3 DEF Refunds, Refunded

(* What the contract holds besides collateral.                             *)
Spare == donated + Refunds

LEMMA SpareNat == ASSUME TypeOK PROVE Spare \in Nat /\ Refunds \in Nat /\ donated \in Nat
  BY RefundsNat, InsuranceAssumption DEF TypeOK, Spare

LEMMA SpareIs ==
  /\ Collateralised <=>
       held = Spare + SumFunctionOnSet([p \in Policies |-> Collateral(p)], Policies)
  /\ Collateralised' <=>
       held' = Spare' + SumFunctionOnSet([p \in Policies |-> Collateral(p)'], Policies)
  BY DEF Collateralised, Spare

LEMMA CoverStep ==
  ASSUME TypeOK, TypeOK', Collateralised, NEW p \in Policies,
         \A r \in Policies \ {p} : Collateral(r)' = Collateral(r),
         NEW d \in Int, Spare' = Spare + d,
         held' - d - Collateral(p)' = held - Collateral(p)
  PROVE  Collateralised'
<1> DEFINE c == [r \in Policies |-> Collateral(r)]
           k == [r \in Policies |-> Collateral(r)']
<1>1. \A r \in Policies : c[r] \in Int /\ k[r] \in Int
  <2> SUFFICES ASSUME NEW r \in Policies PROVE Collateral(r) \in Nat /\ Collateral(r)' \in Nat
    OBVIOUS
  <2>1. QED
    BY CollateralNat, CollateralNext
<1>2. \A r \in Policies \ {p} : k[r] = c[r]
  OBVIOUS
<1>3. held \in Int /\ held' \in Int /\ Spare \in Int
  BY SpareNat DEF TypeOK
<1>4. held = Spare + SumFunctionOnSet(c, Policies) /\ held' - d - k[p] = held - c[p]
  BY SpareIs
<1>5. SumFunctionOnSet(k, Policies) = SumFunctionOnSet(c, Policies) - c[p] + k[p]
  <2> HIDE DEF c, k
  <2>1. QED
    BY <1>1, <1>2, SumChanged, InsuranceAssumption
<1>6. SumFunctionOnSet(c, Policies) \in Int
  <2> HIDE DEF c, k
  <2>1. QED
    BY <1>1, SumInt, InsuranceAssumption
<1>7. held' = Spare' + SumFunctionOnSet(k, Policies)
  <2> HIDE DEF c, k
  <2>1. QED
    BY <1>1, <1>3, <1>4, <1>5, <1>6
<1>8. QED
  BY <1>7, SpareIs

LEMMA CoverAside ==
  ASSUME TypeOK, Collateralised, \A r \in Policies : Collateral(r)' = Collateral(r),
         NEW d \in Int, Spare' = Spare + d, held' = held + d
  PROVE  Collateralised'
<1>1. [r \in Policies |-> Collateral(r)'] = [r \in Policies |-> Collateral(r)]
  OBVIOUS
<1>2. SumFunctionOnSet([r \in Policies |-> Collateral(r)], Policies) \in Int
  <2>1. \A r \in Policies : [q \in Policies |-> Collateral(q)][r] \in Int
    BY CollateralNat
  <2>2. QED
    BY <2>1, SumInt, InsuranceAssumption
<1>3. held \in Int /\ Spare \in Int
  BY SpareNat DEF TypeOK
<1>4. QED
  BY <1>1, <1>2, <1>3, SpareIs

(* A policy that is settled by a payment takes its own collateral with it. *)
LEMMA PaidOut ==
  ASSUME TypeOK, TypeOK', Collateralised, NEW p \in Policies, NEW party, NEW s,
         NEW d \in Int, Spare' = Spare + d,
         status[p] \in {"ACTIVE", "CLAIM_PENDING"}, s \notin {"ACTIVE", "CLAIM_PENDING"},
         Become(p, s), Send(p, party, held + d), payout' = payout
  PROVE  Collateralised'
<1>1. Collateral(p) = payout[p] /\ Collateral(p)' = 0
  BY DEF Collateral, Become, TypeOK
<1>2. \A r \in Policies \ {p} : Collateral(r)' = Collateral(r)
  BY DEF Collateral, Become, TypeOK
<1>3. held' = held + d - Collateral(p) /\ held \in Nat /\ Collateral(p) \in Nat
  BY <1>1, CollateralNat DEF Send, TypeOK
<1>4. held' - d - Collateral(p)' = held - Collateral(p)
  BY <1>1, <1>3
<1>5. QED
  BY <1>2, <1>4, CoverStep

(* A policy that stays open keeps its collateral in.                       *)
LEMMA StaysOpen ==
  ASSUME TypeOK, Collateralised, NEW p \in Policies, NEW s \in {"ACTIVE", "CLAIM_PENDING"},
         status[p] \in {"ACTIVE", "CLAIM_PENDING"},
         Become(p, s), payout' = payout,
         NEW d \in Int, Spare' = Spare + d, held' = held + d
  PROVE  Collateralised'
<1>1. \A r \in Policies : Collateral(r)' = Collateral(r)
  BY DEF Collateral, Become, TypeOK
<1>2. QED
  BY <1>1, CoverAside

LEMMA UnderwriteCovered ==
  ASSUME TypeOK, TypeOK', Collateralised, NEW p \in Policies, NEW a \in Payouts,
         NEW when, Underwrite(p, a, when)
  PROVE  Collateralised'
<1>1. Collateral(p) = 0 /\ Collateral(p)' = a
  BY DEF Collateral, Underwrite, Become, TypeOK
<1>2. \A r \in Policies \ {p} : Collateral(r)' = Collateral(r)
  BY DEF Collateral, Underwrite, Become, TypeOK
<1>3. held' = held + a /\ held \in Nat /\ a \in Nat
  BY PayoutNat DEF Underwrite, TypeOK
<1>4. Spare' = Spare + 0 /\ held' - 0 - Collateral(p)' = held - Collateral(p)
  BY <1>1, <1>3, SpareNat DEF Underwrite, consumerVars, Refunds, Spare, TypeOK
<1>5. QED
  BY <1>2, <1>4, CoverStep

LEMMA VerdictCovered ==
  ASSUME IInv, TypeOK', Collateralised, NEW i \in Ids, NEW o \in Rulings, Verdict(i, o)
  PROVE  Collateralised'
<1>1. /\ TypeOK /\ Oracle!TypeOK /\ OnVerdict(i, o) /\ Settle(link[i], i, o)
      /\ payout' = payout /\ donated' = donated
  BY DEF IInv, TypeOK, Verdict
<1>2. PICK p \in Policies : link[i] = p /\ status[p] = "CLAIM_PENDING"
  BY <1>1, VerdictType DEF IInv, ClaimOK
<1>3. PICK back \in Nat : repaid' = [repaid EXCEPT ![i] = back]
  BY <1>1, VerdictType
<1>4. Spare' = Spare + Refunded(i) /\ Refunded(i) \in Int
  <2>1. Refunds' = Refunds + Refunded(i) /\ Refunded(i) \in Int
    BY <1>1, <1>3, RefundsNext, VerdictType
  <2>2. QED
    BY <1>1, <2>1, SpareNat DEF Spare
<1>5. CASE Become(p, "PAID") /\ Send(p, "holder", held + Refunded(i))
  BY <1>1, <1>2, <1>4, <1>5, PaidOut
<1>6. CASE Become(p, "ACTIVE") /\ held' = held + Refunded(i)
  BY <1>1, <1>2, <1>4, <1>6, StaysOpen
<1>7. QED
  BY <1>1, <1>2, <1>5, <1>6 DEF Settle

LEMMA CoveredNext == IInv /\ Collateralised /\ [Next]_vars => Collateralised'
<1> SUFFICES ASSUME IInv, Collateralised, [Next]_vars PROVE Collateralised'
  OBVIOUS
<1>1. /\ TypeOK /\ TypeOK' /\ Oracle!TypeOK /\ held \in Nat
      /\ Spare \in Nat /\ Refunds \in Nat /\ donated \in Nat
  <2>1. TypeOK /\ TypeOK'
    BY NextOK DEF IInv
  <2>2. QED
    BY <2>1, SpareNat DEF TypeOK
<1>2. ASSUME repaid' = repaid, donated' = donated PROVE Spare' = Spare + 0
  BY <1>1, <1>2 DEF Refunds, Spare
<1>3. ASSUME NEW p \in Policies, NEW i \in Ids, Claim(p, i)
      PROVE  Collateralised'
  <2>1. Spare' = Spare + 0 /\ held' = held + 0
    BY <1>1, <1>2, <1>3 DEF Claim, CreateAssertionFor, Oracle!Ask, Oracle!CanAsk
  <2>2. QED
    BY <1>1, <1>3, <2>1, StaysOpen DEF Claim, CanClaim
<1>4. ASSUME NEW p \in Policies, RescueInvalidClaim(p) PROVE Collateralised'
  <2>1. Spare' = Spare + 0 /\ held' = held + 0
    BY <1>1, <1>2, <1>4 DEF RescueInvalidClaim, CanRescue, consumerVars
  <2>2. status[p] = "CLAIM_PENDING" /\ Become(p, "ACTIVE") /\ payout' = payout
    BY <1>4 DEF RescueInvalidClaim, CanRescue
  <2>3. QED
    BY <1>1, <2>1, <2>2, StaysOpen
<1>5. ASSUME NEW p \in Policies, Reclaim(p) PROVE Collateralised'
  <2>1. Spare' = Spare + 0 /\ held + 0 = held
    BY <1>1, <1>2, <1>5 DEF Reclaim, consumerVars
  <2>2. QED
    BY <1>1, <1>5, <2>1, PaidOut DEF Reclaim, CanReclaim
<1>6. CASE UNCHANGED vars \/ \E p \in Policies : Elapse(p)
  <2>1. Spare' = Spare + 0 /\ held' = held + 0
    BY <1>1, <1>2, <1>6 DEF Elapse, vars, policyVars, consumerVars
  <2>2. \A r \in Policies : Collateral(r)' = Collateral(r)
    BY <1>6 DEF Collateral, Elapse, vars, policyVars
  <2>3. QED
    BY <1>1, <2>1, <2>2, CoverAside
<1>7. ASSUME NEW i \in Ids, Overruled(i) PROVE Collateralised'
  <2>1. PICK back \in Nat : repaid' = [repaid EXCEPT ![i] = back]
    BY <1>1, <1>7, OverruledType DEF Overruled
  <2>2. Spare' = Spare + Refunded(i) /\ Refunded(i) \in Int
    <3>1. Oracle!TypeOK'
      BY <1>1 DEF TypeOK
    <3>2. Refunds' = Refunds + Refunded(i) /\ Refunded(i) \in Int
      BY <1>1, <2>1, <3>1, RefundsNext
    <3>3. QED
      BY <1>1, <1>7, <3>2 DEF Spare, Overruled
  <2>3. \A r \in Policies : Collateral(r)' = Collateral(r)
    BY <1>7 DEF Collateral, Overruled
  <2>4. QED
    BY <1>1, <1>7, <2>2, <2>3, CoverAside DEF Overruled
<1>8. ASSUME NEW x \in 1..MaxDonation, Receive(x) PROVE Collateralised'
  <2>1. Spare' = Spare + x /\ held' = held + x /\ x \in Int
    BY <1>1, <1>8 DEF Receive, Spare, Refunds, consumerVars
  <2>2. \A r \in Policies : Collateral(r)' = Collateral(r)
    BY <1>8 DEF Collateral, Receive
  <2>3. QED
    BY <1>1, <2>1, <2>2, CoverAside
<1>9. QED
  BY <1>1, <1>3, <1>4, <1>5, <1>6, <1>7, <1>8, UnderwriteCovered, VerdictCovered DEF Next
-----------------------------------------------------------------------------
LEMMA InitCovered == Init => Collateralised
<1> SUFFICES ASSUME Init PROVE Collateralised
  OBVIOUS
<1>1. \A p \in Policies : Collateral(p) = 0
  BY DEF Init, Collateral
<1>2. SumFunctionOnSet([p \in Policies |-> Collateral(p)], Policies) = 0
  BY <1>1, SumZero, InsuranceAssumption
<1>3. Refunds = 0
  BY SumZero, ConsumerAssumption DEF Init, ConsumerInit, Oracle!Init, Refunds
<1>4. QED
  BY <1>2, <1>3 DEF Init, Collateralised

LEMMA Invariant == Spec => []IInv
<1>1. Init => IInv
  BY InitOK
<1>2. IInv /\ [Next]_vars => IInv'
  BY NextOK
<1>3. QED
  BY <1>1, <1>2, PTL DEF Spec

(* "Always fully collateralised": the ether of the contract is, at all     *)
(* times, the collateral of the open policies, what came back of bonds and *)
(* what was given through receive(), to the last wei.                      *)
THEOREM AlwaysCollateralised == Spec => []Collateralised
<1>1. Init => Collateralised
  BY InitCovered
<1>2. IInv /\ Collateralised /\ [Next]_vars => Collateralised'
  BY CoveredNext
<1>3. QED
  BY <1>1, <1>2, Invariant, PTL DEF Spec

(* Every variable of the insurance contract keeps its type: the ether that *)
(* payouts and returned bonds share never goes below zero.                 *)
THEOREM InsuranceTypes == Spec => []TypeOK
<1>1. IInv => TypeOK
  BY DEF IInv
<1>2. QED
  BY <1>1, Invariant, PTL

(* The holder or the insurer gets the collateral, once, whatever claims    *)
(* were denied, rescued or overruled before.                               *)
THEOREM OneBeneficiary == Spec => []PaidOnce
<1>1. IInv => PaidOnce
  BY DEF IInv, PolicyOK, PaidAt, PaidOnce
<1>2. QED
  BY <1>1, Invariant, PTL

(* A payout answers the policy's latest claim, though onVerdict never      *)
(* compares the two, and no earlier claim is still open to be answered.    *)
THEOREM LatestClaimPays == Spec => [](\A p \in Policies : LatestClaimOnly(p))
<1>1. IInv => \A p \in Policies : LatestClaimOnly(p)
  BY DEF IInv, PolicyOK, PaidByVerdict, ClaimOK, LatestClaimOnly
<1>2. QED
  BY <1>1, Invariant, PTL

(* A pending claim waits for its verdict, or was decided by the arbitrator *)
(* without the application being told: nothing else leaves one pending.    *)
THEOREM PendingForAReason ==
  Spec => [](\A p \in Policies : status[p] = "CLAIM_PENDING" =>
               Waiting(question[p]) \/ DecidedUnheard(question[p]))
<1>1. IInv => \A p \in Policies : status[p] = "CLAIM_PENDING" =>
                Waiting(question[p]) \/ DecidedUnheard(question[p])
  BY DEF IInv, PolicyOK, PendingOK
<1>2. QED
  BY <1>1, Invariant, PTL

(* Of those only one decided TRUE or FALSE strands the policy: a forced    *)
(* INVALID is rescued (ParametricInsurance!StrandedByForceOnly).           *)
THEOREM OnlyForceStrands == Spec => []StrandedByForceOnly
<1>1. IInv => StrandedByForceOnly
  BY DEF IInv, PolicyOK, PendingOK, StrandedByForceOnly, Stranded, CanRescue, DecidedUnheard,
         Rulings
<1>2. QED
  BY <1>1, Invariant, PTL

(* A policy's latest claim is the only one that matters, its collateral    *)
(* goes to one party once, and every open policy is covered by its own.    *)
THEOREM PolicyCorrect == Spec => []PolicyInv
<1>1. IInv /\ Collateralised => PolicyInv
  BY DEF IInv, PolicyOK, PaidAt, PaidOnce, PaidByVerdict, ClaimOK, LatestClaimOnly, PolicyInv
<1>2. QED
  BY <1>1, Invariant, AlwaysCollateralised, PTL

-----------------------------------------------------------------------------
(* The site.  A behaviour of the application is one of the contract.       *)
LEMMA AppStep == AppTypeOK /\ [AppNext]_appVars => [Next]_vars
<1> SUFFICES ASSUME AppTypeOK, [AppNext]_appVars PROVE [Next]_vars
  OBVIOUS
<1>1. /\ scope.payouts \subseteq Payouts /\ scope.asked \subseteq Ids
      /\ scope.gifts \subseteq 1..MaxDonation
  BY InsuranceAppAssumption DEF AppTypeOK
<1>2. CASE ContractStep
  BY <1>1, <1>2 DEF ContractStep, FileClaim, HearVerdict, Next
<1>3. CASE UNCHANGED vars
  BY <1>3
<1>4. QED
  BY <1>2, <1>3 DEF AppNext, Reload, appVars
-----------------------------------------------------------------------------
(* The events are a log of the columns of the rows: which of them an event *)
(* writes, and what.                                                       *)
AnEvent ==
  [kind : {"PolicyCreated", "ClaimOpened", "ClaimPaid", "ClaimRejected", "Expired"},
   policy : Policies, question : Ids \cup {NoQuestion}]

Columns == {"status", "question"}

Column(r, c) == IF c = "status" THEN r.status ELSE r.question

Writes(ev, c) == c = "status" \/ ev.kind \in {"ClaimOpened", "ClaimRejected"}

Made(ev) ==
  IF ev.kind = "PolicyCreated" THEN [NoRow EXCEPT !.status = "ACTIVE"]
  ELSE Updated(NoRow, ev)

Writing(x, c) ==
  {0} \cup {n \in 1..Len(events) : events[n].policy = x /\ Writes(events[n], c)}

Told(x, c) ==
  [n \in Nat |-> IF n = 0 THEN Column(NoRow, c) ELSE Column(Made(events[n]), c)]

(* What the contract has on record, as the row shows it.                   *)
Record(x) == Mirrored(x)

(* The handler writes these columns, in any row but none, and no others.   *)
LEMMA UpdatedColumns ==
  ASSUME NEW r \in Row, NEW ev \in AnEvent, ev.kind # "PolicyCreated", NEW c \in Columns
  PROVE  Column(Updated(r, ev), c) = IF Writes(ev, c) THEN Column(Made(ev), c) ELSE Column(r, c)
  BY DEF AnEvent, Row, NoRow, Columns, Column, Writes, Made, Updated

LEMMA UpdatedRow ==
  ASSUME NEW r \in Row, NEW ev \in AnEvent, r.status # "NONE"
  PROVE  Updated(r, ev) \in Row /\ Updated(r, ev).status # "NONE"
  BY DEF AnEvent, Row, Updated, PolicyStatus

LEMMA NoneWritten ==
  ASSUME NEW ev \in AnEvent, Writes(ev, "status")
  PROVE  Column(Made(ev), "status") # "NONE"
  BY DEF AnEvent, NoRow, Column, Made, Updated

LEMMA SameColumns ==
  ASSUME NEW r \in Row, NEW s \in Row, \A c \in Columns : Column(r, c) = Column(s, c)
  PROVE  r = s
<1>1. r.status = s.status /\ r.question = s.question
  BY DEF Columns, Column
<1>2. QED
  BY <1>1 DEF Row

(* A transaction emits the event that tells what it does, and what it does *)
(* without an event no row shows.                                          *)
Tells(ev) ==
  /\ ev \in AnEvent
  /\ ev.kind = "PolicyCreated" <=> status[ev.policy] = "NONE"
  /\ \A x \in Policies :
       /\ status'[x] = "NONE" <=> status[x] = "NONE" /\ ev.policy # x
       /\ \A c \in Columns :
            Column(Record(x), c)' =
              IF ev.policy = x /\ Writes(ev, c) THEN Column(Made(ev), c)
              ELSE Column(Record(x), c)

Quiet == UNCHANGED <<status, question>>

(* It is enough to look at the policy that the event is about.             *)
LEMMA TellsOfOne ==
  ASSUME NEW ev \in AnEvent, NEW x, ev.policy = x,
         ev.kind = "PolicyCreated" <=> status[x] = "NONE",
         status'[x] # "NONE",
         \A y \in Policies : y # x => status'[y] = status[y] /\ question'[y] = question[y],
         Record(x).status' = Made(ev).status,
         Record(x).question' =
           IF Writes(ev, "question") THEN Made(ev).question ELSE Record(x).question
  PROVE  Tells(ev)
<1>1. ASSUME NEW y \in Policies, NEW c \in Columns, y # x
      PROVE  Column(Record(y), c)' = Column(Record(y), c)
  BY <1>1 DEF Record, Mirrored, Column, Columns
<1>2. ASSUME NEW c \in Columns
      PROVE  Column(Record(x), c)' =
               IF Writes(ev, c) THEN Column(Made(ev), c) ELSE Column(Record(x), c)
  BY <1>2 DEF Column, Columns, Writes
<1>3. QED
  BY <1>1, <1>2 DEF Tells

(* What an event about one policy has to tell, by what becomes of it.      *)
LEMMA TellsOfChange ==
  ASSUME TypeOK, NEW ev \in AnEvent, NEW x \in Policies, ev.policy = x, NEW s, NEW q,
         ev.kind = "PolicyCreated" <=> status[x] = "NONE",
         status' = [status EXCEPT ![x] = s], question' = [question EXCEPT ![x] = q],
         \/ /\ ev.kind = "PolicyCreated" /\ s = "ACTIVE"
         \/ /\ ev.kind = "ClaimOpened" /\ s = "CLAIM_PENDING" /\ q = ev.question
         \/ /\ ev.kind = "ClaimPaid" /\ s = "PAID"
            /\ q = question[x] /\ status[x] = "CLAIM_PENDING"
         \/ /\ ev.kind = "ClaimRejected" /\ s = "ACTIVE"
         \/ /\ ev.kind = "Expired" /\ s = "EXPIRED" /\ status[x] = "ACTIVE"
  PROVE  Tells(ev)
<1>1. /\ status'[x] = s /\ question'[x] = q
      /\ \A y \in Policies : y # x => status'[y] = status[y] /\ question'[y] = question[y]
  BY DEF TypeOK
<1>2. /\ Record(x).status' = s
      /\ Record(x).question' = IF s \in {"CLAIM_PENDING", "PAID"} THEN q ELSE NoQuestion
      /\ Record(x).question =
           IF status[x] \in {"CLAIM_PENDING", "PAID"} THEN question[x] ELSE NoQuestion
  BY <1>1 DEF Record, Mirrored
<1>3. s # "NONE"
  OBVIOUS
<1>4. Made(ev).status = s
  BY DEF Made, Updated, NoRow
<1>5. CASE ev.kind \in {"ClaimOpened", "ClaimRejected"}
  <2>1. Writes(ev, "question") /\ Made(ev).question = Record(x).question'
    BY <1>2, <1>5 DEF Writes, Made, Updated, NoRow
  <2>2. QED
    BY <1>1, <1>2, <1>3, <1>4, <2>1, TellsOfOne
<1>6. CASE ev.kind \notin {"ClaimOpened", "ClaimRejected"}
  <2>1. ~Writes(ev, "question") /\ Record(x).question' = Record(x).question
    BY <1>2, <1>6 DEF Writes
  <2>2. QED
    BY <1>1, <1>2, <1>3, <1>4, <2>1, TellsOfOne
<1>7. QED
  BY <1>5, <1>6

LEMMA VerdictTells ==
  ASSUME IInv, NEW i \in Ids, NEW o \in Rulings, Verdict(i, o),
         status[link[i]] = "CLAIM_PENDING"
  PROVE  Tells(Event(IF o = "TRUE" THEN "ClaimPaid" ELSE "ClaimRejected", link[i]))
<1>1. TypeOK /\ Settle(link[i], i, o) /\ question' = question
  BY DEF IInv, Verdict
<1>2. link[i] \in Policies
  BY <1>1, VerdictType DEF IInv, ClaimOK, Verdict, TypeOK
<1>3. PICK x \in Policies : x = link[i]
  BY <1>2
<1>4. PICK kind : kind = IF o = "TRUE" THEN "ClaimPaid" ELSE "ClaimRejected"
  OBVIOUS
<1>5. PICK s : s = IF o = "TRUE" THEN "PAID" ELSE "ACTIVE"
  OBVIOUS
<1>6. status' = [status EXCEPT ![x] = s]
  <2>1. CASE o = "TRUE"
    BY <1>1, <1>3, <1>5, <2>1 DEF Settle, Become
  <2>2. CASE o # "TRUE"
    BY <1>1, <1>3, <1>5, <2>2 DEF Settle, Become
  <2>3. QED
    BY <2>1, <2>2
<1>7. PICK ev \in AnEvent : ev = Event(kind, x)
  <2>1. kind \in {"ClaimPaid", "ClaimRejected"}
    BY <1>4
  <2>2. QED
    BY <2>1 DEF AnEvent, Event
<1>8. ev.kind = kind /\ ev.policy = x
  BY <1>7 DEF Event
<1>9. question' = [question EXCEPT ![x] = question[x]]
  BY <1>1 DEF TypeOK
<1>10. Tells(ev)
  BY <1>1, <1>3, <1>4, <1>5, <1>6, <1>8, <1>9, TellsOfChange
<1>11. QED
  BY <1>3, <1>4, <1>7, <1>10

LEMMA ContractTells ==
  ASSUME IInv, AppTypeOK, ContractStep
  PROVE  (Quiet /\ EmitNothing) \/ \E ev : Tells(ev) /\ Log(ev)
<1>1. TypeOK /\ scope.asked \subseteq Ids
  BY InsuranceAppAssumption DEF IInv, AppTypeOK
<1>2. \A x \in Policies : question = [question EXCEPT ![x] = question[x]]
  BY <1>1 DEF TypeOK
<1>3. ASSUME NEW x \in Policies, NEW a, NEW when, Underwrite(x, a, when)
      PROVE  Tells(Event("PolicyCreated", x))
  <2>1. PICK ev \in AnEvent : ev = Event("PolicyCreated", x)
    BY DEF AnEvent, Event
  <2>2. ev.kind = "PolicyCreated" /\ ev.policy = x
    BY <2>1 DEF Event
  <2>3. /\ status[x] = "NONE" /\ status' = [status EXCEPT ![x] = "ACTIVE"]
        /\ question' = [question EXCEPT ![x] = question[x]]
    BY <1>2, <1>3 DEF Underwrite, Become
  <2>4. QED
    BY <1>1, <2>1, <2>2, <2>3, TellsOfChange
<1>4. ASSUME NEW x \in Policies, Reclaim(x) PROVE Tells(Event("Expired", x))
  <2>1. PICK ev \in AnEvent : ev = Event("Expired", x)
    BY DEF AnEvent, Event
  <2>2. ev.kind = "Expired" /\ ev.policy = x
    BY <2>1 DEF Event
  <2>3. /\ status[x] = "ACTIVE" /\ status' = [status EXCEPT ![x] = "EXPIRED"]
        /\ question' = [question EXCEPT ![x] = question[x]]
    BY <1>2, <1>4 DEF Reclaim, CanReclaim, Become
  <2>4. QED
    BY <1>1, <2>1, <2>2, <2>3, TellsOfChange
<1>5. ASSUME NEW x \in Policies, RescueInvalidClaim(x) PROVE Tells(Event("ClaimRejected", x))
  <2>1. PICK ev \in AnEvent : ev = Event("ClaimRejected", x)
    BY DEF AnEvent, Event
  <2>2. ev.kind = "ClaimRejected" /\ ev.policy = x
    BY <2>1 DEF Event
  <2>3. /\ status[x] = "CLAIM_PENDING" /\ status' = [status EXCEPT ![x] = "ACTIVE"]
        /\ question' = [question EXCEPT ![x] = question[x]]
    BY <1>2, <1>5 DEF RescueInvalidClaim, CanRescue, Become
  <2>4. QED
    BY <1>1, <2>1, <2>2, <2>3, TellsOfChange
<1>6. ASSUME NEW x \in Policies, NEW i \in Ids, Claim(x, i)
      PROVE  Tells([Event("ClaimOpened", x) EXCEPT !.question = i])
  <2>1. PICK ev \in AnEvent : ev = [Event("ClaimOpened", x) EXCEPT !.question = i]
    BY DEF AnEvent, Event
  <2>2. ev.kind = "ClaimOpened" /\ ev.policy = x /\ ev.question = i
    BY <2>1 DEF Event
  <2>3. /\ status[x] = "ACTIVE" /\ status' = [status EXCEPT ![x] = "CLAIM_PENDING"]
        /\ question' = [question EXCEPT ![x] = i]
    BY <1>6 DEF Claim, CanClaim, Become
  <2>4. QED
    BY <1>1, <2>1, <2>2, <2>3, TellsOfChange
<1>7. ASSUME NEW x \in Policies, Elapse(x) PROVE Quiet
  BY <1>7 DEF Elapse, Quiet
<1>8. ASSUME (\E i \in Ids : Overruled(i)) \/ \E x \in scope.gifts : Receive(x)
      PROVE  Quiet
  BY <1>8 DEF Overruled, Receive, Quiet
<1>9. ASSUME NEW i \in Ids, NEW o \in Rulings, HearVerdict(i, o)
      PROVE  (Quiet /\ EmitNothing) \/ \E ev : Tells(ev) /\ Log(ev)
  <2>1. CASE status[link[i]] # "CLAIM_PENDING"
    BY <1>9, <2>1 DEF HearVerdict, Verdict, Settle, Quiet
  <2>2. CASE status[link[i]] = "CLAIM_PENDING"
    BY <1>9, <2>2, VerdictTells DEF HearVerdict
  <2>3. QED
    BY <2>1, <2>2
<1>10. QED
  BY <1>1, <1>3, <1>4, <1>5, <1>6, <1>7, <1>8, <1>9 DEF ContractStep, FileClaim
-----------------------------------------------------------------------------
(* The events of one policy begin with its creation, which is not repeated. *)
Creation(x, n) == events[n].policy = x /\ events[n].kind = "PolicyCreated"

Founded(x) ==
  /\ status[x] = "NONE" => \A n \in 1..Len(events) : events[n].policy # x
  /\ status[x] # "NONE" => \E n \in 1..Len(events) : Creation(x, n)
  /\ \A n \in 1..Len(events) : events[n].policy = x =>
       \/ Creation(x, n) /\ \A m \in 1..(n - 1) : events[m].policy # x
       \/ ~Creation(x, n) /\ \E m \in 1..(n - 1) : Creation(x, m)

(* The events tell everything that the contract has on record.             *)
Recorded(x) ==
  \A c \in Columns : Shows(Writing(x, c), Told(x, c), Len(events), Column(Record(x), c))

(* Each column of the row is what k events made of it, or more than k.     *)
Behind(x, k) ==
  \A c \in Columns : \E j \in k..Len(events) :
    Shows(Writing(x, c), Told(x, c), j, Column(row[x], c))

Followed(x) ==
  /\ Behind(x, checkpoint)
  /\ \A p \in Passes : Running(p) => checkpoint <= pass[p].at /\ Behind(x, pass[p].at)

(* Passes that do not overlap: there is one at most.                       *)
OnePass == \A p, q \in Passes : Running(p) /\ Running(q) => p = q

AppIInv ==
  /\ IInv /\ Collateralised /\ AppTypeOK
  /\ events \in Seq(AnEvent)
  /\ \A x \in Policies : row[x].status = "NONE" => row[x] = NoRow
  /\ \A x \in scope.followed : Founded(x) /\ Recorded(x)
  /\ ~straggled => OnePass /\ \A x \in scope.followed : Followed(x)

LEMMA LogGrows ==
  ASSUME events \in Seq(AnEvent), NEW ev \in AnEvent, events' = Append(events, ev)
  PROVE  /\ events' \in Seq(AnEvent)
         /\ Len(events) \in Nat /\ Len(events') = Len(events) + 1
         /\ \A n \in 1..Len(events) : events'[n] = events[n]
         /\ events'[Len(events) + 1] = ev
  OBVIOUS

LEMMA WritingType ==
  ASSUME NEW x, NEW c, Len(events) \in Nat
  PROVE  Writing(x, c) \in SUBSET Nat
  BY DEF Writing

LEMMA WritingGrows ==
  ASSUME events \in Seq(AnEvent), NEW ev \in AnEvent, events' = Append(events, ev), NEW x, NEW c
  PROVE  /\ Writing(x, c) \in SUBSET Nat /\ Writing(x, c)' \in SUBSET Nat
         /\ \A n \in Nat : n <= Len(events) =>
              (n \in Writing(x, c)' <=> n \in Writing(x, c)) /\ Told(x, c)'[n] = Told(x, c)[n]
         /\ Len(events') \in Writing(x, c)' <=> ev.policy = x /\ Writes(ev, c)
         /\ Told(x, c)'[Len(events')] = Column(Made(ev), c)
<1>1. /\ Len(events) \in Nat /\ Len(events') = Len(events) + 1
      /\ \A n \in 1..Len(events) : events'[n] = events[n]
      /\ events'[Len(events')] = ev
  BY LogGrows
<1>2. Writing(x, c) \in SUBSET Nat /\ Writing(x, c)' \in SUBSET Nat
  BY <1>1 DEF Writing
<1>3. ASSUME NEW n \in Nat, n <= Len(events)
      PROVE  (n \in Writing(x, c)' <=> n \in Writing(x, c)) /\ Told(x, c)'[n] = Told(x, c)[n]
  <2>1. CASE n = 0
    BY <2>1 DEF Writing, Told
  <2>2. CASE n # 0
    <3>1. n \in 1..Len(events) /\ n \in 1..Len(events') /\ events'[n] = events[n]
      BY <1>1, <1>3, <2>2
    <3>2. QED
      BY <2>2, <3>1 DEF Writing, Told
  <2>3. QED
    BY <2>1, <2>2
<1>4. Len(events') # 0 /\ Len(events') \in 1..Len(events')
  BY <1>1
<1>5. QED
  BY <1>1, <1>2, <1>3, <1>4 DEF Writing, Told

(* What was shown is still shown.                                          *)
LEMMA StillShown ==
  ASSUME events \in Seq(AnEvent), NEW ev \in AnEvent, events' = Append(events, ev),
         NEW x, NEW c, NEW j \in 0..Len(events), NEW v, Shows(Writing(x, c), Told(x, c), j, v)
  PROVE  Shows(Writing(x, c), Told(x, c), j, v)'
<1>1. /\ Writing(x, c) \in SUBSET Nat /\ Writing(x, c)' \in SUBSET Nat
      /\ \A n \in Nat : n <= j =>
           (n \in Writing(x, c)' <=> n \in Writing(x, c)) /\ Told(x, c)'[n] = Told(x, c)[n]
  BY WritingGrows, LogGrows
<1>2. Shows(Writing(x, c)', Told(x, c)', j, v)
  BY <1>1, ShowsGrown
<1>3. QED
  BY <1>2
LEMMA RecordedNext ==
  ASSUME events \in Seq(AnEvent), NEW ev \in AnEvent, events' = Append(events, ev),
         Tells(ev), NEW x \in Policies, Recorded(x)
  PROVE  Recorded(x)'
<1> SUFFICES ASSUME NEW c \in Columns
             PROVE  Shows(Writing(x, c), Told(x, c), Len(events), Column(Record(x), c))'
  BY DEF Recorded
<1>1. /\ Writing(x, c) \in SUBSET Nat /\ Writing(x, c)' \in SUBSET Nat
      /\ Len(events) \in Nat /\ Len(events') = Len(events) + 1
      /\ Len(events') \in Writing(x, c)' <=> ev.policy = x /\ Writes(ev, c)
      /\ Told(x, c)'[Len(events')] = Column(Made(ev), c)
  BY WritingGrows, LogGrows
<1>2. Column(Record(x), c)' =
        IF ev.policy = x /\ Writes(ev, c) THEN Column(Made(ev), c) ELSE Column(Record(x), c)
  BY DEF Tells
<1>3. CASE ev.policy = x /\ Writes(ev, c)
  BY <1>1, <1>2, <1>3, ShowsWritten
<1>4. CASE ~(ev.policy = x /\ Writes(ev, c))
  <2>1. Shows(Writing(x, c), Told(x, c), Len(events), Column(Record(x), c))
    BY DEF Recorded
  <2>2. PICK v : v = Column(Record(x), c)
    OBVIOUS
  <2>3. Shows(Writing(x, c), Told(x, c), Len(events), v)'
    <3>1. PICK j : j = Len(events)
      OBVIOUS
    <3>2. j \in 0..Len(events) /\ Shows(Writing(x, c), Told(x, c), j, v)
      BY <1>1, <2>1, <2>2, <3>1
    <3>3. Shows(Writing(x, c), Told(x, c), j, v)'
      BY <3>2, StillShown
    <3>4. Shows(Writing(x, c)', Told(x, c)', j + 1, v)
      BY <1>1, <1>4, <3>1, <3>3, ShowsStill
    <3>5. QED
      BY <1>1, <3>1, <3>4
  <2>4. QED
    BY <1>2, <1>4, <2>2, <2>3
<1>5. QED
  BY <1>3, <1>4

LEMMA FoundedNext ==
  ASSUME events \in Seq(AnEvent), NEW ev \in AnEvent, events' = Append(events, ev),
         Tells(ev), NEW x \in Policies, Founded(x)
  PROVE  Founded(x)'
<1>1. /\ Len(events) \in Nat /\ Len(events') = Len(events) + 1
      /\ \A n \in 1..Len(events) : events'[n] = events[n]
      /\ events'[Len(events')] = ev
  BY LogGrows
<1>2. /\ \A n \in 1..Len(events') : n \in 1..Len(events) \/ n = Len(events')
      /\ \A n \in 1..Len(events) : n \in 1..Len(events')
      /\ Len(events') \in 1..Len(events')
  BY <1>1
<1>3. /\ \A n \in 1..Len(events) : Creation(x, n)' <=> Creation(x, n)
      /\ \A n \in 1..Len(events') : n = Len(events') =>
           (Creation(x, n)' <=> ev.policy = x /\ ev.kind = "PolicyCreated")
  BY <1>1 DEF Creation
<1>4. /\ status'[x] = "NONE" => \A n \in 1..Len(events') : events'[n].policy # x
      /\ status'[x] # "NONE" => \E n \in 1..Len(events') : Creation(x, n)'
  <2>1. CASE status'[x] = "NONE"
    BY <1>1, <1>2, <2>1 DEF Tells, Founded
  <2>2. CASE status'[x] # "NONE" /\ status[x] # "NONE"
    <3>1. PICK n \in 1..Len(events) : Creation(x, n)
      BY <2>2 DEF Founded
    <3>2. QED
      BY <1>2, <1>3, <2>2, <3>1
  <2>3. CASE status'[x] # "NONE" /\ status[x] = "NONE"
    <3>1. ev.policy = x /\ ev.kind = "PolicyCreated"
      BY <2>3 DEF Tells
    <3>2. PICK n \in 1..Len(events') : n = Len(events')
      BY <1>2
    <3>3. Creation(x, n)'
      BY <1>3, <3>1, <3>2
    <3>4. QED
      BY <2>3, <3>3
  <2>4. QED
    BY <2>1, <2>2, <2>3
<1>5. ASSUME NEW n \in 1..Len(events'), events'[n].policy = x
      PROVE  \/ Creation(x, n)' /\ \A m \in 1..(n - 1) : events'[m].policy # x
             \/ ~Creation(x, n)' /\ \E m \in 1..(n - 1) : Creation(x, m)'
  <2>1. 1..(n - 1) \subseteq 1..Len(events)
    BY <1>1
  <2>2. \A m \in 1..(n - 1) : events'[m] = events[m] /\ (Creation(x, m)' <=> Creation(x, m))
    BY <1>1, <1>3, <2>1
  <2>3. CASE n \in 1..Len(events)
    <3>1. events[n].policy = x /\ (Creation(x, n)' <=> Creation(x, n))
      BY <1>1, <1>3, <1>5, <2>3
    <3>2. \/ Creation(x, n) /\ \A m \in 1..(n - 1) : events[m].policy # x
          \/ ~Creation(x, n) /\ \E m \in 1..(n - 1) : Creation(x, m)
      BY <2>3, <3>1 DEF Founded
    <3>3. QED
      BY <2>2, <3>1, <3>2
  <2>4. CASE n = Len(events')
    <3>1. ev.policy = x /\ n - 1 = Len(events)
      BY <1>1, <1>5, <2>4
    <3>2. CASE status[x] = "NONE"
      BY <1>3, <2>2, <2>4, <3>1, <3>2 DEF Tells, Founded
    <3>3. CASE status[x] # "NONE"
      <4>1. PICK m \in 1..Len(events) : Creation(x, m)
        BY <3>3 DEF Founded
      <4>2. ~Creation(x, n)'
        BY <1>3, <2>4, <3>1, <3>3 DEF Tells
      <4>3. m \in 1..(n - 1) /\ Creation(x, m)'
        BY <2>2, <3>1, <4>1
      <4>4. QED
        BY <4>2, <4>3
    <3>4. QED
      BY <3>2, <3>3
  <2>5. QED
    BY <1>1, <2>3, <2>4
<1>6. QED
  BY <1>4, <1>5 DEF Founded

LEMMA BehindGrows ==
  ASSUME events \in Seq(AnEvent), NEW ev \in AnEvent, events' = Append(events, ev),
         NEW x \in Policies, row' = row, NEW k \in Nat, Behind(x, k)
  PROVE  Behind(x, k)'
<1> SUFFICES ASSUME NEW c \in Columns
             PROVE  \E j \in k..Len(events') :
                      Shows(Writing(x, c), Told(x, c), j, Column(row[x], c))'
  BY DEF Behind
<1>1. PICK j \in k..Len(events) : Shows(Writing(x, c), Told(x, c), j, Column(row[x], c))
  BY DEF Behind
<1>2. PICK v : v = Column(row[x], c)
  OBVIOUS
<1>3. j \in 0..Len(events) /\ j \in k..Len(events')
  BY LogGrows
<1>4. Shows(Writing(x, c), Told(x, c), j, v)'
  BY <1>1, <1>2, <1>3, StillShown
<1>5. QED
  BY <1>2, <1>3, <1>4-----------------------------------------------------------------------------
(* The indexer keeps its types, whatever it does.                          *)
LEMMA PassType ==
  ASSUME IndexerTypeOK, NEW p \in Passes
  PROVE  /\ pass[p] \in [at : Nat, to : 0..Len(events)]
         /\ pass[p].at <= pass[p].to
  BY DEF IndexerTypeOK

LEMMA IndexerTypes ==
  ASSUME IndexerTypeOK, events \in Seq(AnEvent),
         \/ EmitNothing \/ Housekeeping
         \/ \E ev \in AnEvent : Emit(ev)
         \/ \E p \in Passes : HandleNext(p)
  PROVE  IndexerTypeOK'
<1>1. Len(events) \in Nat /\ 0 \in 0..Len(events) /\ MaxFaults \in Nat
  BY IndexerAssumption
<1>2. CASE EmitNothing
  BY <1>2 DEF EmitNothing, indexerVars, IndexerTypeOK
<1>3. ASSUME NEW ev \in AnEvent, Emit(ev) PROVE IndexerTypeOK'
  <2>1. 0..Len(events) \subseteq 0..Len(events')
    BY <1>3, LogGrows DEF Emit
  <2>2. QED
    BY <1>3, <2>1 DEF Emit, IndexerTypeOK
<1>4. ASSUME NEW p \in Passes, HandleNext(p) PROVE IndexerTypeOK'
  <2>1. pass[p].at + 1 \in Nat /\ pass[p].at + 1 <= pass[p].to
    BY <1>1, <1>4, PassType DEF HandleNext, Pending
  <2>2. QED
    BY <1>4, <2>1 DEF HandleNext, IndexerTypeOK
<1>5. ASSUME NEW p \in Passes, StartPass(p) PROVE IndexerTypeOK'
  <2>1. [at |-> checkpoint, to |-> Len(events)] \in [at : Nat, to : 0..Len(events)]
    BY <1>1 DEF IndexerTypeOK
  <2>2. QED
    BY <1>1, <1>5, <2>1 DEF StartPass, IndexerTypeOK
<1>6. NoPass \in [at : Nat, to : 0..Len(events)] /\ NoPass.at <= NoPass.to
  BY <1>1 DEF NoPass
<1>7. ASSUME NEW p \in Passes, SaveCheckpoint(p) PROVE IndexerTypeOK'
  BY <1>6, <1>7 DEF SaveCheckpoint, End, IndexerTypeOK
<1>8. ASSUME NEW p \in Passes, Throw(p) PROVE IndexerTypeOK'
  BY <1>1, <1>6, <1>8 DEF Throw, Fault, IndexerTypeOK
<1>9. CASE NeighbourThrows
  BY <1>1, <1>9 DEF NeighbourThrows, Fault, IndexerTypeOK
<1>10. CASE Restart
  BY <1>1, <1>6, <1>10 DEF Restart, Stop, Fault, IndexerTypeOK
<1>11. QED
  BY <1>2, <1>3, <1>4, <1>5, <1>7, <1>8, <1>9, <1>10 DEF Housekeeping
(* What is not told of a policy, and no event is of it, changes nothing.  *)
LEMMA RecordedStill ==
  ASSUME UNCHANGED events, NEW x, Recorded(x), Founded(x),
         status'[x] = "NONE" <=> status[x] = "NONE",
         \A c \in Columns : Column(Record(x), c)' = Column(Record(x), c)
  PROVE  Recorded(x)' /\ Founded(x)'
<1>1. ASSUME NEW c \in Columns
      PROVE  Shows(Writing(x, c), Told(x, c), Len(events), Column(Record(x), c))'
  <2>1. Shows(Writing(x, c), Told(x, c), Len(events), Column(Record(x), c))
    BY DEF Recorded
  <2>2. Writing(x, c)' = Writing(x, c) /\ Told(x, c)' = Told(x, c)
    BY DEF Writing, Told
  <2>3. QED
    BY <2>1, <2>2
<1>2. QED
  BY <1>1 DEF Recorded, Founded, Creation

LEMMA BehindStill ==
  ASSUME UNCHANGED events, NEW x, NEW k, row'[x] = row[x], Behind(x, k)
  PROVE  Behind(x, k)'
<1>1. \A c : Writing(x, c)' = Writing(x, c) /\ Told(x, c)' = Told(x, c)
  BY DEF Writing, Told
<1>2. QED
  BY <1>1 DEF Behind

LEMMA FollowedNext ==
  ASSUME AppIInv, ~straggled, NEW x \in scope.followed, row' = row,
         UNCHANGED <<checkpoint, pass>>,
         UNCHANGED events \/ \E ev \in AnEvent : events' = Append(events, ev)
  PROVE  Followed(x)'
<1>1. x \in Policies /\ Followed(x) /\ events \in Seq(AnEvent)
  BY InsuranceAppAssumption DEF AppIInv, AppTypeOK
<1>2. checkpoint \in Nat /\ \A p \in Passes : pass[p].at \in Nat
  BY <1>1 DEF AppIInv, AppTypeOK, IndexerTypeOK
<1>3. ASSUME NEW k \in Nat, Behind(x, k) PROVE Behind(x, k)'
  BY <1>1, <1>3, BehindGrows, BehindStill
<1>4. Behind(x, checkpoint)'
  <2>1. PICK k \in Nat : k = checkpoint /\ k = checkpoint'
    BY <1>2
  <2>2. Behind(x, k)'
    BY <1>1, <1>3, <2>1 DEF Followed
  <2>3. QED
    BY <2>1, <2>2 DEF Behind
<1>5. ASSUME NEW p \in Passes, Running(p)'
      PROVE  (checkpoint <= pass[p].at /\ Behind(x, pass[p].at))'
  <2>1. PICK k \in Nat : k = pass[p].at /\ k = pass'[p].at
    BY <1>2
  <2>2. Running(p) /\ checkpoint <= k /\ Behind(x, k)
    BY <1>1, <1>5, <2>1 DEF Followed, Running
  <2>3. Behind(x, k)'
    BY <1>3, <2>2
  <2>4. QED
    BY <2>1, <2>2, <2>3 DEF Behind
<1>6. QED
  BY <1>4, <1>5 DEF Followed

LEMMA ContractKeeps ==
  ASSUME AppIInv, ContractStep, UNCHANGED <<row, scope>>
  PROVE  AppIInv'
<1>1. IInv /\ Collateralised /\ AppTypeOK /\ events \in Seq(AnEvent)
  BY DEF AppIInv
<1>2. IInv' /\ Collateralised'
  BY <1>1, AppStep, NextOK, CoveredNext DEF AppNext
<1>3. \/ Quiet /\ EmitNothing
      \/ \E ev : Tells(ev) /\ Log(ev)
  BY <1>1, ContractTells
<1>4. /\ UNCHANGED <<checkpoint, pass, awaited, straggled, faults>>
      /\ EmitNothing \/ \E ev \in AnEvent : Emit(ev)
  BY <1>3 DEF EmitNothing, indexerVars, Log, Emit, Tells
<1>5. UNCHANGED events \/ \E ev \in AnEvent : events' = Append(events, ev)
  BY <1>4 DEF EmitNothing, indexerVars, Emit
<1>6. AppTypeOK'
  <2>1. filed' \subseteq scope.followed
    BY <1>1 DEF ContractStep, FileClaim, AppTypeOK
  <2>2. QED
    BY <1>1, <1>4, <2>1, IndexerTypes DEF AppTypeOK
<1>7. events' \in Seq(AnEvent)
  BY <1>1, <1>5
<1>8. ASSUME NEW x \in scope.followed PROVE Founded(x)' /\ Recorded(x)'
  <2>1. x \in Policies /\ Founded(x) /\ Recorded(x)
    BY InsuranceAppAssumption DEF AppIInv, AppTypeOK
  <2>2. CASE Quiet /\ EmitNothing
    <3>1. UNCHANGED <<events, status, question>>
      BY <2>2 DEF Quiet, EmitNothing, indexerVars
    <3>2. \A c \in Columns : Column(Record(x), c)' = Column(Record(x), c)
      BY <3>1 DEF Column, Record, Mirrored
    <3>3. QED
      BY <2>1, <3>1, <3>2, RecordedStill
  <2>3. ASSUME NEW ev, Tells(ev), Log(ev) PROVE Founded(x)' /\ Recorded(x)'
    <3>1. CASE ev.policy \in scope.followed
      BY <1>1, <2>1, <2>3, <3>1, RecordedNext, FoundedNext DEF Log, Emit, Tells
    <3>2. CASE ev.policy \notin scope.followed
      <4>1. UNCHANGED events /\ ev.policy # x
        BY <2>3, <3>2 DEF Log, EmitNothing, indexerVars
      <4>2. /\ status'[x] = "NONE" <=> status[x] = "NONE"
            /\ \A c \in Columns : Column(Record(x), c)' = Column(Record(x), c)
        BY <2>1, <2>3, <4>1 DEF Tells
      <4>3. QED
        BY <2>1, <4>1, <4>2, RecordedStill
    <3>3. QED
      BY <3>1, <3>2
  <2>4. QED
    BY <1>3, <2>2, <2>3
<1>9. ~straggled' => OnePass' /\ \A x \in scope.followed : Followed(x)'
  BY <1>4, <1>5, FollowedNext DEF AppIInv, OnePass, Running
<1>10. QED
  BY <1>2, <1>6, <1>7, <1>8, <1>9 DEF AppIInv

-----------------------------------------------------------------------------
(* The handler is given the events of a pass in order.                     *)
LEMMA HandledRow ==
  ASSUME NEW r \in Row, r.status = "NONE" => r = NoRow, NEW ev \in AnEvent
  PROVE  /\ Handled(r, ev) \in Row
         /\ Handled(r, ev).status = "NONE" => Handled(r, ev) = NoRow
<1>1. CASE r # NoRow
  BY <1>1, UpdatedRow DEF Handled
<1>2. CASE r = NoRow
  BY <1>2 DEF Handled, NoRow, Row, PolicyStatus
<1>3. QED
  BY <1>1, <1>2

LEMMA HandledColumns ==
  ASSUME NEW r \in Row, NEW ev \in AnEvent, r = NoRow <=> ev.kind = "PolicyCreated",
         NEW c \in Columns
  PROVE  Column(Handled(r, ev), c) = IF Writes(ev, c) THEN Column(Made(ev), c) ELSE Column(r, c)
<1>1. CASE r # NoRow
  BY <1>1, UpdatedColumns DEF Handled
<1>2. CASE r = NoRow
  BY <1>2 DEF Handled, Writes, Made, NoRow, Column, Columns
<1>3. QED
  BY <1>1, <1>2

(* The row of a created policy shows no more than an absent one before the *)
(* creation, and never again after it.                                     *)
LEMMA NothingBefore ==
  ASSUME NEW x, NEW j \in Nat, Len(events) \in Nat, j <= Len(events),
         \A m \in 1..j : events[m].policy # x,
         NEW v, NEW c, Shows(Writing(x, c), Told(x, c), j, v)
  PROVE  v = Column(NoRow, c)
<1>1. PICK n \in Writing(x, c) : n <= j /\ v = Told(x, c)[n]
  BY DEF Shows
<1>2. n = 0
  BY <1>1 DEF Writing
<1>3. QED
  BY <1>1, <1>2 DEF Told

LEMMA SomethingAfter ==
  ASSUME events \in Seq(AnEvent), NEW x, NEW m \in 1..Len(events), Creation(x, m),
         NEW j \in m..Len(events), NEW v, Shows(Writing(x, "status"), Told(x, "status"), j, v)
  PROVE  v # "NONE"
<1>1. Len(events) \in Nat /\ \A n \in 1..Len(events) : events[n] \in AnEvent
  OBVIOUS
<1>2. m \in Writing(x, "status") /\ m \in Nat /\ j \in Nat /\ m <= j
  BY <1>1 DEF Creation, Writing, Writes
<1>3. PICK n \in Writing(x, "status") : m <= n /\ n <= j /\ v = Told(x, "status")[n]
  BY <1>1, <1>2, WritingType, ShowsLater
<1>4. n \in Nat /\ n # 0 /\ n \in 1..Len(events) /\ Writes(events[n], "status")
  BY <1>1, <1>2, <1>3 DEF Writing
<1>5. v = Column(Made(events[n]), "status")
  BY <1>3, <1>4 DEF Told
<1>6. QED
  BY <1>1, <1>4, <1>5, NoneWritten
(* The row of the policy that the event is about: it exists, unless it is  *)
(* about to, or was made by a handler further on.                          *)
LEMMA RowExists ==
  ASSUME AppIInv, NEW x \in scope.followed, NEW k \in Nat, k + 1 \in 1..Len(events),
         events[k + 1].policy = x, Behind(x, k)
  PROVE  /\ ~Creation(x, k + 1) => row[x] # NoRow
         /\ Creation(x, k + 1) /\ row[x] # NoRow => Behind(x, k + 1)
<1>1. /\ x \in Policies /\ Founded(x) /\ events \in Seq(AnEvent) /\ row[x] \in Row
      /\ row[x].status = "NONE" => row[x] = NoRow
      /\ Len(events) \in Nat /\ k < Len(events)
  BY InsuranceAppAssumption DEF AppIInv, AppTypeOK
<1>2. PICK j \in k..Len(events) : Shows(Writing(x, "status"), Told(x, "status"), j, row[x].status)
  BY DEF Behind, Columns, Column
<1>3. ASSUME ~Creation(x, k + 1) PROVE row[x] # NoRow
  <2>1. PICK m \in 1..k : Creation(x, m)
    BY <1>1, <1>3 DEF Founded
  <2>2. m \in 1..Len(events) /\ j \in m..Len(events)
    BY <1>1, <1>2, <2>1
  <2>3. PICK v : v = row[x].status
    OBVIOUS
  <2>4. v # "NONE"
    BY <1>1, <1>2, <2>1, <2>2, <2>3, SomethingAfter
  <2>5. QED
    BY <2>3, <2>4 DEF NoRow
<1>4. ASSUME Creation(x, k + 1), row[x] # NoRow, NEW c \in Columns
      PROVE  \E n \in (k + 1)..Len(events) :
               Shows(Writing(x, c), Told(x, c), n, Column(row[x], c))
  <2>1. \A m \in 1..k : events[m].policy # x
    BY <1>1, <1>4 DEF Founded
  <2>2. PICK n \in k..Len(events) : Shows(Writing(x, c), Told(x, c), n, Column(row[x], c))
    BY <1>4 DEF Behind
  <2>3. CASE n # k
    BY <1>1, <2>2, <2>3
  <2>4. CASE n = k
    <3>1. PICK v : v = Column(row[x], c)
      OBVIOUS
    <3>2. v = Column(NoRow, c)
      BY <1>1, <2>1, <2>2, <2>4, <3>1, NothingBefore
    <3>3. c # "status"
      BY <1>1, <1>4, <3>1, <3>2 DEF Column, NoRow
    <3>4. k + 1 \notin Writing(x, c)
      BY <1>4, <3>3 DEF Writing, Writes, Creation
    <3>5. Shows(Writing(x, c), Told(x, c), k + 1, v)
      BY <1>1, <2>2, <2>4, <3>1, <3>4, WritingType, ShowsStill
    <3>6. QED
      BY <1>1, <3>1, <3>5
  <2>5. QED
    BY <2>3, <2>4
<1>5. QED
  BY <1>3, <1>4 DEF Behind

(* An event that leaves a column alone, in a row that it leaves alone.     *)
LEMMA BehindPast ==
  ASSUME NEW x, NEW c, NEW k \in Nat, Len(events) \in Nat, k + 1 \in 1..Len(events),
         k + 1 \notin Writing(x, c), NEW v,
         \E j \in k..Len(events) : Shows(Writing(x, c), Told(x, c), j, v)
  PROVE  \E j \in (k + 1)..Len(events) : Shows(Writing(x, c), Told(x, c), j, v)
<1>1. PICK j \in k..Len(events) : Shows(Writing(x, c), Told(x, c), j, v)
  OBVIOUS
<1>2. CASE j = k
  BY <1>1, <1>2, WritingType, ShowsStill
<1>3. CASE j # k
  BY <1>1, <1>3
<1>4. QED
  BY <1>2, <1>3

LEMMA HandleBehind ==
  ASSUME AppIInv, NEW x \in scope.followed, NEW k \in Nat, k + 1 \in 1..Len(events),
         NEW ev, ev = events[k + 1], Behind(x, k),
         UNCHANGED events, row' = [row EXCEPT ![ev.policy] = Handled(row[ev.policy], ev)]
  PROVE  Behind(x, k + 1)'
<1>1. /\ x \in Policies /\ Founded(x) /\ events \in Seq(AnEvent) /\ row \in [Policies -> Row]
      /\ Len(events) \in Nat /\ ev \in AnEvent /\ ev.policy \in Policies
  <2>1. /\ x \in Policies /\ Founded(x) /\ events \in Seq(AnEvent)
        /\ row \in [Policies -> Row]
    BY InsuranceAppAssumption DEF AppIInv, AppTypeOK
  <2>2. ev \in AnEvent /\ Len(events) \in Nat
    BY <2>1
  <2>3. QED
    BY <2>1, <2>2 DEF AnEvent
<1>2. CASE ev.policy # x
  <2>1. row'[x] = row[x] /\ \A c : k + 1 \notin Writing(x, c)
    BY <1>1, <1>2 DEF Writing
  <2>2. Behind(x, k + 1)
    BY <1>1, <2>1, BehindPast DEF Behind
  <2>3. QED
    BY <2>1, <2>2, BehindStill
<1>3. CASE ev.policy = x /\ (row[x] = NoRow <=> ev.kind = "PolicyCreated")
  <2>1. row'[x] = Handled(row[x], ev)
    BY <1>1, <1>3
  <2>2. ASSUME NEW c \in Columns
        PROVE  \E j \in (k + 1)..Len(events) :
                 Shows(Writing(x, c), Told(x, c), j, Column(row'[x], c))
    <3>1. Column(row'[x], c) =
            IF Writes(ev, c) THEN Column(Made(ev), c) ELSE Column(row[x], c)
      BY <1>1, <1>3, <2>1, HandledColumns
    <3>2. CASE Writes(ev, c)
      <4>1. k + 1 \in Writing(x, c) /\ Told(x, c)[k + 1] = Column(Made(ev), c)
        BY <1>3, <3>2 DEF Writing, Told
      <4>2. PICK n \in Nat : n = k + 1
        OBVIOUS
      <4>3. Shows(Writing(x, c), Told(x, c), n, Told(x, c)[n])
        BY <4>1, <4>2, ShowsWritten
      <4>4. n \in (k + 1)..Len(events)
        BY <1>1, <4>2
      <4>5. QED
        BY <3>1, <3>2, <4>1, <4>2, <4>3, <4>4
    <3>3. CASE ~Writes(ev, c)
      <4>1. k + 1 \notin Writing(x, c)
        BY <3>3 DEF Writing
      <4>2. PICK v : v = Column(row[x], c) /\ v = Column(row'[x], c)
        BY <3>1, <3>3
      <4>3. \E j \in k..Len(events) : Shows(Writing(x, c), Told(x, c), j, v)
        BY <4>2 DEF Behind
      <4>4. \E j \in (k + 1)..Len(events) : Shows(Writing(x, c), Told(x, c), j, v)
        BY <1>1, <4>1, <4>3, BehindPast
      <4>5. QED
        BY <4>2, <4>4
    <3>4. QED
      BY <3>2, <3>3
  <2>3. \A c : Writing(x, c)' = Writing(x, c) /\ Told(x, c)' = Told(x, c)
    BY DEF Writing, Told
  <2>4. QED
    BY <2>2, <2>3 DEF Behind
<1>4. CASE ev.policy = x /\ ~(row[x] = NoRow <=> ev.kind = "PolicyCreated")
  <2>1. row[x] # NoRow /\ ev.kind = "PolicyCreated" /\ Behind(x, k + 1)
    BY <1>4, RowExists DEF Creation
  <2>2. row'[x] = row[x]
    BY <1>1, <1>4, <2>1 DEF Handled, Updated
  <2>3. QED
    BY <2>1, <2>2, BehindStill
<1>5. QED
  BY <1>2, <1>3, <1>4
LEMMA HandleKeeps ==
  ASSUME AppIInv, NEW p \in Passes, HandlePolicyEvent(p), UNCHANGED <<vars, filed, scope>>
  PROVE  AppIInv'
<1>1. /\ IInv /\ Collateralised /\ AppTypeOK /\ IndexerTypeOK /\ events \in Seq(AnEvent)
      /\ row \in [Policies -> Row]
  BY DEF AppIInv, AppTypeOK
<1>2. IInv' /\ Collateralised'
  BY <1>1, NextOK, CoveredNext
<1>3. /\ HandleNext(p)
      /\ UNCHANGED <<events, checkpoint, awaited, straggled, faults>>
      /\ pass' = [pass EXCEPT ![p].at = pass[p].at + 1]
      /\ pass[p].at < pass[p].to
  BY DEF HandlePolicyEvent, HandleNext, Pending
<1>4. PICK k : k = pass[p].at
  OBVIOUS
<1>5. k \in Nat /\ k + 1 \in 1..Len(events) /\ Len(events) \in Nat
  BY <1>1, <1>3, <1>4, PassType
<1>6. PICK ev : ev = events[k + 1]
  OBVIOUS
<1>7. ev \in AnEvent /\ ev.policy \in Policies
  <2>1. ev \in AnEvent
    BY <1>1, <1>5, <1>6
  <2>2. QED
    BY <2>1 DEF AnEvent
<1>8. row' = [row EXCEPT ![ev.policy] = Handled(row[ev.policy], ev)]
  BY <1>4, <1>6 DEF HandlePolicyEvent, Upcoming
<1>9. /\ row' \in [Policies -> Row]
      /\ \A x \in Policies : row'[x].status = "NONE" => row'[x] = NoRow
  <2>1. /\ Handled(row[ev.policy], ev) \in Row
        /\ Handled(row[ev.policy], ev).status = "NONE" => Handled(row[ev.policy], ev) = NoRow
    BY <1>1, <1>7, HandledRow DEF AppIInv
  <2>2. QED
    BY <1>1, <1>7, <1>8, <2>1 DEF AppIInv
<1>10. AppTypeOK'
  BY <1>1, <1>3, <1>9, IndexerTypes DEF AppTypeOK
<1>11. ASSUME NEW x \in scope.followed PROVE Founded(x)' /\ Recorded(x)'
  <2>1. Founded(x) /\ Recorded(x)
    BY DEF AppIInv
  <2>2. UNCHANGED <<events, status, question>>
    BY <1>3 DEF vars, policyVars
  <2>3. \A c \in Columns : Column(Record(x), c)' = Column(Record(x), c)
    BY <2>2 DEF Column, Record, Mirrored
  <2>4. QED
    BY <2>1, <2>2, <2>3, RecordedStill
<1>12. ASSUME ~straggled' PROVE OnePass' /\ \A x \in scope.followed : Followed(x)'
  <2>1. ~straggled /\ OnePass
    BY <1>3, <1>12 DEF AppIInv
  <2>2. Running(p) /\ \A q \in Passes : Running(q)' => q = p
    BY <1>1, <1>3, <2>1 DEF Running, NoPass, OnePass, IndexerTypeOK
  <2>3. ASSUME NEW x \in scope.followed PROVE Followed(x)'
    <3>1. x \in Policies /\ Followed(x)
      BY <1>1, <2>1, InsuranceAppAssumption DEF AppIInv, AppTypeOK
    <3>2. checkpoint \in Nat /\ checkpoint <= k /\ Behind(x, k)
      BY <1>1, <1>4, <2>2, <3>1 DEF Followed, IndexerTypeOK
    <3>3. Behind(x, k + 1)'
      BY <1>3, <1>5, <1>6, <1>8, <3>2, HandleBehind
    <3>4. checkpoint' = checkpoint /\ pass'[p].at = k + 1
      BY <1>1, <1>3, <1>4 DEF IndexerTypeOK
    <3>5. ASSUME NEW c \in Columns
          PROVE  /\ \E j \in checkpoint'..Len(events') :
                      Shows(Writing(x, c), Told(x, c), j, Column(row[x], c))'
                 /\ \E j \in pass'[p].at..Len(events') :
                      Shows(Writing(x, c), Told(x, c), j, Column(row[x], c))'
      <4>1. PICK j \in (k + 1)..Len(events') :
                   Shows(Writing(x, c), Told(x, c), j, Column(row[x], c))'
        BY <3>3 DEF Behind
      <4>2. j \in checkpoint'..Len(events') /\ j \in pass'[p].at..Len(events')
        BY <1>3, <1>5, <3>2, <3>4
      <4>3. QED
        BY <4>1, <4>2
    <3>6. Behind(x, checkpoint)' /\ Behind(x, pass[p].at)'
      BY <3>5 DEF Behind
    <3>7. checkpoint' <= pass'[p].at
      BY <1>5, <3>2, <3>4
    <3>8. QED
      BY <2>2, <3>6, <3>7 DEF Followed
  <2>4. QED
    BY <2>2, <2>3 DEF OnePass
<1>13. events' \in Seq(AnEvent) /\ scope' = scope
  BY <1>1, <1>3
<1>14. QED
  BY <1>2, <1>9, <1>10, <1>11, <1>12, <1>13 DEF AppIInv
(* The indexer reads the chain, and two passes stay on record.             *)
LEMMA HousekeepingFrame ==
  ASSUME Housekeeping
  PROVE  UNCHANGED events /\ (~straggled' => ~straggled)
<1>1. ASSUME NEW p \in Passes, StartPass(p)
      PROVE  UNCHANGED events /\ (~straggled' => ~straggled)
  <2>1. straggled' = (straggled \/ \E q \in Passes : Running(q)) /\ UNCHANGED events
    BY <1>1 DEF StartPass
  <2>2. QED
    BY <2>1
<1>2. ASSUME NEW p \in Passes, SaveCheckpoint(p) \/ Throw(p)
      PROVE  UNCHANGED <<events, straggled>>
  BY <1>2 DEF SaveCheckpoint, Throw, Fault
<1>3. CASE NeighbourThrows \/ Restart
  BY <1>3 DEF NeighbourThrows, Restart, Stop, Fault
<1>4. QED
  BY <1>1, <1>2, <1>3 DEF Housekeeping

(* A pass begins where the checkpoint is, and the checkpoint moves to      *)
(* where a pass has come.                                                  *)
LEMMA PassesKeep ==
  ASSUME AppIInv, Housekeeping, ~straggled', NEW x \in scope.followed, row' = row
  PROVE  OnePass' /\ Followed(x)'
<1>1. AppTypeOK /\ IndexerTypeOK /\ x \in Policies
  BY InsuranceAppAssumption DEF AppIInv, AppTypeOK
<1>2. ~straggled /\ OnePass /\ Followed(x) /\ UNCHANGED events
  BY HousekeepingFrame DEF AppIInv
<1>3. ASSUME NEW k, Behind(x, k) PROVE Behind(x, k)'
  BY <1>2, <1>3, BehindStill
<1>4. ASSUME NEW k, Behind(x, k), checkpoint' = k PROVE Behind(x, checkpoint)'
  BY <1>3, <1>4 DEF Behind
<1>5. ASSUME NEW p \in Passes, NEW k, Behind(x, k), pass'[p].at = k
      PROVE  Behind(x, pass[p].at)'
  BY <1>3, <1>5 DEF Behind
<1>6. ASSUME checkpoint' = checkpoint,
             \A p \in Passes : Running(p)' => Running(p) /\ pass'[p] = pass[p]
      PROVE  OnePass' /\ Followed(x)'
  <2>1. Behind(x, checkpoint)'
    BY <1>2, <1>4, <1>6 DEF Followed
  <2>2. ASSUME NEW p \in Passes, Running(p)'
        PROVE  (checkpoint <= pass[p].at /\ Behind(x, pass[p].at))'
    <3>1. checkpoint <= pass[p].at /\ Behind(x, pass[p].at) /\ pass'[p] = pass[p]
      BY <1>2, <1>6, <2>2 DEF Followed
    <3>2. QED
      BY <1>5, <1>6, <3>1
  <2>3. QED
    BY <1>2, <1>6, <2>1, <2>2 DEF OnePass, Followed
<1>7. ASSUME NEW p \in Passes, StartPass(p) PROVE OnePass' /\ Followed(x)'
  <2>1. /\ \A q \in Passes : ~Running(q)
        /\ pass' = [pass EXCEPT ![p] = [at |-> checkpoint, to |-> Len(events)]]
        /\ checkpoint' = checkpoint
    BY <1>7 DEF StartPass
  <2>2. pass'[p].at = checkpoint /\ \A q \in Passes : Running(q)' => q = p
    BY <1>1, <2>1 DEF Running, IndexerTypeOK
  <2>3. Behind(x, checkpoint)' /\ Behind(x, pass[p].at)'
    BY <1>2, <1>4, <1>5, <2>1, <2>2 DEF Followed
  <2>4. checkpoint' <= pass'[p].at
    BY <1>1, <2>1, <2>2 DEF IndexerTypeOK
  <2>5. QED
    BY <2>2, <2>3, <2>4 DEF OnePass, Followed
<1>8. ASSUME NEW p \in Passes, SaveCheckpoint(p) PROVE OnePass' /\ Followed(x)'
  <2>1. /\ Running(p) /\ ~(pass[p].at < pass[p].to) /\ checkpoint' = pass[p].to
        /\ pass' = [pass EXCEPT ![p] = NoPass]
    BY <1>8 DEF SaveCheckpoint, End, Pending
  <2>2. checkpoint' = pass[p].at
    BY <1>1, <2>1, PassType
  <2>3. \A q \in Passes : ~Running(q)'
    BY <1>1, <1>2, <2>1 DEF Running, OnePass, IndexerTypeOK
  <2>4. Behind(x, checkpoint)'
    BY <1>2, <1>4, <2>1, <2>2 DEF Followed
  <2>5. QED
    BY <2>3, <2>4 DEF OnePass, Followed
<1>9. ASSUME NEW p \in Passes, Throw(p) PROVE OnePass' /\ Followed(x)'
  BY <1>1, <1>6, <1>9 DEF Throw, Fault, Running, IndexerTypeOK
<1>10. CASE NeighbourThrows
  BY <1>6, <1>10 DEF NeighbourThrows, Fault, Running
<1>11. CASE Restart
  BY <1>6, <1>11 DEF Restart, Stop, Fault, Running
<1>12. QED
  BY <1>7, <1>8, <1>9, <1>10, <1>11 DEF Housekeeping

LEMMA OnePassKept ==
  ASSUME AppIInv, Housekeeping, ~straggled'
  PROVE  OnePass'
<1>1. IndexerTypeOK /\ ~straggled /\ OnePass
  BY HousekeepingFrame DEF AppIInv, AppTypeOK
<1>2. ASSUME NEW p \in Passes, StartPass(p) PROVE OnePass'
  BY <1>1, <1>2 DEF StartPass, Running, OnePass, IndexerTypeOK
<1>3. ASSUME NEW p \in Passes, SaveCheckpoint(p) \/ Throw(p) PROVE OnePass'
  BY <1>1, <1>3 DEF SaveCheckpoint, End, Throw, Running, OnePass, IndexerTypeOK
<1>4. CASE NeighbourThrows \/ Restart
  BY <1>1, <1>4 DEF NeighbourThrows, Restart, Stop, Running, OnePass
<1>5. QED
  BY <1>2, <1>3, <1>4 DEF Housekeeping

LEMMA HousekeepingKeeps ==
  ASSUME AppIInv, Housekeeping, UNCHANGED <<row, vars, filed, scope>>
  PROVE  AppIInv'
<1>1. /\ IInv /\ Collateralised /\ AppTypeOK /\ IndexerTypeOK /\ events \in Seq(AnEvent)
  BY DEF AppIInv, AppTypeOK
<1>2. IInv' /\ Collateralised'
  BY <1>1, NextOK, CoveredNext
<1>3. AppTypeOK'
  BY <1>1, IndexerTypes DEF AppTypeOK
<1>4. UNCHANGED events
  BY HousekeepingFrame
<1>5. ASSUME NEW x \in scope.followed PROVE Founded(x)' /\ Recorded(x)'
  <2>1. Founded(x) /\ Recorded(x)
    BY DEF AppIInv
  <2>2. UNCHANGED <<events, status, question>>
    BY <1>4 DEF vars, policyVars
  <2>3. \A c \in Columns : Column(Record(x), c)' = Column(Record(x), c)
    BY <2>2 DEF Column, Record, Mirrored
  <2>4. QED
    BY <2>1, <2>2, <2>3, RecordedStill
<1>6. QED
  BY <1>1, <1>2, <1>3, <1>4, <1>5, PassesKeep, OnePassKept DEF AppIInv

LEMMA AppInitOK == AppInit => AppIInv
<1> SUFFICES ASSUME AppInit PROVE AppIInv
  OBVIOUS
<1>1. Init /\ events = <<>> /\ scope \in Scopes /\ row = [x \in Policies |-> NoRow]
  BY DEF AppInit, IndexerInit
<1>2. IInv /\ Collateralised
  BY <1>1, InitOK, InitCovered
<1>3. Len(events) = 0 /\ events \in Seq(AnEvent)
  BY <1>1
<1>4. AppTypeOK
  <2>1. NoRow \in Row
    BY DEF NoRow, Row, PolicyStatus
  <2>2. IndexerTypeOK
    <3>1. 0 \in 0..Len(events) /\ 0 \in 0..MaxFaults
      BY <1>3, IndexerAssumption
    <3>2. NoPass \in [at : Nat, to : 0..Len(events)] /\ NoPass.at <= NoPass.to
      BY <3>1 DEF NoPass
    <3>3. QED
      BY <3>1, <3>2 DEF AppInit, IndexerInit, IndexerTypeOK
  <2>3. filed = {}
    BY DEF AppInit
  <2>4. QED
    BY <1>1, <2>1, <2>2, <2>3 DEF AppTypeOK
<1>5. ASSUME NEW x \in scope.followed
      PROVE  /\ Founded(x) /\ Recorded(x) /\ Behind(x, checkpoint)
             /\ \A p \in Passes : ~Running(p)
  <2>1. x \in Policies
    BY <1>1, InsuranceAppAssumption
  <2>2. Record(x) = NoRow /\ row[x] = NoRow
    BY <1>1, <2>1 DEF Init, Record, Mirrored, NoRow
  <2>3. checkpoint = 0 /\ \A p \in Passes : ~Running(p)
    BY DEF AppInit, IndexerInit, Running
  <2>4. ASSUME NEW c \in Columns PROVE Shows(Writing(x, c), Told(x, c), 0, Column(NoRow, c))
    <3>1. 0 \in Writing(x, c) /\ Told(x, c)[0] = Column(NoRow, c)
      BY DEF Writing, Told
    <3>2. QED
      BY <3>1, ShowsWritten
  <2>5. Founded(x)
    BY <1>1, <1>3, <2>1 DEF Init, Founded
  <2>6. QED
    BY <1>3, <2>2, <2>3, <2>4, <2>5 DEF Recorded, Behind
<1>6. QED
  BY <1>1, <1>2, <1>3, <1>4, <1>5 DEF AppIInv, Followed, OnePass, NoRow, AppInit, IndexerInit,
                                      Running
LEMMA FiledStill ==
  ASSUME AppIInv, UNCHANGED <<vars, indexerVars, row, scope>>, filed' \subseteq filed
  PROVE  AppIInv'
<1>1. UNCHANGED <<vars, row, scope>> /\ EmitNothing
  BY DEF EmitNothing
<1>2. IInv' /\ Collateralised' /\ AppTypeOK'
  BY <1>1, NextOK, CoveredNext, IndexerTypes DEF AppIInv, AppTypeOK
<1>3. UNCHANGED <<events, checkpoint, pass, straggled, status, question>>
  BY <1>1 DEF EmitNothing, indexerVars, vars, policyVars
<1>4. ASSUME NEW x \in scope.followed PROVE Founded(x)' /\ Recorded(x)'
  <2>1. \A c \in Columns : Column(Record(x), c)' = Column(Record(x), c)
    BY <1>3 DEF Column, Record, Mirrored
  <2>2. QED
    BY <1>3, <2>1, RecordedStill DEF AppIInv
<1>5. ~straggled' => OnePass' /\ \A x \in scope.followed : Followed(x)'
  BY <1>1, <1>3, FollowedNext DEF AppIInv, OnePass, Running
<1>6. QED
  BY <1>1, <1>2, <1>3, <1>4, <1>5 DEF AppIInv

LEMMA AppNextOK == AppIInv /\ [AppNext]_appVars => AppIInv'
<1> SUFFICES ASSUME AppIInv, [AppNext]_appVars PROVE AppIInv'
  OBVIOUS
<1>1. CASE ContractStep /\ UNCHANGED <<row, scope>>
  BY <1>1, ContractKeeps
<1>2. CASE IndexerStep /\ UNCHANGED <<vars, filed, scope>>
  BY <1>2, HandleKeeps, HousekeepingKeeps DEF IndexerStep
<1>3. CASE (\E x \in Policies : Reload(x)) \/ UNCHANGED appVars
  BY <1>3, FiledStill DEF Reload, appVars
<1>4. QED
  BY <1>1, <1>2, <1>3 DEF AppNext

LEMMA AppInvariant == AppSpec => []AppIInv
<1>1. AppInit => AppIInv
  BY AppInitOK
<1>2. AppIInv /\ [AppNext]_appVars => AppIInv'
  BY AppNextOK
<1>3. QED
  BY <1>1, <1>2, PTL DEF AppSpec

(* At rest the row is what the contract has on record.                     *)
LEMMA RestMirrors ==
  ASSUME AppIInv, AtRest, ~straggled, NEW x \in scope.followed
  PROVE  row[x] = Record(x)
<1>1. /\ x \in Policies /\ TypeOK /\ row[x] \in Row /\ Recorded(x)
      /\ Followed(x) /\ checkpoint = Len(events) /\ Len(events) \in Nat
  BY InsuranceAppAssumption DEF AppIInv, AppTypeOK, IInv, AtRest
<1>2. ASSUME NEW c \in Columns PROVE Column(row[x], c) = Column(Record(x), c)
  <2>1. PICK j \in Len(events)..Len(events) :
               Shows(Writing(x, c), Told(x, c), j, Column(row[x], c))
    BY <1>1 DEF Followed, Behind
  <2>2. j = Len(events) /\ Writing(x, c) \in SUBSET Nat
    BY <1>1, WritingType
  <2>3. Shows(Writing(x, c), Told(x, c), j, Column(Record(x), c))
    BY <1>1, <2>2 DEF Recorded
  <2>4. QED
    BY <1>1, <2>1, <2>2, <2>3, ShowsOne
<1>3. Record(x) \in Row
  BY <1>1 DEF Record, Mirrored, Row, TypeOK
<1>4. QED
  BY <1>1, <1>2, <1>3, SameColumns

LEMMA RestIsRight ==
  ASSUME AppIInv, AtRest, ~straggled, NEW x \in scope.followed, Unhindered(x), NEW party, NEW b
  PROVE  /\ Offers(party, x, b) /\ b # "rescue" => Takes(party, x, b)
         /\ Takes(party, x, b) => Offers(party, x, b) \/ (b = "claim" /\ x \in filed)
<1>1. x \in Policies /\ TypeOK /\ Collateralised
  BY InsuranceAppAssumption DEF AppIInv, AppTypeOK, IInv
<1>2. row[x].status = status[x]
  <2>1. row[x] = Record(x)
    BY RestMirrors
  <2>2. QED
    BY <2>1 DEF Record, Mirrored
<1>3. status[x] = "ACTIVE" => payout[x] <= held
  <2> DEFINE f == [y \in Policies |-> Collateral(y)]
  <2>1. f[x] = Collateral(x) /\ \A y \in Policies : f[y] \in Nat
    BY <1>1, CollateralNat
  <2>2. held = Spare + SumFunctionOnSet(f, Policies)
    BY <1>1 DEF Collateralised, Spare
  <2> HIDE DEF f
  <2>3. f[x] <= SumFunctionOnSet(f, Policies) /\ SumFunctionOnSet(f, Policies) \in Nat
    BY <1>1, <2>1, SumBounds, SumNat, InsuranceAssumption
  <2>4. Spare \in Nat
    BY <1>1, SpareNat
  <2>5. Collateral(x) <= held
    BY <1>1, <2>1, <2>2, <2>3, <2>4, CollateralNat
  <2>6. QED
    BY <2>5 DEF Collateral
<1>4. status[x] = "ACTIVE" => CanSend(x, "insurer", held)
  BY <1>3 DEF Unhindered, CanSend
<1>5. \E i \in Ids : Oracle!CanAsk(i)
  BY DEF Unhindered, Oracle!CanAsk
<1>6. QED
  BY <1>2, <1>4, <1>5 DEF Offers, Takes, Shown, CanClaim, CanRescue, CanReclaim

(* Once every event was handled, whatever was redelivered after throws and *)
(* restarts, the policies table shows every policy with the claim it waits *)
(* for or was paid on, and the page offers what the contract takes; unless *)
(* a straggling pass wrote over a later one.                               *)
THEOREM InsuranceSite == AppSpec => []SiteAgrees
<1>1. AppIInv => SiteAgrees
  <2> SUFFICES ASSUME AppIInv PROVE SiteAgrees
    OBVIOUS
  <2>1. MirrorAgrees
    BY RestMirrors DEF AppIInv, MirrorAgrees, Record
  <2>2. PageIsRight
    BY RestIsRight DEF PageIsRight
  <2>3. QED
    BY <2>1, <2>2 DEF SiteAgrees
<1>2. QED
  BY <1>1, AppInvariant, PTL

(* The application's contract is the one that the theorems above are       *)
(* about: with its indexer and its page, it does nothing else.             *)
THEOREM InsuranceUnderSite == AppSpec => Spec
<1>1. AppInit => Init
  BY DEF AppInit
<1>2. AppIInv /\ [AppNext]_appVars => [Next]_vars
  BY AppStep DEF AppIInv
<1>3. QED
  BY <1>1, <1>2, AppInvariant, PTL DEF AppSpec, Spec
=============================================================================
