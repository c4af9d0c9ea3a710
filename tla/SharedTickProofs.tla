--------------------------- MODULE SharedTickProofs ---------------------------
(***************************************************************************)
(* Theorems of SharedTick: both contracts behave, under the one tick of    *)
(* the indexer, as they do alone, what they promise holds of every         *)
(* behaviour, for any grants, milestones, amounts, hashes and questions,   *)
(* and the tables and the pages made of them agree with them.              *)
(***************************************************************************)
EXTENDS SharedTick, Sums, TLAPS

(* What is assumed of the constants, in this module's own terms.           *)
LEMMA Constants ==
  /\ Bond \in Nat
  /\ Vault!NoQuestion \notin Ids /\ Certifier!NoQuestion \notin Ids
  /\ IsFiniteSet(Grants) /\ IsFiniteSet(Slots)
  /\ Amounts \subseteq Nat \ {0}
  /\ MaxChecks \in Nat /\ Certifier!NoHash \notin Hashes
  BY SharedTickAssumption
     DEF Vault!ConsumerAssumption, Certifier!ConsumerAssumption,
         Vault!VaultAppAssumption, Vault!VaultAssumption, Vault!IsFiniteSet, IsFiniteSet,
         Certifier!CertifierAppAssumption, Certifier!CertifierAssumption
-----------------------------------------------------------------------------
(* The grants.                                                             *)

(* What an application has heard of a question: nothing before it is       *)
(* answered.                                                               *)
GrantSilent(i) == vAnswer[i] \in {"UNASKED", "WAITING"} => vHeard[i] = <<>>

(* Asking, answering and overriding keep the types of the oracle.          *)
LEMMA GrantAskType ==
  ASSUME Vault!Oracle!TypeOK, NEW i \in Ids, Vault!Oracle!Ask(i, Bond)
  PROVE  Vault!Oracle!TypeOK'
  BY Constants DEF Vault!Oracle!TypeOK, Vault!Oracle!Ask, Vault!Oracle!CanAsk

LEMMA GrantDecideType ==
  ASSUME Vault!Oracle!TypeOK, NEW i \in Ids, NEW o \in Vault!Rulings, NEW back,
         Vault!Oracle!Decide(i, o, back)
  PROVE  /\ vAnswer' \in [Ids -> Vault!Rulings \cup {"UNASKED", "WAITING"}]
         /\ vStake' \in [Ids -> Nat]
         /\ back \in Nat
         /\ vRepaid' \in [Ids -> Nat]
<1>1. back \in Nat
  <2>1. vStake[i] \in Nat /\ back \in {0, vStake[i], 2 * vStake[i]}
    BY DEF Vault!Oracle!TypeOK, Vault!Oracle!Decide, Vault!Oracle!Returns
  <2>2. QED
    BY <2>1
<1>2. QED
  BY <1>1
     DEF Vault!Oracle!TypeOK, Vault!Oracle!Decide, Vault!Oracle!Rulings, Vault!Rulings

LEMMA GrantVerdictType ==
  ASSUME Vault!Oracle!TypeOK, NEW i \in Ids, NEW o \in Vault!Rulings, Vault!OnVerdict(i, o)
  PROVE  /\ Vault!Oracle!TypeOK'
         /\ Vault!Waiting(i)
         /\ vAnswer' = [vAnswer EXCEPT ![i] = o]
         /\ vHeard' = [vHeard EXCEPT ![i] = Append(vHeard[i], o)]
         /\ \E back \in Nat : vRepaid' = [vRepaid EXCEPT ![i] = back]
         /\ vLink' = vLink
<1>1. PICK back \in Vault!Oracle!Returns(i) : Vault!Oracle!Answer(i, o, back)
  BY DEF Vault!OnVerdict
<1>2. Vault!Oracle!Decide(i, o, back) /\ vHeard' = [vHeard EXCEPT ![i] = Append(@, o)]
  BY <1>1 DEF Vault!Oracle!Answer
<1>3. vHeard' \in [Ids -> Seq(Vault!Rulings)]
  BY <1>2 DEF Vault!Oracle!TypeOK, Vault!Oracle!Rulings, Vault!Rulings
<1>4. QED
  BY <1>2, <1>3, GrantDecideType
     DEF Vault!Oracle!TypeOK, Vault!Oracle!Decide, Vault!OnVerdict, Vault!Waiting,
         Vault!Oracle!Rulings, Vault!Rulings

LEMMA GrantOverruledType ==
  ASSUME Vault!Oracle!TypeOK, NEW i \in Ids, Vault!ForceResolve(i)
  PROVE  /\ Vault!Oracle!TypeOK'
         /\ Vault!Waiting(i)
         /\ \E o \in Vault!Rulings : vAnswer' = [vAnswer EXCEPT ![i] = o]
         /\ \E back \in Nat : vRepaid' = [vRepaid EXCEPT ![i] = back]
         /\ vHeard' = vHeard /\ vLink' = vLink
<1>1. PICK o \in Vault!Rulings, back \in Vault!Oracle!Returns(i) : Vault!Oracle!Override(i, o, back)
  BY DEF Vault!ForceResolve
<1>2. Vault!Oracle!Decide(i, o, back) /\ vHeard' = vHeard
  BY <1>1 DEF Vault!Oracle!Override
<1>3. QED
  BY <1>2, GrantDecideType
     DEF Vault!Oracle!TypeOK, Vault!Oracle!Decide, Vault!ForceResolve, Vault!Waiting,
         Vault!Oracle!Rulings, Vault!Rulings
(* What of the types the argument needs; no amount is among them.          *)
GrantTyped ==
  /\ Vault!Oracle!TypeOK
  /\ vLink \in [Ids -> (Grants \X Slots) \cup {NoLink}]
  /\ vStatus \in [Grants -> [Slots -> Vault!MilestoneStatus]]
  /\ vQuestion \in [Grants -> [Slots -> Ids \cup {Vault!NoQuestion}]]

ReleasedByVerdict(g, m) ==
  vStatus[g][m] = "RELEASED" =>
    vQuestion[g][m] \in Ids /\ vHeard[vQuestion[g][m]] = <<"TRUE">>

(* A submission waits for its verdict, or was decided by the arbitrator    *)
(* without the vault being told.                                           *)
SubmittedForAReason(g, m) ==
  vStatus[g][m] = "SUBMITTED" =>
    Vault!Waiting(vQuestion[g][m]) \/ Vault!DecidedUnheard(vQuestion[g][m])

SubmittedOK(g, m) ==
  vStatus[g][m] = "SUBMITTED" =>
    /\ vQuestion[g][m] \in Ids /\ vLink[vQuestion[g][m]] = <<g, m>>
    /\ Vault!Waiting(vQuestion[g][m]) \/ Vault!DecidedUnheard(vQuestion[g][m])

MilestoneOK(g, m) == ReleasedByVerdict(g, m) /\ SubmittedOK(g, m)

(* Milestone m of grant g waits for the answer to question i.              *)
Awaits(g, m, i) ==
  vLink[i] = <<g, m>> /\ vStatus[g][m] = "SUBMITTED" /\ vQuestion[g][m] = i

(* A question that may still be answered is awaited by its milestone.      *)
SubmissionOK(i) ==
  /\ GrantSilent(i)
  /\ Vault!Waiting(i) => \E g \in Grants, m \in Slots : Awaits(g, m, i)

(* The inductive invariant.                                                *)
GrantIInv ==
  /\ GrantTyped
  /\ \A g \in Grants, m \in Slots : MilestoneOK(g, m)
  /\ \A i \in Ids : SubmissionOK(i)
-----------------------------------------------------------------------------
LEMMA NotSilent == <<"TRUE">> # <<>>
  OBVIOUS

LEMMA GrantInitOK == Vault!Init => GrantIInv
<1> SUFFICES ASSUME Vault!Init PROVE GrantIInv
  OBVIOUS
<1>1. GrantTyped
  BY DEF Vault!Init, Vault!ConsumerInit, Vault!Oracle!Init, GrantTyped,
         Vault!Oracle!TypeOK, Vault!MilestoneStatus
<1>2. ASSUME NEW g \in Grants, NEW m \in Slots PROVE MilestoneOK(g, m)
  BY DEF Vault!Init, MilestoneOK, ReleasedByVerdict, SubmittedOK
<1>3. ASSUME NEW i \in Ids PROVE SubmissionOK(i)
  BY DEF Vault!Init, Vault!ConsumerInit, Vault!Oracle!Init, SubmissionOK, GrantSilent,
         Vault!Waiting
<1>4. QED
  BY <1>1, <1>2, <1>3 DEF GrantIInv

(* Grants are created and reclaimed, and expire, beside their milestones:  *)
(* the invariant says nothing of what those steps change.                  *)
LEMMA GrantAsideOK ==
  ASSUME GrantIInv, UNCHANGED <<Vault!consumerVars, vStatus, vQuestion>>
  PROVE  GrantIInv'
<1>1. GrantTyped'
  BY DEF GrantIInv, GrantTyped, Vault!Oracle!TypeOK, Vault!consumerVars
<1>2. ASSUME NEW g \in Grants, NEW m \in Slots PROVE MilestoneOK(g, m)'
  BY DEF GrantIInv, MilestoneOK, ReleasedByVerdict, SubmittedOK, Vault!Waiting,
         Vault!DecidedUnheard, Vault!consumerVars
<1>3. ASSUME NEW i \in Ids PROVE SubmissionOK(i)'
  BY DEF GrantIInv, SubmissionOK, GrantSilent, Vault!Waiting, Awaits, Vault!consumerVars
<1>4. QED
  BY <1>1, <1>2, <1>3 DEF GrantIInv
-----------------------------------------------------------------------------
LEMMA GrantSubmitOK ==
  ASSUME GrantIInv, NEW g \in Grants, NEW m \in Slots, NEW i \in Ids, Vault!SubmitMilestone(g, m, i)
  PROVE  GrantIInv'
<1>1. GrantTyped /\ i # Vault!NoQuestion
  BY Constants DEF GrantIInv
<1>2. /\ vStatus[g][m] \in {"PENDING", "REJECTED"}
      /\ vStatus' = [vStatus EXCEPT ![g][m] = "SUBMITTED"]
      /\ vAnswer[i] = "UNASKED" /\ vAnswer' = [vAnswer EXCEPT ![i] = "WAITING"]
      /\ vHeard' = vHeard /\ vLink' = [vLink EXCEPT ![i] = <<g, m>>]
      /\ vQuestion' = [vQuestion EXCEPT ![g][m] = i]
  BY DEF Vault!SubmitMilestone, Vault!CanSubmit, Vault!CreateAssertionFor, Vault!Oracle!Ask,
         Vault!Oracle!CanAsk
<1>3. GrantTyped'
  <2>1. Vault!Oracle!TypeOK'
    BY <1>1, GrantAskType DEF Vault!SubmitMilestone, Vault!CanSubmit, Vault!CreateAssertionFor,
                              GrantTyped
  <2>2. <<g, m>> \in Grants \X Slots
    OBVIOUS
  <2>3. vLink' \in [Ids -> (Grants \X Slots) \cup {NoLink}]
    BY <1>1, <1>2, <2>2 DEF GrantTyped
  <2>4. QED
    BY <1>1, <1>2, <2>1, <2>3 DEF GrantTyped, Vault!MilestoneStatus
<1>4. vStatus'[g][m] = "SUBMITTED" /\ vQuestion'[g][m] = i
      /\ vAnswer'[i] = "WAITING" /\ vLink'[i] = <<g, m>>
  BY <1>1, <1>2 DEF GrantTyped, Vault!Oracle!TypeOK
<1>5. ASSUME NEW h \in Grants, NEW n \in Slots PROVE MilestoneOK(h, n)'
  <2>1. CASE h = g /\ n = m
    BY <1>4, <2>1 DEF MilestoneOK, ReleasedByVerdict, SubmittedOK, Vault!Waiting
  <2>2. CASE ~(h = g /\ n = m)
    <3>1. MilestoneOK(h, n) /\ vStatus'[h][n] = vStatus[h][n] /\ vQuestion'[h][n] = vQuestion[h][n]
      BY <1>1, <1>2, <2>2 DEF GrantIInv, GrantTyped
    <3>2. ReleasedByVerdict(h, n)'
      BY <1>2, <3>1 DEF MilestoneOK, ReleasedByVerdict
    <3>3. vStatus[h][n] = "SUBMITTED" => vQuestion[h][n] # i
      BY <1>2, <3>1
         DEF MilestoneOK, SubmittedOK, Vault!Waiting, Vault!DecidedUnheard, Vault!Rulings
    <3>4. SubmittedOK(h, n)'
      BY <1>1, <1>2, <3>1, <3>3
         DEF MilestoneOK, SubmittedOK, Vault!Waiting, Vault!DecidedUnheard, GrantTyped,
             Vault!Oracle!TypeOK
    <3>5. QED
      BY <3>2, <3>4 DEF MilestoneOK
  <2>3. QED
    BY <2>1, <2>2
<1>6. ASSUME NEW j \in Ids PROVE SubmissionOK(j)'
  <2>1. CASE j = i
    <3>1. vHeard'[i] = <<>>
      BY <1>2 DEF GrantIInv, SubmissionOK, GrantSilent
    <3>2. Awaits(g, m, i)'
      BY <1>4 DEF Awaits
    <3>3. QED
      BY <2>1, <3>1, <3>2 DEF SubmissionOK, GrantSilent
  <2>2. CASE j # i
    <3>1. SubmissionOK(j) /\ vAnswer'[j] = vAnswer[j] /\ vLink'[j] = vLink[j] /\ vHeard'[j] = vHeard[j]
      BY <1>1, <1>2, <2>2 DEF GrantIInv, GrantTyped, Vault!Oracle!TypeOK
    <3>2. ASSUME NEW h \in Grants, NEW n \in Slots, Awaits(h, n, j) PROVE Awaits(h, n, j)'
      <4>1. ~(h = g /\ n = m)
        BY <1>2, <3>2 DEF Awaits
      <4>2. vStatus'[h][n] = vStatus[h][n] /\ vQuestion'[h][n] = vQuestion[h][n]
        BY <1>1, <1>2, <4>1 DEF GrantTyped
      <4>3. QED
        BY <3>1, <3>2, <4>2 DEF Awaits
    <3>3. QED
      BY <3>1, <3>2 DEF SubmissionOK, GrantSilent, Vault!Waiting
  <2>3. QED
    BY <2>1, <2>2
<1>7. QED
  BY <1>3, <1>5, <1>6 DEF GrantIInv

(* A forced resolution decides the submission and leaves it submitted.     *)
LEMMA GrantOverruledOK ==
  ASSUME GrantIInv, NEW i \in Ids, Vault!Overruled(i)
  PROVE  GrantIInv'
<1>1. GrantTyped /\ Vault!Oracle!TypeOK /\ UNCHANGED Vault!grantVars
  BY DEF GrantIInv, GrantTyped, Vault!Overruled
<1>2. Vault!Oracle!TypeOK' /\ Vault!Waiting(i) /\ vHeard' = vHeard /\ vLink' = vLink
  BY <1>1, GrantOverruledType DEF Vault!Overruled
<1>3. PICK o \in Vault!Rulings : vAnswer' = [vAnswer EXCEPT ![i] = o]
  BY <1>1, GrantOverruledType DEF Vault!Overruled
<1>4. o \notin {"UNASKED", "WAITING"} /\ vHeard[i] = <<>> /\ GrantTyped'
  BY <1>1, <1>2
     DEF Vault!Rulings, GrantIInv, SubmissionOK, GrantSilent, Vault!Waiting, GrantTyped,
         Vault!grantVars
<1>5. ASSUME NEW g \in Grants, NEW m \in Slots PROVE MilestoneOK(g, m)'
  <2>1. MilestoneOK(g, m) /\ vStatus' = vStatus /\ vQuestion' = vQuestion
    BY <1>1 DEF GrantIInv, Vault!grantVars
  <2>2. ReleasedByVerdict(g, m)'
    BY <1>2, <2>1 DEF MilestoneOK, ReleasedByVerdict
  <2>3. SubmittedOK(g, m)'
    BY <1>1, <1>2, <1>3, <1>4, <2>1
       DEF MilestoneOK, SubmittedOK, Vault!Waiting, Vault!DecidedUnheard,
           Vault!Oracle!TypeOK
  <2>4. QED
    BY <2>2, <2>3 DEF MilestoneOK
<1>6. ASSUME NEW j \in Ids PROVE SubmissionOK(j)'
  BY <1>1, <1>2, <1>3, <1>4
     DEF GrantIInv, SubmissionOK, GrantSilent, Vault!Waiting, Awaits, Vault!grantVars,
         Vault!Oracle!TypeOK
<1>7. QED
  BY <1>4, <1>5, <1>6 DEF GrantIInv
-----------------------------------------------------------------------------
(* A verdict is always on the latest submission of a milestone that waits  *)
(* for it, so that it decides that milestone and leaves no other waiting.  *)
LEMMA GrantVerdictOK ==
  ASSUME GrantIInv, NEW i \in Ids, NEW o \in Vault!Rulings, Vault!Verdict(i, o)
  PROVE  GrantIInv'
<1>1. GrantTyped /\ Vault!Oracle!TypeOK /\ Vault!OnVerdict(i, o) /\ vQuestion' = vQuestion
  BY DEF GrantIInv, GrantTyped, Vault!Verdict
<1>2. /\ Vault!Oracle!TypeOK' /\ Vault!Waiting(i) /\ vLink' = vLink
      /\ vAnswer' = [vAnswer EXCEPT ![i] = o]
      /\ vHeard' = [vHeard EXCEPT ![i] = Append(vHeard[i], o)]
  BY <1>1, GrantVerdictType
<1>3. vHeard[i] = <<>>
  BY <1>2 DEF GrantIInv, SubmissionOK, GrantSilent, Vault!Waiting
<1>4. PICK g \in Grants, m \in Slots : Awaits(g, m, i)
  BY <1>2 DEF GrantIInv, SubmissionOK
<1>5. Vault!Rule(g, m, o)
  BY <1>4 DEF Awaits, Vault!Verdict
<1>6. vStatus' = [vStatus EXCEPT ![g][m] = IF o = "TRUE" THEN "RELEASED" ELSE "REJECTED"]
  BY <1>4, <1>5 DEF Awaits, Vault!Rule
<1>7. /\ vHeard' = [vHeard EXCEPT ![i] = <<o>>] /\ vHeard'[i] = <<o>> /\ vAnswer'[i] = o
      /\ o \notin {"UNASKED", "WAITING"}
  BY <1>1, <1>2, <1>3 DEF Vault!Oracle!TypeOK, Vault!Rulings
<1>8. GrantTyped'
  BY <1>1, <1>2, <1>6 DEF GrantTyped, Vault!MilestoneStatus
<1>9. vStatus'[g][m] = IF o = "TRUE" THEN "RELEASED" ELSE "REJECTED"
  BY <1>1, <1>6 DEF GrantTyped
<1>10. ASSUME NEW h \in Grants, NEW n \in Slots PROVE MilestoneOK(h, n)'
  <2>1. CASE h = g /\ n = m
    <3>1. vQuestion'[h][n] = i
      BY <1>1, <1>4, <2>1 DEF Awaits
    <3>2. QED
      BY <1>7, <1>9, <2>1, <3>1 DEF MilestoneOK, ReleasedByVerdict, SubmittedOK
  <2>2. CASE ~(h = g /\ n = m)
    <3>1. MilestoneOK(h, n) /\ vStatus'[h][n] = vStatus[h][n]
      BY <1>1, <1>6, <2>2 DEF GrantIInv, GrantTyped
    <3>2. vStatus[h][n] = "RELEASED" => vQuestion[h][n] # i
      BY <1>3, <3>1, NotSilent DEF MilestoneOK, ReleasedByVerdict
    <3>3. ReleasedByVerdict(h, n)'
      BY <1>1, <1>7, <3>1, <3>2 DEF MilestoneOK, ReleasedByVerdict, Vault!Oracle!TypeOK
    <3>4. vStatus[h][n] = "SUBMITTED" => vQuestion[h][n] # i
      BY <1>4, <2>2, <3>1 DEF MilestoneOK, SubmittedOK, Awaits
    <3>5. SubmittedOK(h, n)'
      BY <1>1, <1>2, <1>7, <3>1, <3>4
         DEF MilestoneOK, SubmittedOK, Vault!Waiting, Vault!DecidedUnheard,
             Vault!Oracle!TypeOK
    <3>6. QED
      BY <3>3, <3>5 DEF MilestoneOK
  <2>3. QED
    BY <2>1, <2>2
<1>11. ASSUME NEW j \in Ids PROVE SubmissionOK(j)'
  <2>1. CASE j = i
    BY <1>7, <2>1 DEF SubmissionOK, GrantSilent, Vault!Waiting
  <2>2. CASE j # i
    <3>1. SubmissionOK(j) /\ vAnswer'[j] = vAnswer[j] /\ vHeard'[j] = vHeard[j]
      BY <1>1, <1>2, <1>7, <2>2 DEF GrantIInv, Vault!Oracle!TypeOK
    <3>2. ASSUME NEW h \in Grants, NEW n \in Slots, Awaits(h, n, j) PROVE Awaits(h, n, j)'
      <4>1. ~(h = g /\ n = m)
        BY <1>4, <2>2, <3>2 DEF Awaits
      <4>2. vStatus'[h][n] = vStatus[h][n]
        BY <1>1, <1>6, <4>1 DEF GrantTyped
      <4>3. QED
        BY <1>1, <1>2, <3>2, <4>2 DEF Awaits
    <3>3. QED
      BY <3>1, <3>2 DEF SubmissionOK, GrantSilent, Vault!Waiting
  <2>3. QED
    BY <2>1, <2>2
<1>12. QED
  BY <1>8, <1>10, <1>11 DEF GrantIInv
-----------------------------------------------------------------------------
LEMMA GrantNextOK == GrantIInv /\ [Vault!Next]_(Vault!vars) => GrantIInv'
<1> SUFFICES ASSUME GrantIInv, [Vault!Next]_(Vault!vars) PROVE GrantIInv'
  OBVIOUS
<1>1. CASE UNCHANGED Vault!vars
  BY <1>1, GrantAsideOK DEF Vault!vars, Vault!grantVars
<1>2. ASSUME NEW g \in Grants, NEW amounts, Vault!CreateGrant(g, amounts) PROVE GrantIInv'
  BY <1>2, GrantAsideOK DEF Vault!CreateGrant
<1>3. ASSUME NEW g \in Grants, Vault!Reclaim(g) \/ Vault!Elapse(g) PROVE GrantIInv'
  BY <1>3, GrantAsideOK DEF Vault!Reclaim, Vault!Elapse
<1>4. QED
  BY <1>1, <1>2, <1>3, GrantSubmitOK, GrantOverruledOK, GrantVerdictOK DEF Vault!Next

LEMMA GrantInvariant == Vault!Spec => []GrantIInv
<1>1. Vault!Init => GrantIInv
  BY GrantInitOK
<1>2. GrantIInv /\ [Vault!Next]_(Vault!vars) => GrantIInv'
  BY GrantNextOK
<1>3. QED
  BY <1>1, <1>2, PTL DEF Vault!Spec

LEMMA LatestOnly ==
  ASSUME GrantIInv, NEW g \in Grants, NEW m \in Slots
  PROVE  Vault!LatestSubmissionOnly(g, m)
<1>1. ASSUME NEW i \in Ids, vLink[i] = <<g, m>>, Vault!Waiting(i)
      PROVE  vStatus[g][m] = "SUBMITTED" /\ vQuestion[g][m] = i
  <2>1. PICK h \in Grants, n \in Slots : Awaits(h, n, i)
    BY <1>1 DEF GrantIInv, SubmissionOK
  <2>2. h = g /\ n = m
    BY <1>1, <2>1 DEF Awaits
  <2>3. QED
    BY <2>1, <2>2 DEF Awaits
<1>2. QED
  BY <1>1 DEF GrantIInv, MilestoneOK, ReleasedByVerdict, Vault!LatestSubmissionOnly
-----------------------------------------------------------------------------
(* The money of the grants.                                                *)

LEMMA GrantSums ==
  ASSUME NEW f, NEW S
  PROVE  Vault!SumFunctionOnSet(f, S) = SumFunctionOnSet(f, S)
  BY DEF Vault!SumFunctionOnSet, Vault!FoldFunctionOnSet, Vault!MapThenFoldSet,
         SumFunctionOnSet, FoldFunctionOnSet, MapThenFoldSet

Funded(g) == SumFunctionOnSet(amount[g], Slots)
GivenOut(g) == released[g] + residue[g]

MoneyTyped ==
  /\ created \subseteq Grants
  /\ amount \in [Grants -> [Slots -> Amounts \cup {0}]]
  /\ released \in [Grants -> Nat]
  /\ expired \subseteq created
  /\ reclaimed \subseteq expired
  /\ residue \in [Grants -> Nat]
  /\ held \in Nat

(* The grants of one contract share its balance.                           *)
Balanced ==
  SumFunctionOnSet([g \in Grants |-> Funded(g)], Grants)
    = held + SumFunctionOnSet([g \in Grants |-> GivenOut(g)], Grants)

(* A grant pays its released milestones.  The residue is what the others   *)
(* amount to when it is taken, and so at least each of those that are      *)
(* released after it.                                                      *)
Blank(g) == \A m \in Slots : amount[g][m] = 0 /\ vStatus[g][m] = "PENDING"

CoversOthers(g) == \A m \in Slots \ Vault!ReleasedSlots(g) : residue[g] >= amount[g][m]

PaidLate(g) == \E m \in Vault!ReleasedSlots(g) : residue[g] >= amount[g][m]

GrantBooks(g) ==
  /\ released[g] = SumFunctionOnSet(amount[g], Vault!ReleasedSlots(g))
  /\ g \notin created => Blank(g)
  /\ IF g \in reclaimed
     THEN CoversOthers(g) /\ (GivenOut(g) = Funded(g) \/ PaidLate(g))
     ELSE residue[g] = 0

(* The inductive invariant of the money.                                   *)
MoneyInv == MoneyTyped /\ Balanced /\ \A g \in Grants : GrantBooks(g)

LEMMA AmountNat ==
  ASSUME MoneyTyped, NEW g \in Grants, NEW m \in Slots PROVE amount[g][m] \in Nat
<1>1. amount[g][m] \in Amounts \cup {0}
  BY DEF MoneyTyped
<1>2. Amounts \cup {0} \subseteq Nat
  BY Constants
<1>3. QED
  BY <1>1, <1>2

LEMMA AmountNext ==
  ASSUME MoneyTyped', NEW g \in Grants, NEW m \in Slots PROVE amount'[g][m] \in Nat
<1>1. amount'[g][m] \in Amounts \cup {0}
  BY DEF MoneyTyped
<1>2. Amounts \cup {0} \subseteq Nat
  BY Constants
<1>3. QED
  BY <1>1, <1>2

LEMMA FundedNat == ASSUME MoneyTyped, NEW g \in Grants PROVE Funded(g) \in Nat
  BY AmountNat, SumNat, Constants DEF Funded

LEMMA FundedNext == ASSUME MoneyTyped', NEW g \in Grants PROVE Funded(g)' \in Nat
<1> DEFINE f == amount'[g]
<1>1. \A m \in Slots : f[m] \in Nat
  BY AmountNext
<1>2. SumFunctionOnSet(f, Slots) \in Nat
  <2> HIDE DEF f
  <2>1. QED
    BY <1>1, SumNat, Constants
<1>3. QED
  BY <1>2 DEF Funded

(* What a grant has paid and the milestones it has not make up the total.  *)
LEMMA PaidAndOthers ==
  ASSUME MoneyTyped, NEW g \in Grants, GrantBooks(g)
  PROVE  /\ IsFiniteSet(Slots \ Vault!ReleasedSlots(g))
         /\ SumFunctionOnSet(amount[g], Slots \ Vault!ReleasedSlots(g)) \in Nat
         /\ Funded(g) - released[g] = SumFunctionOnSet(amount[g], Slots \ Vault!ReleasedSlots(g))
         /\ \A m \in Slots \ Vault!ReleasedSlots(g) : Funded(g) - released[g] >= amount[g][m]
<1> DEFINE f == amount[g]
           P == Vault!ReleasedSlots(g)
           O == Slots \ P
<1>1. IsFiniteSet(Slots) /\ P \subseteq Slots /\ \A m \in Slots : f[m] \in Nat
  BY AmountNat, Constants DEF Vault!ReleasedSlots
<1>2. IsFiniteSet(O) /\ O \subseteq Slots
  BY <1>1, FS_Subset
<1>3. SumFunctionOnSet(f, Slots) = SumFunctionOnSet(f, P) + SumFunctionOnSet(f, O)
  <2> HIDE DEF f, P
  <2>1. QED
    BY <1>1, SumSplit
<1>4. SumFunctionOnSet(f, O) \in Nat /\ \A m \in O : f[m] <= SumFunctionOnSet(f, O)
  <2> HIDE DEF f, O
  <2>1. QED
    BY <1>1, <1>2, SumNat, SumBounds
<1>5. released[g] \in Nat /\ released[g] = SumFunctionOnSet(f, P)
      /\ Funded(g) = SumFunctionOnSet(f, Slots)
  BY DEF MoneyTyped, GrantBooks, Funded
<1>6. Funded(g) - released[g] = SumFunctionOnSet(f, O)
  BY <1>3, <1>4, <1>5
<1>7. QED
  BY <1>1, <1>2, <1>4, <1>6

LEMMA BalanceStep ==
  ASSUME MoneyTyped, MoneyTyped', Balanced, NEW g \in Grants,
         \A h \in Grants \ {g} : Funded(h)' = Funded(h) /\ GivenOut(h)' = GivenOut(h),
         held' + GivenOut(g)' - Funded(g)' = held + GivenOut(g) - Funded(g)
  PROVE  Balanced'
<1> DEFINE a == [h \in Grants |-> Funded(h)]
           b == [h \in Grants |-> Funded(h)']
           c == [h \in Grants |-> GivenOut(h)]
           d == [h \in Grants |-> GivenOut(h)']
<1>1. \A h \in Grants : /\ a[h] \in Int /\ b[h] \in Int
                        /\ c[h] \in Int /\ d[h] \in Int
  <2> SUFFICES ASSUME NEW h \in Grants
               PROVE  /\ Funded(h) \in Nat /\ Funded(h)' \in Nat
                      /\ GivenOut(h) \in Nat /\ GivenOut(h)' \in Nat
    OBVIOUS
  <2>1. Funded(h) \in Nat /\ Funded(h)' \in Nat
    BY FundedNat, FundedNext
  <2>2. /\ released[h] \in Nat /\ residue[h] \in Nat
        /\ released'[h] \in Nat /\ residue'[h] \in Nat
    BY DEF MoneyTyped
  <2>3. QED
    BY <2>1, <2>2 DEF GivenOut
<1>2. \A h \in Grants \ {g} : b[h] = a[h] /\ d[h] = c[h]
  OBVIOUS
<1>3. /\ SumFunctionOnSet(a, Grants) = held + SumFunctionOnSet(c, Grants)
      /\ held' + d[g] - b[g] = held + c[g] - a[g]
      /\ held \in Int /\ held' \in Int
  BY DEF Balanced, MoneyTyped
<1>4. SumFunctionOnSet(b, Grants) = held' + SumFunctionOnSet(d, Grants)
  <2> HIDE DEF a, b, c, d
  <2>1. SumFunctionOnSet(b, Grants) = SumFunctionOnSet(a, Grants) - a[g] + b[g]
    BY <1>1, <1>2, SumChanged, Constants
  <2>2. SumFunctionOnSet(d, Grants) = SumFunctionOnSet(c, Grants) - c[g] + d[g]
    BY <1>1, <1>2, SumChanged, Constants
  <2>3. SumFunctionOnSet(a, Grants) \in Int /\ SumFunctionOnSet(c, Grants) \in Int
    BY <1>1, SumInt, Constants
  <2>4. a[g] \in Int /\ b[g] \in Int /\ c[g] \in Int /\ d[g] \in Int
    BY <1>1
  <2>5. ASSUME NEW sa \in Int, NEW sc \in Int, NEW before \in Int, NEW after \in Int,
               NEW ag \in Int, NEW bg \in Int, NEW cg \in Int, NEW dg \in Int,
               sa = before + sc, after + dg - bg = before + cg - ag
        PROVE  sa - ag + bg = after + (sc - cg + dg)
    BY <2>5
  <2>6. QED
    BY <1>3, <2>1, <2>2, <2>3, <2>4, <2>5
<1>5. QED
  BY <1>4 DEF Balanced

LEMMA BooksFrame ==
  ASSUME NEW h \in Grants, GrantBooks(h),
         amount'[h] = amount[h], vStatus'[h] = vStatus[h], released'[h] = released[h],
         residue'[h] = residue[h],
         h \in created' <=> h \in created, h \in reclaimed' <=> h \in reclaimed
  PROVE  GrantBooks(h)' /\ Funded(h)' = Funded(h) /\ GivenOut(h)' = GivenOut(h)
<1>1. Funded(h)' = Funded(h) /\ GivenOut(h)' = GivenOut(h)
  BY DEF Funded, GivenOut
<1>2. Vault!ReleasedSlots(h)' = Vault!ReleasedSlots(h)
  BY DEF Vault!ReleasedSlots
<1>3. QED
  BY <1>1, <1>2 DEF GrantBooks, Blank, CoversOthers, PaidLate

(* Nothing moves, and no milestone becomes or ceases to be RELEASED.       *)
LEMMA MoneyAside ==
  ASSUME MoneyInv, UNCHANGED <<created, amount, released, reclaimed, residue, held>>,
         expired \subseteq expired', expired' \subseteq created,
         \A g \in Grants : /\ Vault!ReleasedSlots(g)' = Vault!ReleasedSlots(g)
                           /\ g \notin created => vStatus'[g] = vStatus[g]
  PROVE  MoneyInv'
<1>1. MoneyTyped'
  BY DEF MoneyInv, MoneyTyped
<1>2. ASSUME NEW g \in Grants
      PROVE  GrantBooks(g)' /\ Funded(g)' = Funded(g) /\ GivenOut(g)' = GivenOut(g)
  <2>1. GrantBooks(g) /\ Vault!ReleasedSlots(g)' = Vault!ReleasedSlots(g)
    BY DEF MoneyInv
  <2>2. Funded(g)' = Funded(g) /\ GivenOut(g)' = GivenOut(g)
    BY DEF Funded, GivenOut
  <2>3. QED
    BY <2>1, <2>2 DEF GrantBooks, Blank, CoversOthers, PaidLate
<1>3. /\ [g \in Grants |-> Funded(g)'] = [g \in Grants |-> Funded(g)]
      /\ [g \in Grants |-> GivenOut(g)'] = [g \in Grants |-> GivenOut(g)]
  BY <1>2
<1>4. Balanced'
  BY <1>3 DEF MoneyInv, Balanced
<1>5. QED
  BY <1>1, <1>2, <1>4 DEF MoneyInv

LEMMA CreateMoney ==
  ASSUME GrantIInv, MoneyInv, NEW g \in Grants, NEW amounts \in [Slots -> Amounts],
         Vault!CreateGrant(g, amounts)
  PROVE  MoneyInv'
<1> DEFINE total == SumFunctionOnSet(amounts, Slots)
<1>1. /\ g \notin created /\ created' = created \cup {g}
      /\ amount' = [amount EXCEPT ![g] = amounts] /\ held' = held + total
      /\ UNCHANGED <<vStatus, released, expired, reclaimed, residue>>
  BY GrantSums DEF Vault!CreateGrant, Vault!SumOf
<1>2. \A m \in Slots : amounts[m] \in Nat
  BY Constants
<1>3. total \in Nat
  BY <1>2, SumNat, Constants
<1>4. MoneyTyped /\ MoneyTyped'
  BY <1>1, <1>3 DEF MoneyInv, MoneyTyped
<1>5. GrantBooks(g) /\ Blank(g) /\ g \notin reclaimed /\ residue[g] = 0
  BY <1>1, <1>4 DEF MoneyInv, GrantBooks, MoneyTyped
<1>6. Vault!ReleasedSlots(g) = {} /\ Vault!ReleasedSlots(g)' = {}
  BY <1>1, <1>5 DEF Vault!ReleasedSlots, Blank
<1>7. released[g] = 0
  BY <1>5, <1>6, SumEmpty DEF GrantBooks
<1>8. GrantBooks(g)'
  <2>1. released'[g] = SumFunctionOnSet(amount'[g], Vault!ReleasedSlots(g)')
    BY <1>1, <1>6, <1>7, SumEmpty
  <2>2. QED
    BY <1>1, <1>5, <2>1 DEF GrantBooks
<1>9. Funded(g) = 0 /\ Funded(g)' = total /\ GivenOut(g)' = GivenOut(g)
  <2>1. Funded(g) = 0
    BY <1>5, SumZero, Constants DEF Funded, Blank
  <2>2. amount'[g] = amounts
    BY <1>1, <1>4 DEF MoneyTyped
  <2>3. QED
    BY <1>1, <2>1, <2>2 DEF Funded, GivenOut
<1>10. \A h \in Grants \ {g} :
         GrantBooks(h)' /\ Funded(h)' = Funded(h) /\ GivenOut(h)' = GivenOut(h)
  <2> TAKE h \in Grants \ {g}
  <2>1. GrantBooks(h) /\ amount'[h] = amount[h] /\ (h \in created' <=> h \in created)
    BY <1>1, <1>4 DEF MoneyInv, MoneyTyped
  <2>2. QED
    BY <1>1, <2>1, BooksFrame
<1>11. held' + GivenOut(g)' - Funded(g)' = held + GivenOut(g) - Funded(g)
  <2>1. held \in Nat /\ GivenOut(g) \in Nat
    BY <1>4 DEF MoneyTyped, GivenOut
  <2>2. QED
    BY <1>1, <1>3, <1>9, <2>1
<1>12. Balanced'
  BY <1>4, <1>10, <1>11, BalanceStep DEF MoneyInv
<1>13. QED
  BY <1>4, <1>8, <1>10, <1>12 DEF MoneyInv

LEMMA ReclaimMoney ==
  ASSUME GrantIInv, MoneyInv, NEW g \in Grants, Vault!Reclaim(g)
  PROVE  MoneyInv'
<1> DEFINE rest == Funded(g) - released[g]
<1>1. /\ g \in expired /\ g \notin reclaimed /\ rest <= held
      /\ reclaimed' = reclaimed \cup {g}
      /\ residue' = [residue EXCEPT ![g] = rest] /\ held' = held - rest
      /\ UNCHANGED <<created, amount, vStatus, released, expired>>
  BY GrantSums DEF Vault!Reclaim, Vault!CanReclaim, Vault!TotalAmount, Vault!SumOf, Funded
<1>2. MoneyTyped /\ GrantBooks(g) /\ residue[g] = 0
  BY <1>1 DEF MoneyInv, GrantBooks
<1>3. rest \in Nat /\ held \in Nat /\ released[g] \in Nat /\ Funded(g) \in Nat
  BY <1>2, PaidAndOthers, FundedNat DEF MoneyTyped
<1>4. MoneyTyped'
  BY <1>1, <1>2, <1>3 DEF MoneyTyped
<1>5. /\ residue'[g] = rest /\ Funded(g)' = Funded(g)
      /\ Vault!ReleasedSlots(g)' = Vault!ReleasedSlots(g)
  BY <1>1, <1>2 DEF MoneyTyped, Funded, Vault!ReleasedSlots
<1>6. GivenOut(g) = released[g] /\ GivenOut(g)' = Funded(g)
  BY <1>1, <1>2, <1>3, <1>5 DEF GivenOut
<1>7. GrantBooks(g)'
  <2>1. \A m \in Slots \ Vault!ReleasedSlots(g) : rest >= amount[g][m]
    BY <1>2, PaidAndOthers
  <2>2. CoversOthers(g)'
    BY <1>1, <1>5, <2>1 DEF CoversOthers
  <2>3. QED
    BY <1>1, <1>2, <1>5, <1>6, <2>2 DEF GrantBooks, MoneyTyped, Blank
<1>8. \A h \in Grants \ {g} :
        GrantBooks(h)' /\ Funded(h)' = Funded(h) /\ GivenOut(h)' = GivenOut(h)
  <2> TAKE h \in Grants \ {g}
  <2>1. GrantBooks(h) /\ residue'[h] = residue[h] /\ (h \in reclaimed' <=> h \in reclaimed)
    BY <1>1, <1>2 DEF MoneyInv, MoneyTyped
  <2>2. QED
    BY <1>1, <2>1, BooksFrame
<1>9. held' + GivenOut(g)' - Funded(g)' = held + GivenOut(g) - Funded(g)
  BY <1>1, <1>3, <1>5, <1>6
<1>10. Balanced'
  BY <1>2, <1>4, <1>8, <1>9, BalanceStep DEF MoneyInv
<1>11. QED
  BY <1>4, <1>7, <1>8, <1>10 DEF MoneyInv

LEMMA SubmitMoney ==
  ASSUME GrantIInv, MoneyInv, NEW g \in Grants, NEW m \in Slots, NEW i \in Ids,
         Vault!SubmitMilestone(g, m, i)
  PROVE  MoneyInv'
<1>1. /\ g \in created /\ vStatus[g][m] \in {"PENDING", "REJECTED"}
      /\ vStatus' = [vStatus EXCEPT ![g][m] = "SUBMITTED"]
      /\ UNCHANGED <<created, amount, released, expired, reclaimed, residue, held>>
  BY DEF Vault!SubmitMilestone, Vault!CanSubmit
<1>2. ASSUME NEW h \in Grants
      PROVE  /\ Vault!ReleasedSlots(h)' = Vault!ReleasedSlots(h)
             /\ h \notin created => vStatus'[h] = vStatus[h]
  BY <1>1 DEF GrantIInv, GrantTyped, Vault!ReleasedSlots
<1>3. QED
  BY <1>1, <1>2, MoneyAside DEF MoneyInv, MoneyTyped

(* Milestone m of grant g is released, which the residue does not see.     *)
LEMMA ReleaseMoney ==
  ASSUME GrantIInv, MoneyInv, NEW g \in Grants, NEW m \in Slots,
         vStatus[g][m] = "SUBMITTED", amount[g][m] <= held,
         vStatus' = [vStatus EXCEPT ![g][m] = "RELEASED"],
         released' = [released EXCEPT ![g] = @ + amount[g][m]],
         held' = held - amount[g][m],
         UNCHANGED <<created, amount, expired, reclaimed, residue>>
  PROVE  MoneyInv'
<1> DEFINE P == Vault!ReleasedSlots(g)
<1>1. MoneyTyped /\ GrantTyped /\ GrantBooks(g) /\ amount[g][m] \in Nat /\ held \in Nat
      /\ released[g] \in Nat /\ residue[g] \in Nat
  BY AmountNat DEF MoneyInv, GrantIInv, MoneyTyped
<1>2. MoneyTyped'
  BY <1>1 DEF MoneyTyped
<1>3. m \notin P /\ Vault!ReleasedSlots(g)' = P \cup {m} /\ P \subseteq Slots
  BY <1>1 DEF GrantTyped, Vault!ReleasedSlots
<1>4. released'[g] = released[g] + amount[g][m]
  BY <1>1 DEF MoneyTyped
<1>5. SumFunctionOnSet(amount[g], P \cup {m}) = amount[g][m] + SumFunctionOnSet(amount[g], P)
  <2>1. IsFiniteSet(P) /\ \A n \in P \cup {m} : amount[g][n] \in Int
    BY <1>1, <1>3, AmountNat, FS_Subset, Constants
  <2> HIDE DEF P
  <2>2. QED
    BY <1>3, <2>1, SumAdded
<1>6. Funded(g)' = Funded(g) /\ GivenOut(g)' = GivenOut(g) + amount[g][m]
      /\ GivenOut(g) \in Nat /\ Funded(g) \in Nat
  BY <1>1, <1>4, FundedNat DEF Funded, GivenOut
<1>7. GrantBooks(g)'
  <2>1. released'[g] = SumFunctionOnSet(amount[g], Vault!ReleasedSlots(g)')
    BY <1>1, <1>3, <1>4, <1>5 DEF GrantBooks
  <2>2. g \in created
    BY <1>1 DEF GrantBooks, Blank
  <2>3. ASSUME g \in reclaimed PROVE CoversOthers(g)' /\ PaidLate(g)'
    <3>1. residue[g] >= amount[g][m] /\ CoversOthers(g)
      BY <1>1, <1>3, <2>3 DEF GrantBooks, CoversOthers
    <3>2. QED
      BY <1>3, <3>1 DEF CoversOthers, PaidLate
  <2>4. QED
    BY <1>1, <2>1, <2>2, <2>3 DEF GrantBooks
<1>8. \A h \in Grants \ {g} :
        GrantBooks(h)' /\ Funded(h)' = Funded(h) /\ GivenOut(h)' = GivenOut(h)
  <2> TAKE h \in Grants \ {g}
  <2>1. GrantBooks(h) /\ released'[h] = released[h] /\ vStatus'[h] = vStatus[h]
    BY <1>1 DEF MoneyInv, MoneyTyped, GrantTyped
  <2>2. QED
    BY <2>1, BooksFrame
<1>9. held' + GivenOut(g)' - Funded(g)' = held + GivenOut(g) - Funded(g)
  BY <1>1, <1>6
<1>10. Balanced'
  BY <1>1, <1>2, <1>8, <1>9, BalanceStep DEF MoneyInv
<1>11. QED
  BY <1>2, <1>7, <1>8, <1>10 DEF MoneyInv

LEMMA VerdictMoney ==
  ASSUME GrantIInv, MoneyInv, NEW i \in Ids, NEW o \in Vault!Rulings, Vault!Verdict(i, o)
  PROVE  MoneyInv'
<1>1. /\ GrantTyped /\ Vault!OnVerdict(i, o)
      /\ UNCHANGED <<created, amount, expired, reclaimed, residue>>
  BY DEF GrantIInv, Vault!Verdict
<1>2. Vault!Waiting(i)
  BY <1>1, GrantVerdictType DEF GrantTyped
<1>3. PICK g \in Grants, m \in Slots : Awaits(g, m, i)
  BY <1>2 DEF GrantIInv, SubmissionOK
<1>4. Vault!Rule(g, m, o) /\ vStatus[g][m] = "SUBMITTED"
  BY <1>3 DEF Awaits, Vault!Verdict
<1>5. CASE o = "TRUE"
  BY <1>1, <1>4, <1>5, ReleaseMoney DEF Vault!Rule
<1>6. CASE o # "TRUE"
  <2>1. vStatus' = [vStatus EXCEPT ![g][m] = "REJECTED"] /\ UNCHANGED <<released, held>>
    BY <1>4, <1>6 DEF Vault!Rule
  <2>2. g \in created
    BY <1>4 DEF MoneyInv, GrantBooks, Blank
  <2>3. ASSUME NEW h \in Grants
        PROVE  /\ Vault!ReleasedSlots(h)' = Vault!ReleasedSlots(h)
               /\ h \notin created => vStatus'[h] = vStatus[h]
    BY <1>1, <1>4, <2>1, <2>2 DEF GrantTyped, Vault!ReleasedSlots
  <2>4. QED
    BY <1>1, <2>1, <2>3, MoneyAside DEF MoneyInv, MoneyTyped
<1>7. QED
  BY <1>5, <1>6

LEMMA MoneyNext == GrantIInv /\ MoneyInv /\ [Vault!Next]_(Vault!vars) => MoneyInv'
<1> SUFFICES ASSUME GrantIInv, MoneyInv, [Vault!Next]_(Vault!vars) PROVE MoneyInv'
  OBVIOUS
<1>1. expired \subseteq created
  BY DEF MoneyInv, MoneyTyped
<1>2. CASE UNCHANGED Vault!vars \/ \E i \in Ids : Vault!Overruled(i)
  <2>1. UNCHANGED Vault!grantVars
    BY <1>2 DEF Vault!vars, Vault!Overruled
  <2>2. QED
    BY <1>1, <2>1, MoneyAside DEF Vault!grantVars, Vault!ReleasedSlots
<1>3. ASSUME NEW g \in Grants, Vault!Elapse(g) PROVE MoneyInv'
  BY <1>1, <1>3, MoneyAside DEF Vault!Elapse, Vault!ReleasedSlots
<1>4. QED
  BY <1>2, <1>3, CreateMoney, ReclaimMoney, SubmitMoney, VerdictMoney DEF Vault!Next

LEMMA MoneyInit == Vault!Init => MoneyInv
<1> SUFFICES ASSUME Vault!Init PROVE MoneyInv
  OBVIOUS
<1>1. MoneyTyped
  BY DEF Vault!Init, MoneyTyped
<1>2. ASSUME NEW g \in Grants
      PROVE  GrantBooks(g) /\ Funded(g) = 0 /\ GivenOut(g) = 0
  <2>1. Blank(g) /\ released[g] = 0 /\ residue[g] = 0 /\ g \notin reclaimed
    BY DEF Vault!Init, Blank
  <2>2. Vault!ReleasedSlots(g) = {}
    BY <2>1 DEF Vault!ReleasedSlots, Blank
  <2>3. Funded(g) = 0
    BY <2>1, SumZero, Constants DEF Funded, Blank
  <2>4. QED
    BY <2>1, <2>2, <2>3, SumEmpty DEF GrantBooks, GivenOut
<1>3. /\ SumFunctionOnSet([g \in Grants |-> Funded(g)], Grants) = 0
      /\ SumFunctionOnSet([g \in Grants |-> GivenOut(g)], Grants) = 0
  BY <1>2, SumZero, Constants
<1>4. Balanced
  BY <1>3 DEF Balanced, Vault!Init
<1>5. QED
  BY <1>1, <1>2, <1>4 DEF MoneyInv

LEMMA MoneyInvariant == Vault!Spec => []MoneyInv
<1>1. GrantIInv /\ MoneyInv /\ [Vault!Next]_(Vault!vars) => MoneyInv'
  BY MoneyNext
<1>2. QED
  BY <1>1, MoneyInit, GrantInvariant, PTL DEF Vault!Spec

LEMMA GrantInvHolds == GrantIInv /\ MoneyInv => Vault!GrantInv
<1> SUFFICES ASSUME GrantIInv, MoneyInv PROVE Vault!GrantInv
  OBVIOUS
<1>1. Vault!TypeOK
  BY DEF GrantIInv, GrantTyped, MoneyInv, MoneyTyped, Vault!TypeOK
<1>2. ASSUME NEW g \in Grants
      PROVE  /\ released[g] = Vault!SumFunctionOnSet(amount[g], Vault!ReleasedSlots(g))
             /\ Vault!TotalAmount(g) = Funded(g)
  BY GrantSums DEF MoneyInv, GrantBooks, Vault!TotalAmount, Vault!SumOf, Funded
<1>3. /\ [g \in Grants |-> Vault!TotalAmount(g)] = [g \in Grants |-> Funded(g)]
      /\ [g \in Grants |-> released[g] + residue[g]] = [g \in Grants |-> GivenOut(g)]
  BY <1>2 DEF GivenOut
<1>4. Vault!Conserved
  BY <1>2, <1>3, GrantSums DEF Vault!Conserved, MoneyInv, Balanced
<1>5. QED
  BY <1>1, <1>4, LatestOnly DEF Vault!GrantInv

LEMMA OverpaidHolds == MoneyInv => Vault!OverpaidAfterReclaimOnly
<1> SUFFICES ASSUME MoneyInv, NEW g \in Grants, Vault!Overpaid(g)
             PROVE  /\ g \in reclaimed
                    /\ \E m \in Vault!ReleasedSlots(g) : residue[g] >= amount[g][m]
  BY DEF Vault!OverpaidAfterReclaimOnly
<1>1. MoneyTyped /\ GrantBooks(g) /\ Funded(g) \in Nat /\ released[g] \in Nat
      /\ residue[g] \in Nat
  BY FundedNat DEF MoneyInv, MoneyTyped
<1>2. GivenOut(g) > Funded(g)
  BY GrantSums DEF Vault!Overpaid, Vault!TotalAmount, Vault!SumOf, GivenOut, Funded
<1>3. released[g] <= Funded(g)
  <2>1. Funded(g) - released[g] \in Nat
    BY <1>1, PaidAndOthers
  <2>2. QED
    BY <1>1, <2>1
<1>4. g \in reclaimed
  BY <1>1, <1>2, <1>3 DEF GrantBooks, GivenOut
<1>5. PaidLate(g)
  BY <1>1, <1>2, <1>4 DEF GrantBooks, GivenOut
<1>6. QED
  BY <1>4, <1>5 DEF PaidLate
-----------------------------------------------------------------------------
(* The checks.                                                             *)

(* What an application has heard of a question: nothing before it is       *)
(* answered.                                                               *)
CheckSilent(i) == cAnswer[i] \in {"UNASKED", "WAITING"} => cHeard[i] = <<>>

(* Asking, answering and overriding keep the types of the oracle.          *)
LEMMA CheckAskType ==
  ASSUME Certifier!Oracle!TypeOK, NEW i \in Ids, Certifier!Oracle!Ask(i, Bond)
  PROVE  Certifier!Oracle!TypeOK'
  BY Constants DEF Certifier!Oracle!TypeOK, Certifier!Oracle!Ask, Certifier!Oracle!CanAsk

LEMMA CheckDecideType ==
  ASSUME Certifier!Oracle!TypeOK, NEW i \in Ids, NEW o \in Certifier!Rulings, NEW back,
         Certifier!Oracle!Decide(i, o, back)
  PROVE  /\ cAnswer' \in [Ids -> Certifier!Rulings \cup {"UNASKED", "WAITING"}]
         /\ cStake' \in [Ids -> Nat]
         /\ back \in Nat
         /\ cRepaid' \in [Ids -> Nat]
<1>1. back \in Nat
  <2>1. cStake[i] \in Nat /\ back \in {0, cStake[i], 2 * cStake[i]}
    BY DEF Certifier!Oracle!TypeOK, Certifier!Oracle!Decide, Certifier!Oracle!Returns
  <2>2. QED
    BY <2>1
<1>2. QED
  BY <1>1
     DEF Certifier!Oracle!TypeOK, Certifier!Oracle!Decide, Certifier!Oracle!Rulings,
         Certifier!Rulings

LEMMA CheckVerdictType ==
  ASSUME Certifier!Oracle!TypeOK, NEW i \in Ids, NEW o \in Certifier!Rulings,
         Certifier!OnVerdict(i, o)
  PROVE  /\ Certifier!Oracle!TypeOK'
         /\ Certifier!Waiting(i)
         /\ cAnswer' = [cAnswer EXCEPT ![i] = o]
         /\ cHeard' = [cHeard EXCEPT ![i] = Append(cHeard[i], o)]
         /\ \E back \in Nat : cRepaid' = [cRepaid EXCEPT ![i] = back]
         /\ cLink' = cLink
<1>1. PICK back \in Certifier!Oracle!Returns(i) : Certifier!Oracle!Answer(i, o, back)
  BY DEF Certifier!OnVerdict
<1>2. Certifier!Oracle!Decide(i, o, back) /\ cHeard' = [cHeard EXCEPT ![i] = Append(@, o)]
  BY <1>1 DEF Certifier!Oracle!Answer
<1>3. cHeard' \in [Ids -> Seq(Certifier!Rulings)]
  BY <1>2 DEF Certifier!Oracle!TypeOK, Certifier!Oracle!Rulings, Certifier!Rulings
<1>4. QED
  BY <1>2, <1>3, CheckDecideType
     DEF Certifier!Oracle!TypeOK, Certifier!Oracle!Decide, Certifier!OnVerdict,
         Certifier!Waiting, Certifier!Oracle!Rulings, Certifier!Rulings

LEMMA CheckOverruledType ==
  ASSUME Certifier!Oracle!TypeOK, NEW i \in Ids, Certifier!ForceResolve(i)
  PROVE  /\ Certifier!Oracle!TypeOK'
         /\ Certifier!Waiting(i)
         /\ \E o \in Certifier!Rulings : cAnswer' = [cAnswer EXCEPT ![i] = o]
         /\ \E back \in Nat : cRepaid' = [cRepaid EXCEPT ![i] = back]
         /\ cHeard' = cHeard /\ cLink' = cLink
<1>1. PICK o \in Certifier!Rulings, back \in Certifier!Oracle!Returns(i) : Certifier!Oracle!Override(i, o, back)
  BY DEF Certifier!ForceResolve
<1>2. Certifier!Oracle!Decide(i, o, back) /\ cHeard' = cHeard
  BY <1>1 DEF Certifier!Oracle!Override
<1>3. QED
  BY <1>2, CheckDecideType
     DEF Certifier!Oracle!TypeOK, Certifier!Oracle!Decide, Certifier!ForceResolve,
         Certifier!Waiting, Certifier!Oracle!Rulings, Certifier!Rulings
Submitted(c) == c < nextCheckId

(* A check that was submitted has a question of its own, and its status    *)
(* says what became of the question; others are blank.                     *)
CheckOK(c) ==
  IF Submitted(c)
  THEN LET q == cQuestion[c] IN
       /\ asset[c] \in Hashes /\ q \in Ids /\ cLink[q] = c
       /\ cAnswer[q] # "UNASKED"
       /\ \/ cStatus[c] = "PENDING" /\ cHeard[q] = <<>>
          \/ cStatus[c] = "CERTIFIED" /\ cHeard[q] = <<"TRUE">>
          \/ cStatus[c] = "REJECTED" /\ cHeard[q] \in {<<"FALSE">>, <<"INVALID">>}
  ELSE cStatus[c] = "NONE" /\ asset[c] = Certifier!NoHash /\ cQuestion[c] = Certifier!NoQuestion

(* A question that may be answered is that of a check.                     *)
AskedOK(i) ==
  /\ CheckSilent(i)
  /\ Certifier!Waiting(i) => cLink[i] \in Certifier!Checks /\ Submitted(cLink[i]) /\ cQuestion[cLink[i]] = i

(* The inductive invariant.                                                *)
CheckIInv ==
  /\ Certifier!TypeOK
  /\ \A c \in Certifier!Checks : CheckOK(c)
  /\ \A i \in Ids : AskedOK(i)
  /\ \A h \in Hashes : Certifier!CertifiedByVerdict(h)
-----------------------------------------------------------------------------
LEMMA Different ==
  /\ <<"TRUE">> # <<>> /\ <<"FALSE">> # <<>> /\ <<"INVALID">> # <<>>
  /\ <<"TRUE">> # <<"FALSE">> /\ <<"TRUE">> # <<"INVALID">>
  OBVIOUS

LEMMA CheckIds ==
  ASSUME Certifier!TypeOK
  PROVE  /\ nextCheckId \in Nat /\ MaxChecks \in Nat
         /\ \A c \in Certifier!Checks : c \in Nat /\ c # 0 /\ c <= MaxChecks
  BY Constants DEF Certifier!TypeOK, Certifier!Checks

(* Only a CERTIFIED check has heard TRUE.                                  *)
CertifiedChecks(h) == {c \in Certifier!Checks : asset[c] = h /\ cStatus[c] = "CERTIFIED"}

LEMMA HeardTrueOf ==
  (\A c \in Certifier!Checks : CheckOK(c))
    => \A h \in Hashes : Certifier!HeardTrue(h) = CertifiedChecks(h)
<1> SUFFICES ASSUME \A c \in Certifier!Checks : CheckOK(c), NEW h \in Hashes
             PROVE  Certifier!HeardTrue(h) = CertifiedChecks(h)
  OBVIOUS
<1>1. ASSUME NEW c \in Certifier!Checks, asset[c] = h
      PROVE  cHeard[cQuestion[c]] = <<"TRUE">> <=> cStatus[c] = "CERTIFIED"
  <2>1. Submitted(c) /\ CheckOK(c)
    BY <1>1, Constants DEF CheckOK
  <2>2. QED
    BY <2>1, Different DEF CheckOK
<1>2. QED
  BY <1>1 DEF Certifier!HeardTrue, CertifiedChecks

LEMMA HeardTrueNext ==
  (\A c \in Certifier!Checks : CheckOK(c))'
    => (\A h \in Hashes : Certifier!HeardTrue(h) = CertifiedChecks(h))'
  BY HeardTrueOf, PTL

LEMMA CheckInitOK == Certifier!Init => CheckIInv
<1> SUFFICES ASSUME Certifier!Init PROVE CheckIInv
  OBVIOUS
<1>1. Certifier!TypeOK
  BY Constants
     DEF Certifier!Init, Certifier!ConsumerInit, Certifier!Oracle!Init, Certifier!TypeOK,
         Certifier!Oracle!TypeOK, Certifier!CheckStatus, Certifier!Checks
<1>2. ASSUME NEW c \in Certifier!Checks PROVE CheckOK(c)
  <2>1. ~Submitted(c)
    BY <1>1, CheckIds DEF Certifier!Init, Submitted
  <2>2. QED
    BY <2>1 DEF Certifier!Init, CheckOK
<1>3. ASSUME NEW i \in Ids PROVE AskedOK(i)
  BY DEF Certifier!Init, Certifier!ConsumerInit, Certifier!Oracle!Init, AskedOK,
         CheckSilent, Certifier!Waiting
<1>4. ASSUME NEW h \in Hashes PROVE Certifier!CertifiedByVerdict(h)
  <2>1. Certifier!HeardTrue(h) = {}
    BY Constants DEF Certifier!HeardTrue, Certifier!Init
  <2>2. QED
    BY <2>1 DEF Certifier!CertifiedByVerdict, Certifier!Init
<1>5. QED
  BY <1>1, <1>2, <1>3, <1>4 DEF CheckIInv
-----------------------------------------------------------------------------
LEMMA CheckSubmitOK ==
  ASSUME CheckIInv, NEW h \in Hashes, NEW i \in Ids, Certifier!SubmitCheck(h, i)
  PROVE  CheckIInv'
<1>0. PICK c \in Certifier!Checks : c = nextCheckId
  BY Constants DEF CheckIInv, Certifier!TypeOK, Certifier!SubmitCheck, Certifier!Checks
<1>1. /\ Certifier!TypeOK /\ Certifier!Oracle!TypeOK /\ i # Certifier!NoQuestion /\ CheckOK(c) /\ ~Submitted(c)
      /\ \A d \in Certifier!Checks : d \in Nat /\ d # 0
  BY <1>0, Constants, CheckIds DEF CheckIInv, Certifier!TypeOK, Submitted
<1>2. /\ nextCheckId' = c + 1 /\ cStatus' = [cStatus EXCEPT ![c] = "PENDING"]
      /\ asset' = [asset EXCEPT ![c] = h] /\ cQuestion' = [cQuestion EXCEPT ![c] = i]
      /\ certificate' = certificate
      /\ cAnswer[i] = "UNASKED" /\ cAnswer' = [cAnswer EXCEPT ![i] = "WAITING"]
      /\ cHeard' = cHeard /\ cLink' = [cLink EXCEPT ![i] = c]
      /\ Certifier!Oracle!Ask(i, Bond)
  BY <1>0 DEF Certifier!SubmitCheck, Certifier!CreateAssertionFor, Certifier!Oracle!Ask,
              Certifier!Oracle!CanAsk
<1>3. Certifier!Oracle!TypeOK'
  BY <1>1, <1>2, CheckAskType
<1>4. Certifier!TypeOK'
  BY <1>0, <1>1, <1>2, <1>3, Constants
     DEF Certifier!TypeOK, Certifier!CheckStatus, Certifier!Checks
<1>5. cHeard[i] = <<>>
  BY <1>2 DEF CheckIInv, AskedOK, CheckSilent
<1>6. \A d \in Certifier!Checks : Submitted(d)' <=> Submitted(d) \/ d = c
  BY <1>0, <1>1, <1>2, CheckIds DEF Submitted
<1>7. ASSUME NEW d \in Certifier!Checks PROVE CheckOK(d)'
  <2>1. CASE d = c
    BY <1>1, <1>2, <1>5, <1>6, <2>1 DEF CheckOK, Certifier!TypeOK, Certifier!Oracle!TypeOK
  <2>2. CASE d # c
    <3>1. CheckOK(d) /\ asset'[d] = asset[d] /\ cQuestion'[d] = cQuestion[d]
          /\ cStatus'[d] = cStatus[d] /\ (Submitted(d)' <=> Submitted(d))
      BY <1>1, <1>2, <1>6, <2>2 DEF CheckIInv, Certifier!TypeOK
    <3>2. Submitted(d) => cQuestion[d] # i
      BY <1>2, <3>1 DEF CheckOK
    <3>3. QED
      BY <1>1, <1>2, <3>1, <3>2 DEF CheckOK, Certifier!TypeOK, Certifier!Oracle!TypeOK
  <2>3. QED
    BY <2>1, <2>2
<1>8. ASSUME NEW j \in Ids PROVE AskedOK(j)'
  <2>1. CASE j = i
    BY <1>1, <1>2, <1>5, <1>6, <2>1
       DEF AskedOK, CheckSilent, Certifier!Waiting, Certifier!TypeOK,
           Certifier!Oracle!TypeOK
  <2>2. CASE j # i
    <3>1. AskedOK(j) /\ cAnswer'[j] = cAnswer[j] /\ cLink'[j] = cLink[j]
      BY <1>1, <1>2, <2>2 DEF CheckIInv, Certifier!TypeOK, Certifier!Oracle!TypeOK
    <3>2. Certifier!Waiting(j) => cLink[j] # c
      BY <1>1, <3>1 DEF AskedOK
    <3>3. QED
      BY <1>1, <1>2, <1>6, <3>1, <3>2
         DEF AskedOK, CheckSilent, Certifier!Waiting, Certifier!TypeOK
  <2>3. QED
    BY <2>1, <2>2
<1>9. ASSUME NEW k \in Hashes PROVE Certifier!CertifiedByVerdict(k)'
  <2>1. Certifier!HeardTrue(k)' = Certifier!HeardTrue(k)
    <3>1. Certifier!HeardTrue(k) = CertifiedChecks(k)
      BY HeardTrueOf DEF CheckIInv
    <3>2. Certifier!HeardTrue(k)' = CertifiedChecks(k)'
      BY <1>7, HeardTrueNext
    <3>3. cStatus[c] # "CERTIFIED" /\ cStatus'[c] # "CERTIFIED"
      BY <1>1, <1>2 DEF CheckOK, Certifier!TypeOK
    <3>4. \A d \in Certifier!Checks : d # c => asset'[d] = asset[d] /\ cStatus'[d] = cStatus[d]
      BY <1>1, <1>2 DEF Certifier!TypeOK
    <3>5. QED
      BY <3>1, <3>2, <3>3, <3>4 DEF CertifiedChecks
  <2>2. QED
    BY <1>2, <2>1 DEF CheckIInv, Certifier!CertifiedByVerdict
<1>10. QED
  BY <1>4, <1>7, <1>8, <1>9 DEF CheckIInv

LEMMA CheckOverruledOK ==
  ASSUME CheckIInv, NEW i \in Ids, Certifier!Overruled(i)
  PROVE  CheckIInv'
<1>1. Certifier!TypeOK /\ Certifier!Oracle!TypeOK /\ UNCHANGED Certifier!checkVars
  BY DEF CheckIInv, Certifier!TypeOK, Certifier!Overruled
<1>2. Certifier!Oracle!TypeOK' /\ Certifier!Waiting(i) /\ cHeard' = cHeard /\ cLink' = cLink
  BY <1>1, CheckOverruledType DEF Certifier!Overruled
<1>3. PICK o \in Certifier!Rulings : cAnswer' = [cAnswer EXCEPT ![i] = o]
  BY <1>1, CheckOverruledType DEF Certifier!Overruled
<1>4. o \notin {"UNASKED", "WAITING"} /\ Certifier!TypeOK'
  BY <1>1, <1>2 DEF Certifier!Rulings, Certifier!TypeOK, Certifier!checkVars
<1>5. ASSUME NEW c \in Certifier!Checks PROVE CheckOK(c)'
  BY <1>1, <1>2, <1>3, <1>4
     DEF CheckIInv, CheckOK, Submitted, Certifier!checkVars, Certifier!Oracle!TypeOK
<1>6. ASSUME NEW j \in Ids PROVE AskedOK(j)'
  BY <1>1, <1>2, <1>3, <1>4
     DEF CheckIInv, AskedOK, CheckSilent, Certifier!Waiting, Submitted,
         Certifier!checkVars, Certifier!Oracle!TypeOK
<1>7. ASSUME NEW h \in Hashes PROVE Certifier!CertifiedByVerdict(h)'
  BY <1>1, <1>2
     DEF CheckIInv, Certifier!CertifiedByVerdict, Certifier!HeardTrue,
         Certifier!checkVars
<1>8. QED
  BY <1>4, <1>5, <1>6, <1>7 DEF CheckIInv

(* The answer to question i decides the check it belongs to and no other.  *)
LEMMA CheckVerdictOK ==
  ASSUME CheckIInv, NEW i \in Ids, NEW o \in Certifier!Rulings, Certifier!Verdict(i, o)
  PROVE  CheckIInv'
<1>1. Certifier!TypeOK /\ Certifier!Oracle!TypeOK /\ Certifier!OnVerdict(i, o)
      /\ Certifier!Rule(cLink[i], o)
      /\ UNCHANGED <<nextCheckId, asset, cQuestion>>
  BY DEF CheckIInv, Certifier!TypeOK, Certifier!Verdict
<1>2. /\ Certifier!Oracle!TypeOK' /\ Certifier!Waiting(i) /\ cLink' = cLink
      /\ cAnswer' = [cAnswer EXCEPT ![i] = o]
      /\ cHeard' = [cHeard EXCEPT ![i] = Append(cHeard[i], o)]
  BY <1>1, CheckVerdictType
<1>3. PICK c \in Certifier!Checks : cLink[i] = c /\ Submitted(c) /\ cQuestion[c] = i
  BY <1>2 DEF CheckIInv, AskedOK
<1>4. CheckOK(c) /\ cHeard[i] = <<>> /\ cStatus[c] = "PENDING"
  BY <1>2, <1>3, Different DEF CheckIInv, CheckOK, AskedOK, CheckSilent, Certifier!Waiting
<1>5. cHeard' = [cHeard EXCEPT ![i] = <<o>>] /\ cHeard'[i] = <<o>> /\ cAnswer'[i] = o
      /\ o \notin {"UNASKED", "WAITING"}
  BY <1>1, <1>2, <1>4 DEF Certifier!Oracle!TypeOK, Certifier!Rulings
<1>6. /\ cStatus' = [cStatus EXCEPT ![c] = IF o = "TRUE" THEN "CERTIFIED" ELSE "REJECTED"]
      /\ certificate' = IF o = "TRUE" THEN [certificate EXCEPT ![asset[c]] = c] ELSE certificate
  BY <1>1, <1>3, <1>4 DEF Certifier!Rule
<1>7. Certifier!TypeOK'
  <2>1. asset[c] \in Hashes
    BY <1>3, <1>4 DEF CheckOK
  <2>2. cStatus' \in [Certifier!Checks -> Certifier!CheckStatus]
    BY <1>1, <1>6 DEF Certifier!TypeOK, Certifier!CheckStatus
  <2>3. certificate' \in [Hashes -> Certifier!Checks \cup {0}]
    BY <1>1, <1>6, <2>1 DEF Certifier!TypeOK
  <2>4. QED
    BY <1>1, <1>2, <2>2, <2>3 DEF Certifier!TypeOK
<1>8. \A d \in Certifier!Checks : Submitted(d)' = Submitted(d)
  BY <1>1 DEF Submitted
<1>9. ASSUME NEW d \in Certifier!Checks PROVE CheckOK(d)'
  <2>1. CASE d = c
    BY <1>1, <1>2, <1>3, <1>4, <1>5, <1>6, <1>8, <2>1
       DEF CheckOK, Certifier!TypeOK, Certifier!Oracle!TypeOK, Certifier!Rulings
  <2>2. CASE d # c
    <3>1. CheckOK(d) /\ cStatus'[d] = cStatus[d]
      BY <1>1, <1>6, <2>2 DEF CheckIInv, Certifier!TypeOK
    <3>2. Submitted(d) => cQuestion[d] # i
      BY <1>3, <2>2, <3>1 DEF CheckOK
    <3>3. QED
      BY <1>1, <1>2, <1>5, <1>8, <3>1, <3>2 DEF CheckOK, Certifier!Oracle!TypeOK
  <2>3. QED
    BY <2>1, <2>2
<1>10. ASSUME NEW j \in Ids PROVE AskedOK(j)'
  BY <1>1, <1>2, <1>5, <1>8
     DEF CheckIInv, AskedOK, CheckSilent, Certifier!Waiting, Certifier!Oracle!TypeOK
<1>11. ASSUME NEW h \in Hashes PROVE Certifier!CertifiedByVerdict(h)'
  <2>1. Certifier!HeardTrue(h) = CertifiedChecks(h)
    BY HeardTrueOf DEF CheckIInv
  <2>2. Certifier!HeardTrue(h)' = CertifiedChecks(h)' /\ asset' = asset
    BY <1>1, <1>9, HeardTrueNext
  <2>3. \A d \in Certifier!Checks : d # c => cStatus'[d] = cStatus[d]
    BY <1>1, <1>6 DEF Certifier!TypeOK
  <2>4. cStatus'[c] = IF o = "TRUE" THEN "CERTIFIED" ELSE "REJECTED"
    BY <1>1, <1>6 DEF Certifier!TypeOK
  <2>5. Certifier!CertifiedByVerdict(h) /\ asset[c] \in Hashes
    BY <1>3, <1>4 DEF CheckIInv, CheckOK
  <2>6. CASE o = "TRUE" /\ asset[c] = h
    <3>1. c \in Certifier!HeardTrue(h)'
      BY <2>2, <2>4, <2>6 DEF CertifiedChecks
    <3>2. certificate'[h] = c
      BY <1>1, <1>6, <2>6 DEF Certifier!TypeOK
    <3>3. QED
      BY <3>1, <3>2 DEF Certifier!CertifiedByVerdict
  <2>7. CASE ~(o = "TRUE" /\ asset[c] = h)
    <3>1. Certifier!HeardTrue(h)' = Certifier!HeardTrue(h)
      BY <1>4, <2>1, <2>2, <2>3, <2>4, <2>7 DEF CertifiedChecks
    <3>2. certificate'[h] = certificate[h]
      BY <1>1, <1>6, <2>5, <2>7 DEF Certifier!TypeOK
    <3>3. QED
      BY <2>5, <3>1, <3>2 DEF Certifier!CertifiedByVerdict
  <2>8. QED
    BY <2>6, <2>7
<1>12. QED
  BY <1>7, <1>9, <1>10, <1>11 DEF CheckIInv
-----------------------------------------------------------------------------
LEMMA CheckNextOK == CheckIInv /\ [Certifier!Next]_(Certifier!vars) => CheckIInv'
<1> SUFFICES ASSUME CheckIInv, [Certifier!Next]_(Certifier!vars) PROVE CheckIInv'
  OBVIOUS
<1>1. CASE UNCHANGED Certifier!vars
  <2>1. Certifier!TypeOK' /\ \A c \in Certifier!Checks : CheckOK(c)'
    BY <1>1
       DEF CheckIInv, Certifier!TypeOK, Certifier!Oracle!TypeOK, CheckOK, Submitted,
           Certifier!vars, Certifier!consumerVars, Certifier!checkVars
  <2>2. (\A i \in Ids : AskedOK(i)') /\ \A h \in Hashes : Certifier!CertifiedByVerdict(h)'
    BY <1>1
       DEF CheckIInv, AskedOK, CheckSilent, Certifier!Waiting, Submitted,
           Certifier!CertifiedByVerdict, Certifier!HeardTrue, Certifier!vars,
           Certifier!consumerVars, Certifier!checkVars
  <2>3. QED
    BY <2>1, <2>2 DEF CheckIInv
<1>2. QED
  BY <1>1, CheckSubmitOK, CheckOverruledOK, CheckVerdictOK DEF Certifier!Next

LEMMA CheckInvariant == Certifier!Spec => []CheckIInv
<1>1. Certifier!Init => CheckIInv
  BY CheckInitOK
<1>2. CheckIInv /\ [Certifier!Next]_(Certifier!vars) => CheckIInv'
  BY CheckNextOK
<1>3. QED
  BY <1>1, <1>2, PTL DEF Certifier!Spec

LEMMA ChecksFollow == Certifier!Spec => []Certifier!CheckInv
<1>1. CheckIInv => Certifier!CheckInv
  <2> SUFFICES ASSUME CheckIInv, NEW c \in Certifier!Checks PROVE Certifier!PendingIsLive(c)
    BY DEF CheckIInv, Certifier!CheckInv
  <2>1. CASE Submitted(c)
    <3>1. CheckOK(c) /\ cQuestion[c] # Certifier!NoQuestion /\ cQuestion[c] \in Ids
          /\ CheckSilent(cQuestion[c])
      BY <2>1, Constants DEF CheckIInv, CheckOK, AskedOK
    <3>2. cAnswer[cQuestion[c]] \in Certifier!Rulings \cup {"UNASKED", "WAITING"}
      BY <3>1
         DEF CheckIInv, Certifier!TypeOK, Certifier!Oracle!TypeOK,
             Certifier!Oracle!Rulings, Certifier!Rulings
    <3>3. QED
      BY <2>1, <3>1, <3>2, Different
         DEF CheckOK, Certifier!PendingIsLive, CheckSilent, Certifier!Waiting,
             Certifier!DecidedUnheard
  <2>2. CASE ~Submitted(c)
    BY <2>2 DEF CheckIInv, CheckOK, Certifier!PendingIsLive
  <2>3. QED
    BY <2>1, <2>2
<1>2. QED
  BY <1>1, CheckInvariant, PTL

LEMMA ChecksStay == Certifier!Spec => Certifier!NeverWithdrawn
<1> DEFINE Kept ==
      /\ \A h \in Hashes : certificate[h] # 0 => certificate'[h] # 0
      /\ \A c \in Certifier!Checks :
           cStatus[c] \in {"CERTIFIED", "REJECTED"} => cStatus'[c] = cStatus[c]
<1>1. CheckIInv /\ [Certifier!Next]_(Certifier!vars) => [Kept]_(Certifier!vars)
  <2> SUFFICES ASSUME CheckIInv, Certifier!Next PROVE Kept
    OBVIOUS
  <2>1. Certifier!TypeOK /\ \A c \in Certifier!Checks : c # 0
    BY CheckIds, Constants DEF CheckIInv
  <2>2. ASSUME NEW i \in Ids, NEW h \in Hashes, Certifier!SubmitCheck(h, i) PROVE Kept
    <3>1. nextCheckId \in Certifier!Checks /\ ~Submitted(nextCheckId)
      BY <2>1, <2>2
         DEF Certifier!SubmitCheck, Certifier!TypeOK, Certifier!Checks, Submitted
    <3>2. cStatus[nextCheckId] = "NONE"
      BY <3>1 DEF CheckIInv, CheckOK
    <3>3. QED
      BY <2>1, <2>2, <3>2 DEF Certifier!SubmitCheck, Certifier!TypeOK
  <2>3. ASSUME NEW i \in Ids, NEW o \in Certifier!Rulings, Certifier!Verdict(i, o) PROVE Kept
    <3>1. cLink[i] \in Certifier!Checks
      <4>1. Certifier!Waiting(i)
        BY <2>1, <2>3, CheckVerdictType DEF Certifier!Verdict, Certifier!TypeOK
      <4>2. QED
        BY <4>1 DEF CheckIInv, AskedOK
    <3>2. QED
      BY <2>1, <2>3, <3>1 DEF Certifier!Verdict, Certifier!Rule, Certifier!TypeOK
  <2>4. ASSUME NEW i \in Ids, Certifier!Overruled(i) PROVE Kept
    BY <2>4 DEF Certifier!Overruled, Certifier!checkVars
  <2>5. QED
    BY <2>2, <2>3, <2>4 DEF Certifier!Next
<1>2. QED
  BY <1>1, CheckInvariant, PTL DEF Certifier!Spec, Certifier!NeverWithdrawn
-----------------------------------------------------------------------------
(* A transaction of the vault, with the log of it.                        *)
LEMMA ContractIsVault == Vault!ContractStep /\ vScope \in GrantScopes => Vault!Next
<1> SUFFICES ASSUME Vault!ContractStep, vScope \in GrantScopes PROVE Vault!Next
  OBVIOUS
<1>1. vScope.amounts \subseteq Amounts
  BY SharedTickAssumption DEF Vault!VaultAppAssumption
<1>2. [Slots -> vScope.amounts] \subseteq [Slots -> Amounts]
  BY <1>1
<1>3. QED
  BY <1>2 DEF Vault!ContractStep, Vault!Next

(* A step of the site is a step of the vault or leaves it alone, and so    *)
(* for the certifier: what holds of the contracts holds of the site.       *)
LEMMA VaultStep ==
  ASSUME vScope \in GrantScopes, [Next]_vars
  PROVE  [Vault!Next]_(Vault!vars) /\ vScope' = vScope
<1>1. CASE UNCHANGED vaultContract /\ vScope' = vScope
  BY <1>1 DEF vaultContract, Vault!vars, Vault!consumerVars, Vault!grantVars
<1>2. CASE UNCHANGED vars
  BY <1>1, <1>2 DEF vars, vaultSide
<1>3. CASE Vault!ContractStep /\ UNCHANGED vScope
  BY <1>3, ContractIsVault
<1>4. CASE \E p \in Passes : Vault!PassStep(p)
  BY <1>1, <1>4 DEF Vault!PassStep, vaultContract, Vault!vars, Vault!consumerVars,
                    Vault!grantVars
<1>5. CASE CertifierSteps
  BY <1>1, <1>5 DEF CertifierSteps, vaultSide
<1>6. CASE UNCHANGED <<vaultContract, certifierContract, tables>>
  BY <1>1, <1>6 DEF tables
<1>7. QED
  BY <1>2, <1>3, <1>4, <1>5, <1>6 DEF Next, VaultSteps

LEMMA CertifierStep == [Next]_vars => [Certifier!Next]_(Certifier!vars)
<1> SUFFICES ASSUME [Next]_vars PROVE [Certifier!Next]_(Certifier!vars)
  OBVIOUS
<1>1. CASE UNCHANGED certifierContract
  BY <1>1
     DEF certifierContract, Certifier!vars, Certifier!consumerVars, Certifier!checkVars
<1>2. CASE UNCHANGED vars \/ VaultSteps
  BY <1>1, <1>2 DEF vars, certifierSide, VaultSteps
<1>3. CASE Certifier!ContractStep
  BY <1>3 DEF Certifier!ContractStep, Certifier!Next
<1>4. CASE \E p \in Passes : Certifier!PassStep(p)
  BY <1>1, <1>4 DEF Certifier!PassStep, certifierContract, Certifier!vars,
                    Certifier!consumerVars, Certifier!checkVars
<1>5. CASE UNCHANGED <<vaultContract, certifierContract, tables>>
  BY <1>1, <1>5
<1>6. QED
  BY <1>2, <1>3, <1>4, <1>5 DEF Next, CertifierSteps

(* The indexer and the pages only look at the contracts: under the one     *)
(* timer both behave as they do by themselves.                             *)
THEOREM SiteRunsTheVault == Spec => Vault!Spec
<1>1. Init => Vault!Init /\ vScope \in GrantScopes
  BY DEF Init, Vault!AppInit
<1>2. vScope \in GrantScopes /\ [Next]_vars
        => [Vault!Next]_(Vault!vars) /\ (vScope \in GrantScopes)'
  BY VaultStep
<1>3. QED
  BY <1>1, <1>2, PTL DEF Spec, Vault!Spec

THEOREM SiteRunsTheCertifier == Spec => Certifier!Spec
<1>1. Init => Certifier!Init
  BY DEF Init, Certifier!AppInit
<1>2. QED
  BY <1>1, CertifierStep, PTL DEF Spec, Certifier!Spec

(* Every token that came into the vault is in it, with a grantee or with a *)
(* DAO, a grantee was paid exactly its released milestones, and each of    *)
(* those is released by a TRUE answer to its latest submission: onVerdict  *)
(* never compares the two.                                                 *)
THEOREM VaultCorrect == Spec => []GrantInv
  BY SiteRunsTheVault, GrantInvariant, MoneyInvariant, GrantInvHolds, PTL DEF GrantInv

(* A milestone stays SUBMITTED only while its verdict may come, or because *)
(* the arbitrator decided it without the vault being told.                 *)
THEOREM SubmittedStands ==
  Spec => [](\A g \in Grants, m \in Slots : SubmittedForAReason(g, m))
<1>1. GrantIInv => \A g \in Grants, m \in Slots : SubmittedForAReason(g, m)
  BY DEF GrantIInv, MilestoneOK, SubmittedOK, SubmittedForAReason
<1>2. QED
  BY <1>1, SiteRunsTheVault, GrantInvariant, PTL

(* A grant gives out more than it took in only when its residue was        *)
(* reclaimed and, of its milestones, one was released that the residue     *)
(* covers.                                                                 *)
THEOREM OverpaidOnlyLate == Spec => []OverpaidAfterReclaimOnly
  BY SiteRunsTheVault, MoneyInvariant, OverpaidHolds, PTL DEF OverpaidAfterReclaimOnly

(* A hash is certified exactly when a check of it was answered TRUE, in    *)
(* whatever order the answers came, and a check that still waits was       *)
(* decided over the application's head or not at all.                      *)
THEOREM CertificatesFollow == Spec => []CheckInv
  BY SiteRunsTheCertifier, ChecksFollow, PTL DEF CheckInv

(* No step takes a certificate away or decides a check a second time.      *)
THEOREM CertificatesStay == Spec => Certifier!NeverWithdrawn
  BY SiteRunsTheCertifier, ChecksStay, PTL
-----------------------------------------------------------------------------
(* The table of the grants.                                                *)

LEMMA SamePasses == Vault!Passes = Passes /\ Certifier!Passes = Passes
  BY DEF Vault!Passes, Certifier!Passes, Passes

LEMMA Counts == ASSUME NEW S PROVE Vault!Cardinality(S) = Cardinality(S)
  BY DEF Vault!Cardinality, Cardinality

AGrantEvent ==
  [kind : {"GrantCreated", "MilestoneReleased", "GrantReclaimed"}, grant : Grants, amount : Nat]

Founds(g, n) == vEvents[n].grant = g /\ vEvents[n].kind = "GrantCreated"

(* What each event took out of a grant, and whether it paid a milestone.   *)
Gains(g) ==
  [n \in 1..Len(vEvents) |->
     IF vEvents[n].grant = g /\ vEvents[n].kind = "MilestoneReleased" THEN vEvents[n].amount
     ELSE IF vEvents[n].grant = g /\ vEvents[n].kind = "GrantReclaimed" THEN residue[g] ELSE 0]

Hits(g) ==
  [n \in 1..Len(vEvents) |->
     IF vEvents[n].grant = g /\ vEvents[n].kind = "MilestoneReleased" THEN 1 ELSE 0]

(* The grant's totals as the first k events tell them.                     *)
GoneBy(g, k) == SumFunctionOnSet(Gains(g), 1..k)
PaidBy(g, k) == SumFunctionOnSet(Hits(g), 1..k)

(* The log of a grant begins with its creation and tells what it has paid; *)
(* a reclaim brings what is gone to the total.                             *)
GrantTold(g) ==
  /\ g \in created => \E n \in 1..Len(vEvents) : Founds(g, n)
  /\ \A n \in 1..Len(vEvents) : vEvents[n].grant = g =>
       /\ g \in created
       /\ \E m \in 1..n : Founds(g, m)
       /\ vEvents[n].kind = "GrantReclaimed" => g \in reclaimed /\ GoneBy(g, n) = Funded(g)
  /\ GoneBy(g, Len(vEvents)) = GivenOut(g)
  /\ PaidBy(g, Len(vEvents)) = Cardinality(Vault!ReleasedSlots(g))

(* What the row says when k events have been handled: no less than they    *)
(* tell, and exactly that if none was handled twice.                       *)
Counted(g, k) ==
  /\ \A n \in 1..k : Founds(g, n) => vRow[g].known
  /\ PaidBy(g, k) <= vRow[g].count

Covered(g, k) == GoneBy(g, k) <= vRow[g].released

Exact(g, k) == vRow[g].released = GoneBy(g, k) /\ vRow[g].count = PaidBy(g, k)

(* Without a straggler there is one pass, which the checkpoint is behind.  *)
(* Without a fault the tick waits for it.                                  *)
VaultInOrder ==
  /\ ~vStraggled =>
       /\ \A p, q \in Passes : Vault!Running(p) /\ Vault!Running(q) => p = q
       /\ \A p \in Passes : Vault!Running(p) => vCheckpoint <= vPass[p].at
  /\ faults = 0 => ~vStraggled /\ \A p \in Passes : Vault!Running(p) <=> p \in vAwaited

GrantFollowed(g) ==
  /\ Counted(g, vCheckpoint)
  /\ \A p \in Passes : Vault!Running(p) => Counted(g, vPass[p].at)
  /\ ~vStraggled =>
       /\ Covered(g, vCheckpoint)
       /\ \A p \in Passes : Vault!Running(p) => Covered(g, vPass[p].at)
  /\ faults = 0 =>
       /\ (\A p \in Passes : ~Vault!Running(p)) => Exact(g, vCheckpoint)
       /\ \A p \in Passes : Vault!Running(p) => Exact(g, vPass[p].at)

(* The inductive invariant of the grants table.                            *)
VaultSite ==
  /\ GrantIInv /\ MoneyInv
  /\ Vault!AppTypeOK
  /\ vEvents \in Seq(AGrantEvent)
  /\ \A g \in Grants : ~vRow[g].known => vRow[g] = Vault!NoRow
  /\ VaultInOrder
  /\ ~vScope.followed => vEvents = <<>>
  /\ vScope.followed => \A g \in Grants : GrantTold(g) /\ GrantFollowed(g)

LEMMA GrantLogGrows ==
  ASSUME vEvents \in Seq(AGrantEvent), NEW ev \in AGrantEvent, vEvents' = Append(vEvents, ev)
  PROVE  /\ vEvents' \in Seq(AGrantEvent)
         /\ Len(vEvents) \in Nat /\ Len(vEvents') = Len(vEvents) + 1
         /\ \A n \in 1..Len(vEvents) : vEvents'[n] = vEvents[n]
         /\ vEvents'[Len(vEvents) + 1] = ev
  OBVIOUS

LEMMA TellingTypes ==
  ASSUME MoneyTyped, vEvents \in Seq(AGrantEvent), NEW g \in Grants
  PROVE  /\ Len(vEvents) \in Nat
         /\ \A n \in 1..Len(vEvents) :
              vEvents[n] \in AGrantEvent /\ Gains(g)[n] \in Nat /\ Hits(g)[n] \in Nat
<1>1. Len(vEvents) \in Nat /\ \A n \in 1..Len(vEvents) : vEvents[n] \in AGrantEvent
  OBVIOUS
<1>2. residue[g] \in Nat
  BY DEF MoneyTyped
<1>3. QED
  BY <1>1, <1>2 DEF Gains, Hits, AGrantEvent

(* The totals only grow along the log.                                     *)
LEMMA TotalsGrow ==
  ASSUME MoneyTyped, vEvents \in Seq(AGrantEvent), NEW g \in Grants,
         NEW k \in 0..Len(vEvents), NEW j \in 0..k
  PROVE  /\ GoneBy(g, j) \in Nat /\ GoneBy(g, k) \in Nat /\ GoneBy(g, j) <= GoneBy(g, k)
         /\ PaidBy(g, j) \in Nat /\ PaidBy(g, k) \in Nat /\ PaidBy(g, j) <= PaidBy(g, k)
<1>1. /\ j \in Nat /\ k \in Nat /\ j <= k
      /\ \A n \in 1..k : Gains(g)[n] \in Nat /\ Hits(g)[n] \in Nat
  BY TellingTypes
<1>2. QED
  BY <1>1, SumGrows DEF GoneBy, PaidBy

(* What the next event tells of a grant.                                   *)
LEMMA TotalsNext ==
  ASSUME MoneyTyped, vEvents \in Seq(AGrantEvent), NEW g \in Grants,
         NEW k \in Nat, k + 1 \in 1..Len(vEvents)
  PROVE  /\ GoneBy(g, k + 1) = GoneBy(g, k) + Gains(g)[k + 1]
         /\ PaidBy(g, k + 1) = PaidBy(g, k) + Hits(g)[k + 1]
<1>1. \A n \in 1..(k + 1) : Gains(g)[n] \in Int /\ Hits(g)[n] \in Int
  BY TellingTypes
<1>2. QED
  BY <1>1, SumNext DEF GoneBy, PaidBy

LEMMA TotalsStart == ASSUME NEW g PROVE GoneBy(g, 0) = 0 /\ PaidBy(g, 0) = 0
<1>1. 1..0 = {}
  OBVIOUS
<1>2. QED
  BY <1>1, SumEmpty DEF GoneBy, PaidBy

(* An event that is added changes no total before it, nor does a residue   *)
(* that no event has told of.                                              *)
LEMMA TotalsStill ==
  ASSUME MoneyTyped, vEvents \in Seq(AGrantEvent), NEW g \in Grants, NEW k \in 0..Len(vEvents),
         UNCHANGED vEvents \/ \E ev \in AGrantEvent : vEvents' = Append(vEvents, ev),
         \/ residue'[g] = residue[g]
         \/ \A n \in 1..k : ~(vEvents[n].grant = g /\ vEvents[n].kind = "GrantReclaimed")
  PROVE  GoneBy(g, k)' = GoneBy(g, k) /\ PaidBy(g, k)' = PaidBy(g, k)
<1>1. \A n \in 1..k : n \in 1..Len(vEvents) /\ n \in 1..Len(vEvents') /\ vEvents'[n] = vEvents[n]
  BY GrantLogGrows
<1>2. \A n \in 1..k : Gains(g)'[n] = Gains(g)[n] /\ Hits(g)'[n] = Hits(g)[n]
  BY <1>1 DEF Gains, Hits
<1>3. IsFiniteSet(1..k)
  BY FS_Interval
<1>4. QED
  BY <1>2, <1>3, SumSame DEF GoneBy, PaidBy

(* The totals of a log to which an event was added.                        *)
LEMMA TotalsAdd ==
  ASSUME MoneyTyped, residue' \in [Grants -> Nat], vEvents \in Seq(AGrantEvent), NEW g \in Grants,
         NEW ev \in AGrantEvent, vEvents' = Append(vEvents, ev), NEW L, L = Len(vEvents)
  PROVE  /\ GoneBy(g, L + 1)' = GoneBy(g, L)' +
              (IF ev.grant = g /\ ev.kind = "MilestoneReleased" THEN ev.amount
               ELSE IF ev.grant = g /\ ev.kind = "GrantReclaimed" THEN residue'[g] ELSE 0)
         /\ PaidBy(g, L + 1)' = PaidBy(g, L)' +
              (IF ev.grant = g /\ ev.kind = "MilestoneReleased" THEN 1 ELSE 0)
<1>1. /\ L \in Nat /\ Len(vEvents') = L + 1 /\ vEvents'[L + 1] = ev /\ L + 1 \in 1..(L + 1)
      /\ \A n \in 1..(L + 1) : vEvents'[n] \in AGrantEvent
  BY GrantLogGrows
<1>2. residue'[g] \in Nat /\ ev.amount \in Nat
  BY DEF AGrantEvent
<1>3. \A n \in 1..(L + 1) : Gains(g)'[n] \in Int /\ Hits(g)'[n] \in Int
  BY <1>1, <1>2 DEF Gains, Hits, AGrantEvent
<1>4. /\ GoneBy(g, L + 1)' = GoneBy(g, L)' + Gains(g)'[L + 1]
      /\ PaidBy(g, L + 1)' = PaidBy(g, L)' + Hits(g)'[L + 1]
  BY <1>1, <1>3, SumNext DEF GoneBy, PaidBy
<1>5. /\ Gains(g)'[L + 1] =
           IF ev.grant = g /\ ev.kind = "MilestoneReleased" THEN ev.amount
           ELSE IF ev.grant = g /\ ev.kind = "GrantReclaimed" THEN residue'[g] ELSE 0
      /\ Hits(g)'[L + 1] = IF ev.grant = g /\ ev.kind = "MilestoneReleased" THEN 1 ELSE 0
  BY <1>1 DEF Gains, Hits
<1>6. QED
  BY <1>4, <1>5

(* What is told of a grant stays true, whatever else happens to it.        *)
LEMMA StillTold ==
  ASSUME MoneyTyped, vEvents \in Seq(AGrantEvent), NEW g \in Grants, GrantTold(g),
         UNCHANGED vEvents \/ \E ev \in AGrantEvent : vEvents' = Append(vEvents, ev),
         g \in created => g \in created' /\ Funded(g)' = Funded(g),
         g \in reclaimed => g \in reclaimed' /\ residue'[g] = residue[g],
         NEW n \in 1..Len(vEvents), vEvents[n].grant = g
  PROVE  /\ n \in 1..Len(vEvents') /\ vEvents'[n] = vEvents[n]
         /\ g \in created'
         /\ (\E m \in 1..n : Founds(g, m))'
         /\ vEvents[n].kind = "GrantReclaimed" => g \in reclaimed' /\ GoneBy(g, n)' = Funded(g)'
<1>1. \A m \in 1..Len(vEvents) : m \in 1..Len(vEvents') /\ vEvents'[m] = vEvents[m]
  BY GrantLogGrows
<1>2. g \in created /\ \E m \in 1..n : Founds(g, m)
  BY DEF GrantTold
<1>3. (\E m \in 1..n : Founds(g, m))'
  BY <1>1, <1>2 DEF Founds
<1>4. ASSUME vEvents[n].kind = "GrantReclaimed"
      PROVE  g \in reclaimed' /\ GoneBy(g, n)' = Funded(g)'
  <2>1. g \in reclaimed /\ GoneBy(g, n) = Funded(g) /\ n \in 0..Len(vEvents)
    BY <1>4 DEF GrantTold
  <2>2. QED
    BY <1>2, <2>1, TotalsStill
<1>5. QED
  BY <1>1, <1>2, <1>3, <1>4

(* An event of another grant, or none.                                     *)
LEMMA ToldAside ==
  ASSUME MoneyTyped, MoneyTyped', vEvents \in Seq(AGrantEvent), NEW g \in Grants, GrantTold(g),
         UNCHANGED vEvents \/ \E ev \in AGrantEvent : ev.grant # g /\ vEvents' = Append(vEvents, ev),
         g \in created' <=> g \in created, g \in created => Funded(g)' = Funded(g),
         g \in reclaimed => g \in reclaimed',
         residue'[g] = residue[g], released'[g] = released[g],
         Vault!ReleasedSlots(g)' = Vault!ReleasedSlots(g)
  PROVE  GrantTold(g)'
<1>1. PICK L : L = Len(vEvents)
  OBVIOUS
<1>2. L \in Nat /\ GoneBy(g, L) = GivenOut(g) /\ PaidBy(g, L) = Cardinality(Vault!ReleasedSlots(g))
  BY <1>1, GrantLogGrows DEF GrantTold
<1>3. GoneBy(g, L)' = GoneBy(g, L) /\ PaidBy(g, L)' = PaidBy(g, L)
  BY <1>1, <1>2, TotalsStill
<1>4. GivenOut(g)' = GivenOut(g) /\ GivenOut(g) \in Nat /\ PaidBy(g, L) \in Nat
  BY <1>1, <1>2, TotalsGrow DEF GivenOut, MoneyTyped
<1>5. ASSUME NEW n \in 1..Len(vEvents'), vEvents'[n].grant = g
      PROVE  n \in 1..Len(vEvents) /\ vEvents[n].grant = g
  BY <1>5, GrantLogGrows
<1>6. GoneBy(g, Len(vEvents))' = GivenOut(g)'
      /\ PaidBy(g, Len(vEvents))' = Cardinality(Vault!ReleasedSlots(g))'
  <2>1. CASE UNCHANGED vEvents
    BY <1>1, <1>2, <1>3, <1>4, <2>1 DEF GoneBy, PaidBy
  <2>2. ASSUME NEW ev \in AGrantEvent, ev.grant # g, vEvents' = Append(vEvents, ev)
        PROVE  <1>6!:
    <3>1. Len(vEvents') = L + 1
      BY <1>1, <2>2, GrantLogGrows
    <3>2. GoneBy(g, L + 1)' = GoneBy(g, L)' + 0 /\ PaidBy(g, L + 1)' = PaidBy(g, L)' + 0
      BY <1>1, <2>2, TotalsAdd DEF MoneyTyped
    <3>3. GoneBy(g, L + 1)' = GivenOut(g)'
          /\ PaidBy(g, L + 1)' = Cardinality(Vault!ReleasedSlots(g))'
      BY <1>2, <1>3, <1>4, <3>2
    <3>4. QED
      BY <3>1, <3>3 DEF GoneBy, PaidBy
  <2>3. QED
    BY <2>1, <2>2
<1>7. g \in created' => (\E n \in 1..Len(vEvents) : Founds(g, n))'
  <2>1. \A n \in 1..Len(vEvents) : n \in 1..Len(vEvents') /\ vEvents'[n] = vEvents[n]
    BY GrantLogGrows
  <2>2. QED
    BY <2>1 DEF GrantTold, Founds
<1>8. ASSUME NEW n \in 1..Len(vEvents'), vEvents'[n].grant = g
      PROVE  /\ g \in created'
             /\ (\E m \in 1..n : Founds(g, m))'
             /\ vEvents'[n].kind = "GrantReclaimed" =>
                  g \in reclaimed' /\ GoneBy(g, n)' = Funded(g)'
  BY <1>5, <1>8, StillTold
<1>9. QED
  BY <1>6, <1>7, <1>8 DEF GrantTold

(* An event of the grant itself.                                           *)
LEMMA ToldOwn ==
  ASSUME MoneyTyped, MoneyTyped', vEvents \in Seq(AGrantEvent), NEW g \in Grants, GrantTold(g),
         NEW ev \in AGrantEvent, ev.grant = g, vEvents' = Append(vEvents, ev),
         g \in created', ev.kind = "GrantCreated" \/ g \in created,
         g \in created => Funded(g)' = Funded(g),
         g \in reclaimed => g \in reclaimed' /\ residue'[g] = residue[g],
         ev.kind = "GrantReclaimed" => g \in reclaimed' /\ GivenOut(g)' = Funded(g)',
         GivenOut(g)' = GivenOut(g) +
           (IF ev.kind = "MilestoneReleased" THEN ev.amount
            ELSE IF ev.kind = "GrantReclaimed" THEN residue'[g] ELSE 0),
         Cardinality(Vault!ReleasedSlots(g))' = Cardinality(Vault!ReleasedSlots(g)) +
           (IF ev.kind = "MilestoneReleased" THEN 1 ELSE 0)
  PROVE  GrantTold(g)'
<1>1. PICK L : L = Len(vEvents)
  OBVIOUS
<1>2. L \in Nat /\ GoneBy(g, L) = GivenOut(g) /\ PaidBy(g, L) = Cardinality(Vault!ReleasedSlots(g))
  BY <1>1, GrantLogGrows DEF GrantTold
<1>3. /\ Len(vEvents') = L + 1 /\ L + 1 \in 1..(L + 1) /\ vEvents'[L + 1] = ev
      /\ \A n \in 1..L : vEvents'[n] = vEvents[n]
  BY <1>1, GrantLogGrows
<1>4. \/ residue'[g] = residue[g]
      \/ \A n \in 1..L : ~(vEvents[n].grant = g /\ vEvents[n].kind = "GrantReclaimed")
  BY <1>1 DEF GrantTold
<1>5. GoneBy(g, L)' = GoneBy(g, L) /\ PaidBy(g, L)' = PaidBy(g, L)
  BY <1>1, <1>2, <1>4, TotalsStill
<1>6. /\ GoneBy(g, L + 1)' = GoneBy(g, L)' +
           (IF ev.kind = "MilestoneReleased" THEN ev.amount
            ELSE IF ev.kind = "GrantReclaimed" THEN residue'[g] ELSE 0)
      /\ PaidBy(g, L + 1)' = PaidBy(g, L)' + (IF ev.kind = "MilestoneReleased" THEN 1 ELSE 0)
  BY <1>1, TotalsAdd DEF MoneyTyped
<1>7. /\ GoneBy(g, L + 1)' = GivenOut(g)'
      /\ PaidBy(g, L + 1)' = Cardinality(Vault!ReleasedSlots(g))'
  BY <1>2, <1>5, <1>6
<1>8. GoneBy(g, Len(vEvents))' = GivenOut(g)'
      /\ PaidBy(g, Len(vEvents))' = Cardinality(Vault!ReleasedSlots(g))'
  BY <1>3, <1>7 DEF GoneBy, PaidBy
<1>9. (\E m \in 1..(L + 1) : Founds(g, m))'
  <2>1. CASE ev.kind = "GrantCreated"
    BY <1>3, <2>1 DEF Founds
  <2>2. CASE g \in created
    <3>1. PICK m \in 1..L : Founds(g, m)
      BY <1>1, <2>2 DEF GrantTold
    <3>2. m \in 1..(L + 1)
      BY <1>2
    <3>3. QED
      BY <1>3, <3>1, <3>2 DEF Founds
  <2>3. QED
    BY <2>1, <2>2
<1>10. ASSUME NEW n \in 1..Len(vEvents'), vEvents'[n].grant = g
       PROVE  /\ (\E m \in 1..n : Founds(g, m))'
              /\ vEvents'[n].kind = "GrantReclaimed" =>
                   g \in reclaimed' /\ GoneBy(g, n)' = Funded(g)'
  <2>1. CASE n = L + 1
    BY <1>3, <1>7, <1>9, <2>1
  <2>2. CASE n # L + 1
    <3>1. n \in 1..L /\ vEvents[n].grant = g
      BY <1>2, <1>3, <1>10, <2>2
    <3>2. QED
      BY <1>1, <3>1, StillTold
  <2>3. QED
    BY <2>1, <2>2
<1>11. (\E n \in 1..Len(vEvents) : Founds(g, n))'
  BY <1>3, <1>9 DEF Founds
<1>12. QED
  BY <1>8, <1>10, <1>11 DEF GrantTold

LEMMA CreationTold ==
  ASSUME GrantIInv, MoneyInv, MoneyInv', vEvents \in Seq(AGrantEvent), NEW g \in Grants,
         \A h \in Grants : GrantTold(h), NEW amounts, Vault!CreateGrant(g, amounts),
         vEvents' = Append(vEvents, Vault!Event("GrantCreated", g, 0)), NEW h \in Grants
  PROVE  GrantTold(h)'
<1> DEFINE ev == Vault!Event("GrantCreated", g, 0)
<1>1. ev \in AGrantEvent /\ ev.grant = g /\ ev.kind = "GrantCreated"
  BY DEF Vault!Event, AGrantEvent
<1>2. MoneyTyped /\ MoneyTyped'
  BY DEF MoneyInv
<1>3. /\ g \notin created /\ created' = created \cup {g}
      /\ amount' = [amount EXCEPT ![g] = amounts]
      /\ UNCHANGED <<vStatus, released, reclaimed, residue>>
  BY DEF Vault!CreateGrant
<1>4. Vault!ReleasedSlots(h)' = Vault!ReleasedSlots(h) /\ GivenOut(h)' = GivenOut(h)
  BY <1>3 DEF Vault!ReleasedSlots, GivenOut
<1>5. h # g => Funded(h)' = Funded(h)
  BY <1>2, <1>3 DEF MoneyTyped, Funded
<1>6. vEvents' = Append(vEvents, ev)
  OBVIOUS
<1>7. CASE h # g
  BY <1>1, <1>2, <1>3, <1>4, <1>5, <1>6, <1>7, ToldAside
<1>8. CASE h = g
  <2>1. /\ GivenOut(g) \in Nat
        /\ Cardinality(Vault!ReleasedSlots(g)) \in Nat
    <3>1. PICK L : L = Len(vEvents)
      OBVIOUS
    <3>2. L \in 0..Len(vEvents) /\ GrantTold(g)
      BY <3>1, GrantLogGrows, <1>1
    <3>3. QED
      BY <1>2, <3>1, <3>2, TotalsGrow DEF GrantTold
  <2>2. QED
    BY <1>1, <1>2, <1>3, <1>4, <1>6, <1>8, <2>1, ToldOwn
<1>9. QED
  BY <1>7, <1>8

LEMMA ReclaimTold ==
  ASSUME GrantIInv, MoneyInv, MoneyInv', vEvents \in Seq(AGrantEvent), NEW g \in Grants,
         \A h \in Grants : GrantTold(h), Vault!Reclaim(g),
         vEvents' = Append(vEvents, Vault!Event("GrantReclaimed", g, 0)), NEW h \in Grants
  PROVE  GrantTold(h)'
<1> DEFINE ev == Vault!Event("GrantReclaimed", g, 0)
           rest == Funded(g) - released[g]
<1>1. ev \in AGrantEvent /\ ev.grant = g /\ ev.kind = "GrantReclaimed"
  BY DEF Vault!Event, AGrantEvent
<1>2. MoneyTyped /\ MoneyTyped'
  BY DEF MoneyInv
<1>3. /\ g \in expired /\ g \notin reclaimed /\ reclaimed' = reclaimed \cup {g}
      /\ residue' = [residue EXCEPT ![g] = rest]
      /\ UNCHANGED <<created, amount, vStatus, released>>
  BY GrantSums DEF Vault!Reclaim, Vault!CanReclaim, Vault!TotalAmount, Vault!SumOf, Funded
<1>4. g \in created /\ residue[g] = 0
  BY <1>2, <1>3 DEF MoneyInv, MoneyTyped, GrantBooks
<1>5. Vault!ReleasedSlots(h)' = Vault!ReleasedSlots(h) /\ Funded(h)' = Funded(h)
  BY <1>3 DEF Vault!ReleasedSlots, Funded
<1>6. vEvents' = Append(vEvents, ev)
  OBVIOUS
<1>7. CASE h # g
  <2>1. residue'[h] = residue[h] /\ (h \in reclaimed => h \in reclaimed')
    BY <1>2, <1>3, <1>7 DEF MoneyTyped
  <2>2. QED
    BY <1>1, <1>2, <1>3, <1>5, <1>6, <1>7, <2>1, ToldAside
<1>8. CASE h = g
  <2>1. residue'[g] = rest /\ Funded(g) \in Nat /\ released[g] \in Nat
    BY <1>2, <1>3, FundedNat DEF MoneyTyped
  <2>2. GivenOut(g) = released[g] /\ GivenOut(g)' = Funded(g)
    BY <1>3, <1>4, <2>1 DEF GivenOut
  <2>3. /\ GivenOut(g)' = GivenOut(g) + residue'[g]
        /\ GivenOut(g)' = Funded(g)'
    BY <1>5, <1>8, <2>1, <2>2
  <2>4. Cardinality(Vault!ReleasedSlots(g)) \in Nat
    <3>1. PICK L : L = Len(vEvents)
      OBVIOUS
    <3>2. L \in 0..Len(vEvents) /\ GrantTold(g)
      BY <3>1, GrantLogGrows, <1>1
    <3>3. QED
      BY <1>2, <3>1, <3>2, TotalsGrow DEF GrantTold
  <2>5. Cardinality(Vault!ReleasedSlots(g))' = Cardinality(Vault!ReleasedSlots(g)) + 0
    BY <1>5, <1>8, <2>4
  <2>6. QED
    BY <1>1, <1>2, <1>3, <1>4, <1>5, <1>6, <1>8, <2>3, <2>5, ToldOwn
<1>9. QED
  BY <1>7, <1>8

LEMMA ReleaseTold ==
  ASSUME GrantIInv, MoneyInv, MoneyInv', vEvents \in Seq(AGrantEvent),
         NEW g \in Grants, NEW m \in Slots, \A h \in Grants : GrantTold(h),
         vStatus[g][m] = "SUBMITTED", vStatus' = [vStatus EXCEPT ![g][m] = "RELEASED"],
         released' = [released EXCEPT ![g] = @ + amount[g][m]],
         UNCHANGED <<created, amount, reclaimed, residue>>,
         vEvents' = Append(vEvents, Vault!Event("MilestoneReleased", g, amount[g][m])),
         NEW h \in Grants
  PROVE  GrantTold(h)'
<1> DEFINE ev == Vault!Event("MilestoneReleased", g, amount[g][m])
<1>1. MoneyTyped /\ MoneyTyped' /\ amount[g][m] \in Nat
  BY AmountNat DEF MoneyInv
<1>2. /\ ev \in AGrantEvent /\ ev.grant = g /\ ev.kind = "MilestoneReleased"
      /\ ev.amount = amount[g][m]
  BY <1>1 DEF Vault!Event, AGrantEvent
<1>3. Funded(h)' = Funded(h)
  BY DEF Funded
<1>4. vEvents' = Append(vEvents, ev)
  OBVIOUS
<1>5. CASE h # g
  <2>1. released'[h] = released[h] /\ vStatus'[h] = vStatus[h]
    BY <1>1, <1>5 DEF MoneyTyped, GrantIInv, GrantTyped
  <2>2. Vault!ReleasedSlots(h)' = Vault!ReleasedSlots(h)
    BY <2>1 DEF Vault!ReleasedSlots
  <2>3. QED
    BY <1>1, <1>2, <1>3, <1>4, <1>5, <2>1, <2>2, ToldAside
<1>6. CASE h = g
  <2>1. g \in created
    BY DEF MoneyInv, GrantBooks, Blank
  <2>2. released'[g] = released[g] + amount[g][m] /\ released[g] \in Nat /\ residue[g] \in Nat
    BY <1>1 DEF MoneyTyped
  <2>3. GivenOut(g)' = GivenOut(g) + amount[g][m]
    BY <1>1, <2>2 DEF GivenOut
  <2>4. /\ m \notin Vault!ReleasedSlots(g)
        /\ Vault!ReleasedSlots(g)' = Vault!ReleasedSlots(g) \cup {m}
    BY DEF Vault!ReleasedSlots, GrantIInv, GrantTyped
  <2>5. IsFiniteSet(Vault!ReleasedSlots(g))
    BY Constants, FS_Subset DEF Vault!ReleasedSlots
  <2>6. Cardinality(Vault!ReleasedSlots(g))' = Cardinality(Vault!ReleasedSlots(g)) + 1
    BY <2>4, <2>5, FS_AddElement
  <2>7. QED
    BY <1>1, <1>2, <1>3, <1>4, <1>6, <2>1, <2>3, <2>6, ToldOwn
<1>7. QED
  BY <1>5, <1>6

(* The indexer keeps its types, whatever it does.                          *)

(* What the tick, the other side and the service do to the vault's passes. *)
VaultTurn ==
  \/ \E p \in Passes : Vault!StartPass(p) \/ Vault!SaveCheckpoint(p) \/ Vault!Throw(p)
  \/ Vault!Fault /\ vAwaited' \in {{}, vAwaited} /\ UNCHANGED vPass
  \/ Vault!Stop
  \/ UNCHANGED <<vaultIndexer, faults>>

LEMMA VaultPassType ==
  ASSUME Vault!IndexerTypeOK, NEW p \in Passes
  PROVE  /\ vPass[p] \in [at : Nat, to : 0..Len(vEvents)]
         /\ vPass[p].at \in Nat /\ vPass[p].at <= vPass[p].to
  BY SamePasses DEF Vault!IndexerTypeOK

LEMMA VaultTurnTypes ==
  ASSUME Vault!IndexerTypeOK, vEvents \in Seq(AGrantEvent), VaultTurn
  PROVE  Vault!IndexerTypeOK'
<1>1. Len(vEvents) \in Nat /\ 0 \in 0..Len(vEvents) /\ MaxFaults \in Nat
  BY SharedTickAssumption DEF Vault!IndexerAssumption
<1>2. Vault!NoPass \in [at : Nat, to : 0..Len(vEvents)] /\ Vault!NoPass.at <= Vault!NoPass.to
  BY <1>1 DEF Vault!NoPass
<1>3. ASSUME NEW p \in Passes, Vault!StartPass(p) PROVE Vault!IndexerTypeOK'
  <2>1. [at |-> vCheckpoint, to |-> Len(vEvents)] \in [at : Nat, to : 0..Len(vEvents)]
        /\ vCheckpoint <= Len(vEvents)
    BY <1>1 DEF Vault!IndexerTypeOK
  <2>2. vStraggled' \in BOOLEAN
    BY <1>3 DEF Vault!StartPass, Vault!IndexerTypeOK
  <2>3. QED
    BY <1>1, <1>3, <2>1, <2>2, SamePasses DEF Vault!StartPass, Vault!IndexerTypeOK
<1>4. ASSUME NEW p \in Passes, Vault!SaveCheckpoint(p) PROVE Vault!IndexerTypeOK'
  BY <1>2, <1>4, SamePasses DEF Vault!SaveCheckpoint, Vault!End, Vault!IndexerTypeOK
<1>5. ASSUME NEW p \in Passes, Vault!Throw(p) PROVE Vault!IndexerTypeOK'
  BY <1>1, <1>2, <1>5, SamePasses DEF Vault!Throw, Vault!Fault, Vault!IndexerTypeOK
<1>6. CASE Vault!Fault /\ vAwaited' \in {{}, vAwaited} /\ UNCHANGED vPass
  BY <1>1, <1>6 DEF Vault!Fault, Vault!IndexerTypeOK
<1>7. CASE Vault!Stop
  BY <1>1, <1>2, <1>7 DEF Vault!Stop, Vault!Fault, Vault!IndexerTypeOK
<1>8. CASE UNCHANGED <<vaultIndexer, faults>>
  BY <1>8 DEF vaultIndexer, Vault!IndexerTypeOK
<1>9. QED
  BY <1>3, <1>4, <1>5, <1>6, <1>7, <1>8 DEF VaultTurn

LEMMA VaultLogTypes ==
  ASSUME Vault!IndexerTypeOK, vEvents \in Seq(AGrantEvent),
         NEW ev \in AGrantEvent, Vault!Emit(ev)
  PROVE  Vault!IndexerTypeOK'
<1>1. 0..Len(vEvents) \subseteq 0..Len(vEvents')
  BY GrantLogGrows DEF Vault!Emit
<1>2. QED
  BY <1>1 DEF Vault!Emit, Vault!IndexerTypeOK

LEMMA VaultHandleTypes ==
  ASSUME Vault!IndexerTypeOK, vEvents \in Seq(AGrantEvent), NEW p \in Passes, Vault!HandleNext(p)
  PROVE  Vault!IndexerTypeOK'
<1>1. vPass[p].at + 1 \in Nat /\ vPass[p].at + 1 <= vPass[p].to
  BY VaultPassType DEF Vault!HandleNext, Vault!Pending
<1>2. QED
  BY <1>1, SamePasses DEF Vault!HandleNext, Vault!IndexerTypeOK

(* What the rows say of events that were handled stands when others come.  *)
LEMMA FollowedStill ==
  ASSUME VaultSite, MoneyTyped', NEW g \in Grants, GrantTold(g), GrantFollowed(g), vRow' = vRow,
         UNCHANGED <<vCheckpoint, vPass, vStraggled, faults>>,
         UNCHANGED vEvents \/ \E ev \in AGrantEvent : vEvents' = Append(vEvents, ev),
         g \in reclaimed => residue'[g] = residue[g]
  PROVE  GrantFollowed(g)'
<1>1. MoneyTyped /\ vEvents \in Seq(AGrantEvent) /\ Vault!IndexerTypeOK
  BY DEF VaultSite, MoneyInv, Vault!AppTypeOK
<1>2. ASSUME NEW k \in 0..Len(vEvents)
      PROVE  /\ GoneBy(g, k)' = GoneBy(g, k) /\ PaidBy(g, k)' = PaidBy(g, k)
             /\ \A n \in 1..k : Founds(g, n)' <=> Founds(g, n)
  <2>1. \A n \in 1..k : n \in 1..Len(vEvents) /\ vEvents'[n] = vEvents[n]
    BY <1>1, GrantLogGrows
  <2>2. \/ residue'[g] = residue[g]
        \/ \A n \in 1..k : ~(vEvents[n].grant = g /\ vEvents[n].kind = "GrantReclaimed")
    BY <2>1 DEF GrantTold
  <2>3. QED
    BY <1>1, <2>1, <2>2, TotalsStill DEF Founds
<1>3. ASSUME NEW k \in 0..Len(vEvents)
      PROVE  /\ Counted(g, k) => Counted(g, k)'
             /\ Covered(g, k) => Covered(g, k)'
             /\ Exact(g, k) => Exact(g, k)'
  BY <1>2 DEF Counted, Covered, Exact
<1>4. PICK c : c = vCheckpoint
  OBVIOUS
<1>5. c \in 0..Len(vEvents) /\ c = vCheckpoint'
  BY <1>1, <1>4 DEF Vault!IndexerTypeOK
<1>6. /\ Counted(g, vCheckpoint)' /\ (Covered(g, vCheckpoint) => Covered(g, vCheckpoint)')
      /\ Exact(g, vCheckpoint) => Exact(g, vCheckpoint)'
  <2>1. Counted(g, c)' /\ (Covered(g, c) => Covered(g, c)') /\ (Exact(g, c) => Exact(g, c)')
    BY <1>3, <1>4, <1>5 DEF GrantFollowed
  <2>2. QED
    BY <1>4, <1>5, <2>1 DEF Counted, Covered, Exact, GoneBy, PaidBy
<1>7. ASSUME NEW p \in Passes
      PROVE  /\ Counted(g, vPass[p].at) => Counted(g, vPass[p].at)'
             /\ Covered(g, vPass[p].at) => Covered(g, vPass[p].at)'
             /\ Exact(g, vPass[p].at) => Exact(g, vPass[p].at)'
  <2>1. PICK k : k = vPass[p].at
    OBVIOUS
  <2>2. k \in 0..Len(vEvents) /\ k = vPass'[p].at
    BY <1>1, <2>1, VaultPassType, GrantLogGrows
  <2>3. /\ Counted(g, k) => Counted(g, k)'
        /\ Covered(g, k) => Covered(g, k)'
        /\ Exact(g, k) => Exact(g, k)'
    BY <1>3, <2>2
  <2>4. /\ Counted(g, k) <=> Counted(g, vPass[p].at)
        /\ Covered(g, k) <=> Covered(g, vPass[p].at)
        /\ Exact(g, k) <=> Exact(g, vPass[p].at)
    BY <2>1
  <2>5. Counted(g, k)' <=> Counted(g, vPass[p].at)'
    BY <2>2 DEF Counted, PaidBy
  <2>6. Covered(g, k)' <=> Covered(g, vPass[p].at)'
    BY <2>2 DEF Covered, GoneBy
  <2>7. Exact(g, k)' <=> Exact(g, vPass[p].at)'
    BY <2>2 DEF Exact, GoneBy, PaidBy
  <2>8. QED
    BY <2>3, <2>4, <2>5, <2>6, <2>7
<1>8. \A p \in Passes : Vault!Running(p)' <=> Vault!Running(p)
  BY DEF Vault!Running
<1>9. Counted(g, vCheckpoint)' /\ \A p \in Passes : Vault!Running(p)' => Counted(g, vPass[p].at)'
  BY <1>6, <1>7, <1>8 DEF GrantFollowed
<1>10. ~vStraggled' => /\ Covered(g, vCheckpoint)'
                       /\ \A p \in Passes : Vault!Running(p)' => Covered(g, vPass[p].at)'
  BY <1>6, <1>7, <1>8 DEF GrantFollowed
<1>11. faults' = 0 =>
         /\ (\A p \in Passes : ~Vault!Running(p)') => Exact(g, vCheckpoint)'
         /\ \A p \in Passes : Vault!Running(p)' => Exact(g, vPass[p].at)'
  BY <1>6, <1>7, <1>8 DEF GrantFollowed
<1>12. QED
  BY <1>9, <1>10, <1>11 DEF GrantFollowed

(* Nothing changes of what the vault tells while the vault stands.         *)
LEMMA VaultStands ==
  ASSUME GrantIInv, MoneyInv, UNCHANGED <<vaultContract, vEvents>>
  PROVE  /\ GrantIInv' /\ MoneyInv'
         /\ \A g \in Grants : GrantTold(g) => GrantTold(g)'
         /\ \A g \in Grants, k \in Nat :
              GoneBy(g, k)' = GoneBy(g, k) /\ PaidBy(g, k)' = PaidBy(g, k)
<1>1. UNCHANGED Vault!vars
  BY DEF vaultContract, Vault!vars, Vault!consumerVars, Vault!grantVars
<1>2. GrantIInv' /\ MoneyInv'
  BY <1>1, GrantNextOK, MoneyNext
<1>3. UNCHANGED <<created, amount, vStatus, released, reclaimed, residue, vEvents>>
  BY DEF vaultContract
<1>4. ASSUME NEW g \in Grants, NEW k \in Nat
      PROVE  GoneBy(g, k)' = GoneBy(g, k) /\ PaidBy(g, k)' = PaidBy(g, k)
  BY <1>3 DEF GoneBy, PaidBy, Gains, Hits
<1>5. ASSUME NEW g \in Grants, GrantTold(g) PROVE GrantTold(g)'
  <2>1. /\ GoneBy(g, Len(vEvents))' = GoneBy(g, Len(vEvents))
        /\ PaidBy(g, Len(vEvents))' = PaidBy(g, Len(vEvents))
    BY <1>3 DEF GoneBy, PaidBy, Gains, Hits
  <2>2. \A n \in 1..Len(vEvents) : GoneBy(g, n)' = GoneBy(g, n)
    BY <1>4
  <2>3. /\ GivenOut(g)' = GivenOut(g) /\ Funded(g)' = Funded(g)
        /\ Cardinality(Vault!ReleasedSlots(g))' = Cardinality(Vault!ReleasedSlots(g))
    BY <1>3 DEF GivenOut, Funded, Vault!ReleasedSlots
  <2>4. \A n : Founds(g, n)' <=> Founds(g, n)
    BY <1>3 DEF Founds
  <2>5. QED
    BY <1>3, <1>5, <2>1, <2>2, <2>3, <2>4 DEF GrantTold
<1>6. QED
  BY <1>2, <1>4, <1>5

(* What the handler makes of the rows: a grant gains what the event tells, *)
(* or, at a reclaim, is brought to the total.                              *)
LEMMA HandledRows ==
  ASSUME VaultSite, vScope.followed, NEW p \in Passes, Vault!HandleGrantEvent(p),
         NEW k, k = vPass[p].at, Vault!Running(p)
  PROVE  /\ k \in Nat /\ k + 1 \in 1..Len(vEvents)
         /\ vRow' \in [Grants -> Vault!Row]
         /\ \A h \in Grants :
              /\ vRow[h].known => vRow'[h].known
              /\ ~vRow'[h].known => vRow'[h] = Vault!NoRow
              /\ Founds(h, k + 1) => vRow'[h].known
              /\ vRow'[h].count = vRow[h].count + Hits(h)[k + 1]
              /\ vRow'[h].released \in {vRow[h].released + Gains(h)[k + 1], GoneBy(h, k + 1)}
<1> DEFINE e == vEvents[k + 1]
           r == vRow[e.grant]
<1>1. MoneyTyped /\ vEvents \in Seq(AGrantEvent) /\ Vault!IndexerTypeOK
      /\ vRow \in [Grants -> Vault!Row]
  BY DEF VaultSite, MoneyInv, Vault!AppTypeOK
<1>2. k \in Nat /\ k + 1 \in 1..Len(vEvents)
  BY <1>1, VaultPassType DEF Vault!HandleGrantEvent, Vault!HandleNext, Vault!Pending
<1>3. e \in AGrantEvent
  BY <1>1, <1>2
<1>4. vRow' = [vRow EXCEPT ![e.grant] = Vault!Handled(e.grant, r, e)]
  BY DEF Vault!HandleGrantEvent, Vault!Upcoming
<1>5. e.grant \in Grants /\ e.amount \in Nat
      /\ e.kind \in {"GrantCreated", "MilestoneReleased", "GrantReclaimed"}
  BY <1>3 DEF AGrantEvent
<1> HIDE DEF e
<1>6. r \in [known : BOOLEAN, released : Nat, count : Nat]
      /\ (~r.known => r = [known |-> FALSE, released |-> 0, count |-> 0])
  BY <1>1, <1>5 DEF VaultSite, Vault!Row, Vault!NoRow
<1> HIDE DEF r
<1>7. e.kind # "GrantCreated" => r.known
  <2> SUFFICES ASSUME e.kind # "GrantCreated" PROVE r.known
    OBVIOUS
  <2>1. GrantTold(e.grant) /\ GrantFollowed(e.grant)
    BY <1>5 DEF VaultSite
  <2>2. \E n \in 1..(k + 1) : Founds(e.grant, n)
    BY <1>2, <2>1 DEF GrantTold, e
  <2>3. \E n \in 1..k : Founds(e.grant, n)
    BY <1>2, <2>2 DEF Founds, e
  <2>4. QED
    BY <2>1, <2>3 DEF GrantFollowed, Counted, r
<1>8. CASE e.kind = "GrantCreated"
  <2>1. vRow'[e.grant] = [known |-> TRUE, released |-> r.released, count |-> r.count]
    BY <1>1, <1>4, <1>5, <1>6, <1>8 DEF Vault!Handled, Vault!Updated, Vault!NoRow
  <2>2. ASSUME NEW h \in Grants PROVE Hits(h)[k + 1] = 0 /\ Gains(h)[k + 1] = 0
    BY <1>2, <1>8 DEF Hits, Gains, e
  <2>3. vRow' \in [Grants -> Vault!Row]
    <3>1. vRow'[e.grant] \in Vault!Row
      BY <1>5, <1>6, <2>1 DEF Vault!Row
    <3>2. QED
      BY <1>1, <1>4, <1>5, <3>1
  <2>4. ASSUME NEW h \in Grants, h # e.grant
        PROVE  vRow'[h] = vRow[h] /\ ~Founds(h, k + 1)
    BY <1>1, <1>4, <2>4 DEF Founds, e
  <2>5. ASSUME NEW h \in Grants, h = e.grant
        PROVE  /\ vRow'[h].known
               /\ vRow'[h].count = vRow[h].count /\ vRow'[h].released = vRow[h].released
    BY <2>1, <2>5 DEF r
  <2>6. \A h \in Grants : vRow[h].count \in Nat /\ vRow[h].released \in Nat
    BY <1>1 DEF Vault!Row
  <2>7. \A h \in Grants : ~vRow[h].known => vRow[h] = Vault!NoRow
    BY DEF VaultSite
  <2>8. QED
    BY <1>2, <2>2, <2>3, <2>4, <2>5, <2>6, <2>7
<1>9. CASE e.kind = "MilestoneReleased"
  <2>1. vRow'[e.grant] = [known |-> TRUE, released |-> r.released + e.amount,
                          count |-> r.count + 1]
    BY <1>1, <1>4, <1>5, <1>6, <1>7, <1>9 DEF Vault!Handled, Vault!Updated
  <2>2. ASSUME NEW h \in Grants
        PROVE  /\ Hits(h)[k + 1] = IF h = e.grant THEN 1 ELSE 0
               /\ Gains(h)[k + 1] = IF h = e.grant THEN e.amount ELSE 0
    BY <1>2, <1>9 DEF Hits, Gains, e
  <2>3. vRow' \in [Grants -> Vault!Row]
    <3>1. vRow'[e.grant] \in Vault!Row
      BY <1>5, <1>6, <2>1 DEF Vault!Row
    <3>2. QED
      BY <1>1, <1>4, <1>5, <3>1
  <2>4. ASSUME NEW h \in Grants
        PROVE  /\ h # e.grant => vRow'[h] = vRow[h]
               /\ ~Founds(h, k + 1)
    BY <1>1, <1>4, <1>9 DEF Founds, e
  <2>5. ASSUME NEW h \in Grants, h = e.grant
        PROVE  /\ vRow'[h].known
               /\ vRow'[h].count = vRow[h].count + 1
               /\ vRow'[h].released = vRow[h].released + e.amount
    BY <2>1, <2>5 DEF r
  <2>6. \A h \in Grants : vRow[h].count \in Nat /\ vRow[h].released \in Nat
    BY <1>1 DEF Vault!Row
  <2>7. \A h \in Grants : ~vRow[h].known => vRow[h] = Vault!NoRow
    BY DEF VaultSite
  <2>8. QED
    BY <1>2, <2>2, <2>3, <2>4, <2>5, <2>6, <2>7
<1>10. CASE e.kind = "GrantReclaimed"
  <2>1. vRow'[e.grant] = [known |-> TRUE, released |-> Funded(e.grant), count |-> r.count]
    BY <1>1, <1>4, <1>5, <1>6, <1>7, <1>10, GrantSums
       DEF Vault!Handled, Vault!Updated, Vault!TotalAmount, Vault!SumOf, Funded
  <2>2. ASSUME NEW h \in Grants
        PROVE  /\ Hits(h)[k + 1] = 0
               /\ h # e.grant => Gains(h)[k + 1] = 0
    BY <1>2, <1>10 DEF Hits, Gains, e
  <2>3. Funded(e.grant) \in Nat
    BY <1>1, <1>5, FundedNat
  <2>4. vRow' \in [Grants -> Vault!Row]
    <3>1. vRow'[e.grant] \in Vault!Row
      BY <1>6, <2>1, <2>3 DEF Vault!Row
    <3>2. QED
      BY <1>1, <1>4, <1>5, <3>1
  <2>5. ASSUME NEW h \in Grants
        PROVE  /\ h # e.grant => vRow'[h] = vRow[h]
               /\ ~Founds(h, k + 1)
    BY <1>1, <1>4, <1>10 DEF Founds, e
  <2>6. Funded(e.grant) = GoneBy(e.grant, k + 1)
    BY <1>2, <1>5, <1>10 DEF VaultSite, GrantTold, e
  <2>7. ASSUME NEW h \in Grants, h = e.grant
        PROVE  /\ vRow'[h].known
               /\ vRow'[h].count = vRow[h].count
               /\ vRow'[h].released = GoneBy(h, k + 1)
    BY <2>1, <2>6, <2>7 DEF r
  <2>8. \A h \in Grants : vRow[h].count \in Nat /\ vRow[h].released \in Nat
    BY <1>1 DEF Vault!Row
  <2>9. \A h \in Grants : ~vRow[h].known => vRow[h] = Vault!NoRow
    BY DEF VaultSite
  <2>10. QED
    BY <1>2, <2>2, <2>4, <2>5, <2>7, <2>8, <2>9
<1>11. QED
  BY <1>5, <1>8, <1>9, <1>10

LEMMA VaultHandleKeeps ==
  ASSUME VaultSite, NEW p \in Passes, Vault!HandleGrantEvent(p),
         UNCHANGED <<vaultContract, vScope>>
  PROVE  VaultSite'
<1>0. PICK k : k = vPass[p].at
  OBVIOUS
<1>1. /\ GrantIInv /\ MoneyInv /\ MoneyTyped /\ Vault!IndexerTypeOK /\ Vault!AppTypeOK
      /\ vEvents \in Seq(AGrantEvent) /\ VaultInOrder
  BY DEF VaultSite, Vault!AppTypeOK, MoneyInv
<1>2. /\ vPass[p].at < vPass[p].to /\ vPass' = [vPass EXCEPT ![p].at = k + 1]
      /\ UNCHANGED <<vEvents, vCheckpoint, vAwaited, vStraggled, faults>>
  BY <1>0 DEF Vault!HandleGrantEvent, Vault!HandleNext, Vault!Pending
<1>3. /\ vPass[p] \in [at : Nat, to : 0..Len(vEvents)] /\ k \in Nat /\ Len(vEvents) \in Nat
      /\ vPass[p].to \in Nat /\ k + 1 <= Len(vEvents) /\ k + 1 \in 1..Len(vEvents)
  BY <1>0, <1>1, <1>2, VaultPassType, GrantLogGrows
<1>4. Vault!Running(p) /\ Vault!Running(p)'
  BY <1>1, <1>2, <1>3, SamePasses DEF Vault!Running, Vault!NoPass, Vault!IndexerTypeOK
<1>5. /\ vPass'[p].at = k + 1
      /\ \A q \in Passes \ {p} : vPass'[q] = vPass[q]
  BY <1>1, <1>2, SamePasses DEF Vault!IndexerTypeOK
<1>6. \A q \in Passes : Vault!Running(q)' <=> Vault!Running(q)
  BY <1>4, <1>5 DEF Vault!Running
<1>7. vScope.followed
  <2>1. vEvents # <<>>
    BY <1>3
  <2>2. QED
    BY <2>1 DEF VaultSite
<1>8. /\ vRow' \in [Grants -> Vault!Row]
      /\ \A h \in Grants :
           /\ vRow[h].known => vRow'[h].known
           /\ ~vRow'[h].known => vRow'[h] = Vault!NoRow
           /\ Founds(h, k + 1) => vRow'[h].known
           /\ vRow'[h].count = vRow[h].count + Hits(h)[k + 1]
           /\ vRow'[h].released \in {vRow[h].released + Gains(h)[k + 1], GoneBy(h, k + 1)}
  BY <1>0, <1>4, <1>7, HandledRows
<1>9. /\ GrantIInv' /\ MoneyInv'
      /\ \A g \in Grants : GrantTold(g) => GrantTold(g)'
      /\ \A g \in Grants, j \in Nat : GoneBy(g, j)' = GoneBy(g, j) /\ PaidBy(g, j)' = PaidBy(g, j)
  BY <1>1, <1>2, VaultStands
<1>10. Vault!AppTypeOK' /\ vEvents' \in Seq(AGrantEvent)
  <2>1. Vault!IndexerTypeOK'
    BY <1>1, VaultHandleTypes DEF Vault!HandleGrantEvent
  <2>2. QED
    BY <1>1, <1>2, <1>8, <2>1 DEF Vault!AppTypeOK
<1>11. VaultInOrder'
  <2>1. vCheckpoint \in Nat
    BY <1>1 DEF Vault!IndexerTypeOK
  <2>2. ASSUME ~vStraggled
        PROVE  /\ \A q, u \in Passes : Vault!Running(q)' /\ Vault!Running(u)' => q = u
               /\ \A q \in Passes : Vault!Running(q)' => vCheckpoint' <= vPass'[q].at
    BY <1>0, <1>1, <1>2, <1>3, <1>5, <1>6, <2>1, <2>2 DEF VaultInOrder
  <2>3. ASSUME faults = 0
        PROVE  ~vStraggled' /\ \A q \in Passes : Vault!Running(q)' <=> q \in vAwaited'
    BY <1>1, <1>2, <1>6, <2>3 DEF VaultInOrder
  <2>4. QED
    BY <1>2, <2>2, <2>3 DEF VaultInOrder
<1>12. ASSUME NEW h \in Grants PROVE GrantFollowed(h)'
  <2>1. /\ GrantFollowed(h) /\ Counted(h, k)
        /\ ~vStraggled => Covered(h, k)
        /\ faults = 0 => Exact(h, k)
    BY <1>0, <1>4, <1>7 DEF VaultSite, GrantFollowed
  <2>2. /\ GoneBy(h, k + 1) = GoneBy(h, k) + Gains(h)[k + 1]
        /\ PaidBy(h, k + 1) = PaidBy(h, k) + Hits(h)[k + 1]
        /\ Gains(h)[k + 1] \in Nat /\ Hits(h)[k + 1] \in Nat
        /\ GoneBy(h, k) \in Nat /\ PaidBy(h, k) \in Nat
    <3>1. k \in 0..Len(vEvents) /\ k \in 0..k
      BY <1>3
    <3>2. GoneBy(h, k) \in Nat /\ PaidBy(h, k) \in Nat
      BY <1>1, <3>1, TotalsGrow
    <3>3. /\ GoneBy(h, k + 1) = GoneBy(h, k) + Gains(h)[k + 1]
          /\ PaidBy(h, k + 1) = PaidBy(h, k) + Hits(h)[k + 1]
      BY <1>1, <1>3, TotalsNext
    <3>4. Gains(h)[k + 1] \in Nat /\ Hits(h)[k + 1] \in Nat
      BY <1>1, <1>3, TellingTypes
    <3>5. QED
      BY <3>2, <3>3, <3>4
  <2>3. vRow[h].count \in Nat /\ vRow[h].released \in Nat
    BY <1>1 DEF Vault!AppTypeOK, Vault!Row
  <2>4. \A j \in 0..Len(vEvents) : Counted(h, j) => Counted(h, j)'
    <3> TAKE j \in 0..Len(vEvents)
    <3> HAVE Counted(h, j)
    <3>1. PaidBy(h, j)' = PaidBy(h, j) /\ PaidBy(h, j) <= vRow[h].count /\ PaidBy(h, j) \in Nat
      BY <1>1, <1>9, TotalsGrow DEF Counted
    <3>2. vRow[h].count <= vRow'[h].count
      BY <1>8, <2>2, <2>3
    <3>3. vRow'[h].count \in Int /\ PaidBy(h, j) <= vRow'[h].count
      BY <1>8, <2>2, <2>3, <3>1, <3>2
    <3>4. \A n \in 1..j : Founds(h, n)' => vRow'[h].known
      BY <1>2, <1>8 DEF Counted, Founds
    <3>5. QED
      BY <3>1, <3>3, <3>4 DEF Counted
  <2>5. Counted(h, k + 1)'
    <3>1. PaidBy(h, k + 1)' <= vRow'[h].count
      BY <1>3, <1>8, <1>9, <2>1, <2>2, <2>3 DEF Counted
    <3>2. ASSUME NEW n \in 1..(k + 1), Founds(h, n)' PROVE vRow'[h].known
      <4>1. Founds(h, n) /\ (n = k + 1 \/ n \in 1..k)
        BY <1>2, <1>3, <3>2 DEF Founds
      <4>2. QED
        BY <1>8, <2>1, <4>1 DEF Counted
    <3>3. QED
      BY <3>1, <3>2 DEF Counted
  <2>6. Covered(h, k) => Covered(h, k + 1)'
    BY <1>3, <1>8, <1>9, <2>2, <2>3 DEF Covered
  <2>7. Exact(h, k) => Exact(h, k + 1)'
    BY <1>3, <1>8, <1>9, <2>2, <2>3 DEF Exact
  <2>8. PICK c : c = vCheckpoint
    OBVIOUS
  <2>9. c \in Nat /\ c = vCheckpoint' /\ c <= Len(vEvents)
    BY <1>1, <1>2, <2>8 DEF Vault!IndexerTypeOK
  <2>10. Counted(h, c)'
    BY <2>1, <2>4, <2>8, <2>9 DEF GrantFollowed
  <2>11. ASSUME NEW q \in Passes, Vault!Running(q)', NEW j, j = vPass'[q].at
         PROVE  /\ Counted(h, j)'
                /\ ~vStraggled => j = k + 1 /\ q = p
    <3>1. Vault!Running(q)
      BY <1>6, <2>11
    <3>2. ~vStraggled => q = p
      BY <1>1, <1>4, <3>1 DEF VaultInOrder
    <3>3. CASE q = p
      BY <1>5, <2>5, <2>11, <3>3
    <3>4. CASE q # p
      <4>1. j = vPass[q].at /\ j \in 0..Len(vEvents)
        BY <1>1, <1>3, <1>5, <2>11, <3>4, VaultPassType
      <4>2. Counted(h, j)
        BY <2>1, <3>1, <4>1 DEF GrantFollowed
      <4>3. QED
        BY <2>4, <3>2, <3>4, <4>1, <4>2
    <3>5. QED
      BY <1>5, <2>11, <3>2, <3>3, <3>4
  <2>12. ~vStraggled => Covered(h, k + 1)' /\ Covered(h, c)'
    <3> SUFFICES ASSUME ~vStraggled PROVE Covered(h, k + 1)' /\ Covered(h, c)'
      OBVIOUS
    <3>1. c <= k /\ c \in 0..(k + 1) /\ k + 1 \in 0..Len(vEvents)
      BY <1>0, <1>1, <1>3, <1>4, <2>8, <2>9 DEF VaultInOrder
    <3>2. GoneBy(h, c) <= GoneBy(h, k + 1) /\ GoneBy(h, c) \in Nat /\ GoneBy(h, k + 1) \in Nat
      BY <1>1, <3>1, TotalsGrow
    <3>3. GoneBy(h, c)' = GoneBy(h, c) /\ GoneBy(h, k + 1)' = GoneBy(h, k + 1)
      BY <1>3, <1>9, <2>9
    <3>4. GoneBy(h, k + 1)' <= vRow'[h].released /\ vRow'[h].released \in Int
      BY <1>8, <2>1, <2>2, <2>3, <2>6, <3>2 DEF Covered
    <3>5. QED
      BY <2>1, <2>6, <3>2, <3>3, <3>4 DEF Covered
  <2>13. faults = 0 => Exact(h, k + 1)'
    BY <2>1, <2>7
  <2>14. /\ Counted(h, vCheckpoint)'
         /\ \A q \in Passes : Vault!Running(q)' => Counted(h, vPass[q].at)'
    <3>1. Counted(h, vCheckpoint)'
      BY <2>9, <2>10 DEF Counted, PaidBy
    <3>2. ASSUME NEW q \in Passes, Vault!Running(q)' PROVE Counted(h, vPass[q].at)'
      <4>1. PICK j : j = vPass'[q].at
        OBVIOUS
      <4>2. QED
        BY <2>11, <3>2, <4>1 DEF Counted, PaidBy
    <3>3. QED
      BY <3>1, <3>2
  <2>15. ASSUME ~vStraggled'
         PROVE  /\ Covered(h, vCheckpoint)'
                /\ \A q \in Passes : Vault!Running(q)' => Covered(h, vPass[q].at)'
    <3>1. Covered(h, vCheckpoint)'
      BY <1>2, <2>9, <2>12, <2>15 DEF Covered, GoneBy
    <3>2. ASSUME NEW q \in Passes, Vault!Running(q)' PROVE Covered(h, vPass[q].at)'
      <4>1. vPass'[q].at = k + 1
        BY <1>2, <2>11, <2>15, <3>2
      <4>2. QED
        BY <1>2, <2>12, <2>15, <4>1 DEF Covered, GoneBy
    <3>3. QED
      BY <3>1, <3>2
  <2>16. ASSUME faults' = 0
         PROVE  /\ (\A q \in Passes : ~Vault!Running(q)') => Exact(h, vCheckpoint)'
                /\ \A q \in Passes : Vault!Running(q)' => Exact(h, vPass[q].at)'
    <3>1. ~vStraggled
      BY <1>1, <1>2, <2>16 DEF VaultInOrder
    <3>2. ASSUME NEW q \in Passes, Vault!Running(q)' PROVE Exact(h, vPass[q].at)'
      <4>1. vPass'[q].at = k + 1
        BY <2>11, <3>1, <3>2
      <4>2. QED
        BY <1>2, <2>13, <2>16, <4>1 DEF Exact, GoneBy, PaidBy
    <3>3. QED
      BY <1>4, <3>2
  <2>17. QED
    BY <2>14, <2>15, <2>16 DEF GrantFollowed
<1>13. \A h \in Grants : GrantTold(h)'
  BY <1>7, <1>9 DEF VaultSite
<1>14. \A h \in Grants : ~vRow'[h].known => vRow'[h] = Vault!NoRow
  BY <1>8
<1>15. vScope' = vScope
  OBVIOUS
<1>16. QED
  BY <1>7, <1>9, <1>10, <1>11, <1>12, <1>13, <1>14, <1>15 DEF VaultSite

(* What a transaction of the vault tells.                                  *)
VaultTells ==
  /\ \/ Vault!EmitNothing
     \/ vScope.followed /\ \E ev \in AGrantEvent : Vault!Emit(ev)
  /\ vScope.followed => \A h \in Grants : GrantTold(h)'
  /\ \A h \in reclaimed : residue'[h] = residue[h]

(* A transaction that the log does not tell of.                            *)
LEMMA SilentTells ==
  ASSUME VaultSite, MoneyInv', Vault!EmitNothing,
         UNCHANGED <<created, amount, released, reclaimed, residue>>,
         \A h \in Grants : Vault!ReleasedSlots(h)' = Vault!ReleasedSlots(h)
  PROVE  VaultTells
<1>1. MoneyTyped /\ MoneyTyped' /\ vEvents \in Seq(AGrantEvent) /\ UNCHANGED vEvents
  BY DEF VaultSite, MoneyInv, Vault!EmitNothing, Vault!indexerVars
<1>2. ASSUME vScope.followed, NEW h \in Grants PROVE GrantTold(h)'
  <2>1. GrantTold(h) /\ Funded(h)' = Funded(h)
    BY <1>2 DEF VaultSite, Funded
  <2>2. QED
    BY <1>1, <2>1, ToldAside
<1>3. QED
  BY <1>2 DEF VaultTells

LEMMA VerdictTells ==
  ASSUME VaultSite, MoneyInv', NEW i \in Ids, NEW o \in Vault!Rulings, Vault!Verdict(i, o),
         IF vStatus[vLink[i][1]][vLink[i][2]] = "SUBMITTED" /\ o = "TRUE"
         THEN Vault!Log(Vault!Event("MilestoneReleased", vLink[i][1],
                                    amount[vLink[i][1]][vLink[i][2]]))
         ELSE Vault!EmitNothing
  PROVE  VaultTells
<1>1. /\ GrantIInv /\ GrantTyped /\ MoneyInv /\ MoneyTyped /\ Vault!OnVerdict(i, o)
      /\ vEvents \in Seq(AGrantEvent)
      /\ UNCHANGED <<created, amount, expired, reclaimed, residue>>
  BY DEF VaultSite, GrantIInv, MoneyInv, Vault!Verdict
<1>2. Vault!Waiting(i)
  BY <1>1, GrantVerdictType DEF GrantTyped
<1>3. PICK g \in Grants, m \in Slots : Awaits(g, m, i)
  BY <1>1, <1>2 DEF GrantIInv, SubmissionOK
<1>4. Vault!Rule(g, m, o) /\ vStatus[g][m] = "SUBMITTED"
  BY <1>3 DEF Awaits, Vault!Verdict
<1>5. IF o = "TRUE" THEN Vault!Log(Vault!Event("MilestoneReleased", g, amount[g][m]))
      ELSE Vault!EmitNothing
  BY <1>3, <1>4 DEF Awaits
<1>6. CASE o = "TRUE"
  <2> DEFINE ev == Vault!Event("MilestoneReleased", g, amount[g][m])
  <2>1. /\ vStatus' = [vStatus EXCEPT ![g][m] = "RELEASED"]
        /\ released' = [released EXCEPT ![g] = @ + amount[g][m]]
    BY <1>4, <1>6 DEF Vault!Rule
  <2>2. CASE ~vScope.followed
    BY <1>1, <1>5, <1>6, <2>2 DEF Vault!Log, VaultTells
  <2>3. CASE vScope.followed
    <3>1. Vault!Emit(ev)
      BY <1>5, <1>6, <2>3 DEF Vault!Log
    <3>2. ev \in AGrantEvent
      BY <1>1, AmountNat DEF Vault!Event, AGrantEvent
    <3>3. vEvents' = Append(vEvents, ev) /\ \A h \in Grants : GrantTold(h)
      BY <2>3, <3>1 DEF Vault!Emit, VaultSite
    <3>4. \A h \in Grants : GrantTold(h)'
      BY <1>1, <1>4, <2>1, <3>3, ReleaseTold
    <3> HIDE DEF ev
    <3>5. QED
      BY <1>1, <2>3, <3>1, <3>2, <3>4 DEF VaultTells
  <2>4. QED
    BY <2>2, <2>3
<1>7. CASE o # "TRUE"
  <2>1. vStatus' = [vStatus EXCEPT ![g][m] = "REJECTED"] /\ UNCHANGED <<released, held>>
    BY <1>4, <1>7 DEF Vault!Rule
  <2>2. \A h \in Grants : Vault!ReleasedSlots(h)' = Vault!ReleasedSlots(h)
    BY <1>1, <1>4, <2>1 DEF GrantTyped, Vault!ReleasedSlots
  <2>3. QED
    BY <1>1, <1>5, <1>7, <2>1, <2>2, SilentTells
<1>8. QED
  BY <1>6, <1>7

LEMMA ContractTells ==
  ASSUME VaultSite, MoneyInv', Vault!ContractStep
  PROVE  VaultTells
<1>1. /\ GrantIInv /\ GrantTyped /\ MoneyInv /\ MoneyTyped /\ vEvents \in Seq(AGrantEvent)
      /\ vScope.followed => \A h \in Grants : GrantTold(h)
  BY DEF VaultSite, GrantIInv, MoneyInv
<1>2. ASSUME NEW g \in Grants, NEW amounts, Vault!CreateGrant(g, amounts),
             Vault!Log(Vault!Event("GrantCreated", g, 0))
      PROVE  VaultTells
  <2> DEFINE ev == Vault!Event("GrantCreated", g, 0)
  <2>1. ev \in AGrantEvent
    BY DEF Vault!Event, AGrantEvent
  <2>2. UNCHANGED residue
    BY <1>2 DEF Vault!CreateGrant
  <2>3. CASE ~vScope.followed
    BY <1>2, <2>2, <2>3 DEF Vault!Log, VaultTells
  <2>4. CASE vScope.followed
    <3>1. Vault!Emit(ev)
      BY <1>2, <2>4 DEF Vault!Log
    <3>2. vEvents' = Append(vEvents, ev)
      BY <3>1 DEF Vault!Emit
    <3>3. \A h \in Grants : GrantTold(h)'
      BY <1>1, <1>2, <2>4, <3>2, CreationTold
    <3> HIDE DEF ev
    <3>4. QED
      BY <2>1, <2>2, <2>4, <3>1, <3>3 DEF VaultTells
  <2>5. QED
    BY <2>3, <2>4
<1>3. ASSUME NEW g \in Grants, Vault!Reclaim(g), Vault!Log(Vault!Event("GrantReclaimed", g, 0))
      PROVE  VaultTells
  <2> DEFINE ev == Vault!Event("GrantReclaimed", g, 0)
  <2>1. ev \in AGrantEvent
    BY DEF Vault!Event, AGrantEvent
  <2>2. \A h \in reclaimed : residue'[h] = residue[h]
    BY <1>1, <1>3 DEF Vault!Reclaim, Vault!CanReclaim, MoneyTyped
  <2>3. CASE ~vScope.followed
    BY <1>3, <2>2, <2>3 DEF Vault!Log, VaultTells
  <2>4. CASE vScope.followed
    <3>1. Vault!Emit(ev)
      BY <1>3, <2>4 DEF Vault!Log
    <3>2. vEvents' = Append(vEvents, ev)
      BY <3>1 DEF Vault!Emit
    <3>3. \A h \in Grants : GrantTold(h)'
      BY <1>1, <1>3, <2>4, <3>2, ReclaimTold
    <3> HIDE DEF ev
    <3>4. QED
      BY <2>1, <2>2, <2>4, <3>1, <3>3 DEF VaultTells
  <2>5. QED
    BY <2>3, <2>4
<1>4. ASSUME NEW g \in Grants, NEW m \in Slots, NEW i \in Ids, Vault!SubmitMilestone(g, m, i),
             Vault!EmitNothing
      PROVE  VaultTells
  <2>1. /\ vStatus[g][m] \in {"PENDING", "REJECTED"}
        /\ vStatus' = [vStatus EXCEPT ![g][m] = "SUBMITTED"]
        /\ UNCHANGED <<created, amount, released, reclaimed, residue>>
    BY <1>4 DEF Vault!SubmitMilestone, Vault!CanSubmit
  <2>2. \A h \in Grants : Vault!ReleasedSlots(h)' = Vault!ReleasedSlots(h)
    BY <1>1, <2>1 DEF GrantTyped, Vault!ReleasedSlots
  <2>3. QED
    BY <1>4, <2>1, <2>2, SilentTells
<1>5. ASSUME NEW g \in Grants, Vault!Elapse(g), Vault!EmitNothing PROVE VaultTells
  BY <1>5, SilentTells DEF Vault!Elapse, Vault!ReleasedSlots
<1>6. ASSUME NEW i \in Ids, Vault!Overruled(i), Vault!EmitNothing PROVE VaultTells
  BY <1>6, SilentTells DEF Vault!Overruled, Vault!grantVars, Vault!ReleasedSlots
<1>7. QED
  BY <1>2, <1>3, <1>4, <1>5, <1>6, VerdictTells DEF Vault!ContractStep

LEMMA VaultContractKeeps ==
  ASSUME VaultSite, Vault!ContractStep, UNCHANGED <<vRow, vScope>>
  PROVE  VaultSite'
<1>1. /\ GrantIInv /\ MoneyInv /\ Vault!IndexerTypeOK /\ Vault!AppTypeOK /\ VaultInOrder
      /\ vEvents \in Seq(AGrantEvent)
  BY DEF VaultSite, Vault!AppTypeOK
<1>2. GrantIInv' /\ MoneyInv' /\ MoneyTyped'
  <2>1. Vault!Next
    BY <1>1, ContractIsVault DEF Vault!AppTypeOK
  <2>2. QED
    BY <1>1, <2>1, GrantNextOK, MoneyNext DEF MoneyInv
<1>3. VaultTells
  BY <1>2, ContractTells
<1>4. /\ UNCHANGED <<vCheckpoint, vPass, vAwaited, vStraggled, faults>>
      /\ UNCHANGED vEvents \/ \E ev \in AGrantEvent : vEvents' = Append(vEvents, ev)
      /\ ~vScope.followed => UNCHANGED vEvents
  BY <1>3 DEF VaultTells, Vault!EmitNothing, Vault!indexerVars, Vault!Emit
<1>5. Vault!IndexerTypeOK' /\ vEvents' \in Seq(AGrantEvent)
  <2>1. CASE Vault!EmitNothing
    BY <1>1, <2>1 DEF Vault!EmitNothing, Vault!indexerVars, Vault!IndexerTypeOK
  <2>2. ASSUME NEW ev \in AGrantEvent, Vault!Emit(ev)
        PROVE  Vault!IndexerTypeOK' /\ vEvents' \in Seq(AGrantEvent)
    BY <1>1, <2>2, VaultLogTypes, GrantLogGrows DEF Vault!Emit
  <2>3. QED
    BY <1>3, <2>1, <2>2 DEF VaultTells
<1>6. Vault!AppTypeOK'
  BY <1>1, <1>5 DEF Vault!AppTypeOK
<1>7. VaultInOrder'
  BY <1>1, <1>4 DEF VaultInOrder, Vault!Running
<1>8. ASSUME vScope.followed, NEW h \in Grants PROVE GrantTold(h)' /\ GrantFollowed(h)'
  <2>1. GrantTold(h) /\ GrantFollowed(h) /\ (h \in reclaimed => residue'[h] = residue[h])
    BY <1>3, <1>8 DEF VaultSite, VaultTells
  <2>2. GrantFollowed(h)'
    BY <1>2, <1>4, <2>1, FollowedStill
  <2>3. QED
    BY <1>3, <1>8, <2>2 DEF VaultTells
<1>9. (~vScope.followed => vEvents = <<>>)'
  BY <1>4 DEF VaultSite
<1>10. \A h \in Grants : ~vRow'[h].known => vRow'[h] = Vault!NoRow
  BY DEF VaultSite
<1>11. QED
  BY <1>2, <1>5, <1>6, <1>7, <1>8, <1>9, <1>10 DEF VaultSite

VaultIdle == \A p \in Passes : ~Vault!Running(p)

Resumes(p) == Vault!Running(p) /\ vPass'[p].at = vPass[p].at

(* No pass and no checkpoint stands where none stood before.  Without a    *)
(* fault a pass begins when there is no other, and its end is what the     *)
(* checkpoint is set to.                                                   *)
PositionsFollow ==
  LET SavedBy(p) == Vault!Running(p) /\ vCheckpoint' = vPass[p].at IN
  /\ ~vStraggled' => ~vStraggled
  /\ faults' = 0 => faults = 0
  /\ vCheckpoint' = vCheckpoint \/ \E p \in Passes : SavedBy(p)
  /\ \A p \in Passes : Vault!Running(p)' => Resumes(p) \/ vPass'[p].at = vCheckpoint
  /\ faults' = 0 /\ ~VaultIdle => \A p \in Passes : Vault!Running(p)' => Resumes(p)
  /\ faults' = 0 /\ ~VaultIdle /\ VaultIdle' => \E p \in Passes : SavedBy(p)
  /\ VaultIdle => vCheckpoint' = vCheckpoint

LEMMA PositionsKeep ==
  ASSUME VaultSite, UNCHANGED <<vaultContract, vEvents, vRow, vScope>>, PositionsFollow,
         Vault!IndexerTypeOK', VaultInOrder'
  PROVE  VaultSite'
<1>1. /\ GrantIInv /\ MoneyInv /\ Vault!IndexerTypeOK /\ Vault!AppTypeOK
      /\ vEvents \in Seq(AGrantEvent)
  BY DEF VaultSite, Vault!AppTypeOK
<1>2. UNCHANGED vEvents /\ UNCHANGED vRow /\ UNCHANGED vScope
  OBVIOUS
<1>3. /\ GrantIInv' /\ MoneyInv'
      /\ \A g \in Grants : GrantTold(g) => GrantTold(g)'
      /\ \A g \in Grants, k \in Nat : GoneBy(g, k)' = GoneBy(g, k) /\ PaidBy(g, k)' = PaidBy(g, k)
  BY <1>1, VaultStands
<1>4. Vault!AppTypeOK'
  BY <1>1, <1>2 DEF Vault!AppTypeOK
<1>5. vCheckpoint \in Nat /\ \A p \in Passes : vPass[p].at \in Nat
  BY <1>1, VaultPassType DEF Vault!IndexerTypeOK
<1>6. ASSUME vScope.followed, NEW h \in Grants PROVE GrantTold(h)' /\ GrantFollowed(h)'
  <2>1. GrantTold(h) /\ GrantFollowed(h)
    BY <1>6 DEF VaultSite
  <2>2. ASSUME NEW k \in Nat
        PROVE  /\ Counted(h, k) => Counted(h, k)'
               /\ Covered(h, k) => Covered(h, k)'
               /\ Exact(h, k) => Exact(h, k)'
    BY <1>2, <1>3 DEF Counted, Covered, Exact, Founds
  <2>3. /\ Counted(h, vCheckpoint)'
        /\ ~vStraggled' => Covered(h, vCheckpoint)'
        /\ faults' = 0 /\ VaultIdle' => Exact(h, vCheckpoint)'
    <3>1. PICK k : k = vCheckpoint'
      OBVIOUS
    <3>2. /\ k \in Nat /\ Counted(h, k)
          /\ ~vStraggled' => Covered(h, k)
          /\ faults' = 0 /\ VaultIdle' => Exact(h, k)
      <4>1. CASE k = vCheckpoint /\ (faults' = 0 /\ VaultIdle' => VaultIdle)
        BY <1>5, <2>1, <4>1 DEF GrantFollowed, PositionsFollow, VaultIdle
      <4>2. ASSUME NEW p \in Passes, Vault!Running(p), k = vPass[p].at
            PROVE  <3>2!:
        BY <1>5, <2>1, <4>2 DEF GrantFollowed, PositionsFollow
      <4>3. QED
        BY <3>1, <4>1, <4>2 DEF PositionsFollow
    <3>3. Counted(h, k)' /\ (~vStraggled' => Covered(h, k)')
          /\ (faults' = 0 /\ VaultIdle' => Exact(h, k)')
      BY <2>2, <3>2
    <3>4. QED
      BY <3>1, <3>3 DEF Counted, Covered, Exact, GoneBy, PaidBy
  <2>4. ASSUME NEW p \in Passes, Vault!Running(p)'
        PROVE  /\ Counted(h, vPass[p].at)'
               /\ ~vStraggled' => Covered(h, vPass[p].at)'
               /\ faults' = 0 => Exact(h, vPass[p].at)'
    <3>1. PICK k : k = vPass'[p].at
      OBVIOUS
    <3>2. /\ k \in Nat /\ Counted(h, k)
          /\ ~vStraggled' => Covered(h, k)
          /\ faults' = 0 => Exact(h, k)
      <4>1. CASE Resumes(p)
        BY <1>5, <2>1, <3>1, <4>1 DEF GrantFollowed, PositionsFollow, Resumes
      <4>2. CASE k = vCheckpoint /\ (faults' = 0 => VaultIdle)
        BY <1>5, <2>1, <4>2 DEF GrantFollowed, PositionsFollow, VaultIdle
      <4>3. QED
        BY <2>4, <3>1, <4>1, <4>2 DEF PositionsFollow
    <3>3. Counted(h, k)' /\ (~vStraggled' => Covered(h, k)') /\ (faults' = 0 => Exact(h, k)')
      BY <2>2, <3>2
    <3>4. QED
      BY <3>1, <3>3 DEF Counted, Covered, Exact, GoneBy, PaidBy
  <2>5. QED
    BY <1>3, <2>1, <2>3, <2>4 DEF GrantFollowed, VaultIdle
<1>7. vEvents' \in Seq(AGrantEvent) /\ ~vScope'.followed => vEvents' = <<>>
  BY <1>1, <1>2 DEF VaultSite
<1>8. \A h \in Grants : ~vRow'[h].known => vRow'[h] = Vault!NoRow
  BY <1>2 DEF VaultSite
<1>9. QED
  BY <1>1, <1>2, <1>3, <1>4, <1>6, <1>7, <1>8 DEF VaultSite

(* The tick, the other side and the service.                               *)
LEMMA VaultTurnKeeps ==
  ASSUME VaultSite, VaultTurn, UNCHANGED <<vaultContract, vRow, vScope>>
  PROVE  VaultSite'
<1>1. /\ Vault!IndexerTypeOK /\ vEvents \in Seq(AGrantEvent) /\ VaultInOrder
      /\ Len(vEvents) \in Nat
  BY DEF VaultSite, Vault!AppTypeOK
<1>2. Vault!IndexerTypeOK'
  BY <1>1, VaultTurnTypes
<1>3. UNCHANGED vEvents
  BY DEF VaultTurn, Vault!StartPass, Vault!SaveCheckpoint, Vault!Throw, Vault!Fault,
         Vault!Stop, vaultIndexer
<1>4. vCheckpoint \in Nat /\ faults \in Nat /\ vStraggled \in BOOLEAN
      /\ DOMAIN vPass = Passes /\ \A p \in Passes : vPass = [vPass EXCEPT ![p] = vPass[p]]
  BY <1>1, SamePasses DEF Vault!IndexerTypeOK
<1>5. ASSUME NEW p \in Passes, Vault!StartPass(p) PROVE PositionsFollow /\ VaultInOrder'
  <2>1. /\ vAwaited = {} /\ ~Vault!Running(p) /\ vCheckpoint < Len(vEvents)
        /\ vPass' = [vPass EXCEPT ![p] = [at |-> vCheckpoint, to |-> Len(vEvents)]]
        /\ vAwaited' = {p} /\ UNCHANGED <<vCheckpoint, faults>>
    BY <1>5 DEF Vault!StartPass, Vault!Fresh
  <2>2. vStraggled' <=> vStraggled \/ ~VaultIdle
    <3>1. vStraggled' = (vStraggled \/ \E q \in Passes : Vault!Running(q))
      BY <1>5, SamePasses DEF Vault!StartPass
    <3>2. QED
      BY <3>1 DEF VaultIdle
  <2>3. vPass'[p].at = vCheckpoint /\ Vault!Running(p)'
        /\ \A q \in Passes \ {p} : vPass'[q] = vPass[q]
    BY <1>1, <1>4, <2>1 DEF Vault!Running, Vault!NoPass
  <2>4. \A q \in Passes \ {p} : Vault!Running(q)' <=> Vault!Running(q)
    BY <2>3 DEF Vault!Running
  <2>5. faults = 0 => VaultIdle
    BY <1>1, <2>1 DEF VaultInOrder, VaultIdle
  <2>6. PositionsFollow
    BY <2>1, <2>2, <2>3, <2>4, <2>5 DEF PositionsFollow, Resumes, VaultIdle
  <2>7. VaultInOrder'
    <3>1. ~vStraggled' => VaultIdle
      BY <2>2
    <3>2. VaultIdle => \A q \in Passes : Vault!Running(q)' <=> q = p
      BY <2>3, <2>4 DEF VaultIdle
    <3>3. faults = 0 => ~vStraggled' /\ VaultIdle
      BY <1>1, <2>2, <2>5 DEF VaultInOrder
    <3>4. vCheckpoint' <= vPass'[p].at
      BY <1>4, <2>1, <2>3
    <3>5. QED
      BY <2>1, <3>1, <3>2, <3>3, <3>4 DEF VaultInOrder
  <2>8. QED
    BY <2>6, <2>7
<1>6. ASSUME NEW p \in Passes, Vault!SaveCheckpoint(p) PROVE PositionsFollow /\ VaultInOrder'
  <2>1. /\ Vault!Running(p) /\ ~(vPass[p].at < vPass[p].to)
        /\ vPass' = [vPass EXCEPT ![p] = Vault!NoPass]
        /\ vCheckpoint' = vPass[p].to /\ vAwaited' = vAwaited \ {p}
        /\ UNCHANGED <<vStraggled, faults>>
    BY <1>6 DEF Vault!SaveCheckpoint, Vault!Pending, Vault!End
  <2>2. vCheckpoint' = vPass[p].at
    BY <1>1, <2>1, VaultPassType
  <2>3. ~Vault!Running(p)' /\ \A q \in Passes \ {p} : vPass'[q] = vPass[q]
    BY <1>4, <2>1 DEF Vault!Running
  <2>4. \A q \in Passes \ {p} : Vault!Running(q)' <=> Vault!Running(q)
    BY <2>3 DEF Vault!Running
  <2>5. PositionsFollow
    BY <2>1, <2>2, <2>3, <2>4 DEF PositionsFollow, Resumes, VaultIdle
  <2>6. VaultInOrder'
    BY <1>1, <2>1, <2>3, <2>4 DEF VaultInOrder
  <2>7. QED
    BY <2>5, <2>6
<1>7. ASSUME Vault!Fault, \A q \in Passes : vPass'[q] \in {vPass[q], Vault!NoPass}
      PROVE  PositionsFollow /\ VaultInOrder'
  <2>1. UNCHANGED <<vCheckpoint, vStraggled>> /\ faults' # 0
    BY <1>4, <1>7 DEF Vault!Fault
  <2>2. \A q \in Passes : Vault!Running(q)' => Vault!Running(q) /\ vPass'[q] = vPass[q]
    BY <1>7 DEF Vault!Running
  <2>3. PositionsFollow
    BY <2>1, <2>2 DEF PositionsFollow, Resumes, VaultIdle
  <2>4. VaultInOrder'
    BY <1>1, <2>1, <2>2 DEF VaultInOrder
  <2>5. QED
    BY <2>3, <2>4
<1>8. ASSUME NEW p \in Passes, Vault!Throw(p) PROVE PositionsFollow /\ VaultInOrder'
  BY <1>4, <1>7, <1>8 DEF Vault!Throw
<1>9. ASSUME Vault!Fault, UNCHANGED vPass PROVE PositionsFollow /\ VaultInOrder'
  BY <1>7, <1>9
<1>10. ASSUME Vault!Stop PROVE PositionsFollow /\ VaultInOrder'
  <2>1. Vault!Fault /\ \A q \in Passes : vPass'[q] = Vault!NoPass
    BY <1>10, SamePasses DEF Vault!Stop
  <2>2. QED
    BY <1>7, <2>1
<1>11. ASSUME UNCHANGED <<vaultIndexer, faults>> PROVE PositionsFollow /\ VaultInOrder'
  BY <1>1, <1>11 DEF vaultIndexer, PositionsFollow, Resumes, VaultIdle, VaultInOrder,
                     Vault!Running
<1>12. PositionsFollow /\ VaultInOrder'
  BY <1>5, <1>6, <1>8, <1>9, <1>10, <1>11 DEF VaultTurn
<1>13. QED
  BY <1>2, <1>3, <1>12, PositionsKeep

LEMMA VaultSiteInit == Init => VaultSite
<1> SUFFICES ASSUME Init PROVE VaultSite
  OBVIOUS
<1>1. /\ Vault!Init /\ vEvents = <<>> /\ vCheckpoint = 0 /\ vAwaited = {}
      /\ vPass = [p \in Passes |-> Vault!NoPass] /\ vStraggled = FALSE /\ faults = 0
      /\ vRow = [g \in Grants |-> Vault!NoRow] /\ vScope \in GrantScopes
  BY SamePasses DEF Init, Vault!AppInit, Vault!IndexerInit
<1>2. GrantIInv /\ MoneyInv
  BY <1>1, GrantInitOK, MoneyInit
<1>3. Len(vEvents) = 0 /\ vEvents \in Seq(AGrantEvent) /\ 1..0 = {}
  BY <1>1
<1>4. /\ Vault!NoPass \in [at : Nat, to : 0..0] /\ Vault!NoPass.at <= Vault!NoPass.to
      /\ Vault!NoRow \in Vault!Row /\ MaxFaults \in Nat
  <2>1. MaxFaults \in Nat
    BY SharedTickAssumption DEF Vault!IndexerAssumption
  <2>2. Vault!NoPass \in [at : Nat, to : 0..0] /\ Vault!NoPass.at <= Vault!NoPass.to
    BY DEF Vault!NoPass
  <2>3. Vault!NoRow \in Vault!Row
    BY DEF Vault!NoRow, Vault!Row
  <2>4. QED
    BY <2>1, <2>2, <2>3
<1>5. Vault!AppTypeOK
  <2>1. /\ vCheckpoint \in 0..Len(vEvents) /\ faults \in 0..MaxFaults
    BY <1>1, <1>3, <1>4
  <2>2. /\ vPass \in [Passes -> [at : Nat, to : 0..0]]
        /\ \A p \in Passes : vPass[p].at <= vPass[p].to
    BY <1>1, <1>4
  <2>3. vRow \in [Grants -> Vault!Row]
    BY <1>1, <1>4
  <2>4. vAwaited \subseteq Passes /\ vStraggled \in BOOLEAN
    BY <1>1
  <2>5. QED
    BY <1>1, <1>3, <2>1, <2>2, <2>3, <2>4, SamePasses DEF Vault!AppTypeOK, Vault!IndexerTypeOK
<1>6. \A p \in Passes : ~Vault!Running(p)
  BY <1>1 DEF Vault!Running
<1>7. VaultInOrder
  BY <1>1, <1>6 DEF VaultInOrder
<1>8. ASSUME NEW g \in Grants PROVE GrantTold(g) /\ GrantFollowed(g)
  <2>1. GoneBy(g, 0) = 0 /\ PaidBy(g, 0) = 0
    BY TotalsStart
  <2>2. /\ created = {} /\ released[g] = 0 /\ residue[g] = 0
        /\ \A m \in Slots : vStatus[g][m] = "PENDING"
    BY <1>1 DEF Vault!Init
  <2>3. Vault!ReleasedSlots(g) = {}
    BY <2>2 DEF Vault!ReleasedSlots
  <2>4. Cardinality(Vault!ReleasedSlots(g)) = 0
    BY <2>3, FS_EmptySet
  <2>5. GivenOut(g) = 0
    BY <2>2 DEF GivenOut
  <2>6. \A n \in 1..Len(vEvents) : FALSE
    BY <1>3
  <2>7. GoneBy(g, Len(vEvents)) = GivenOut(g)
        /\ PaidBy(g, Len(vEvents)) = Cardinality(Vault!ReleasedSlots(g))
    BY <1>3, <2>1, <2>4, <2>5
  <2>8. GrantTold(g)
    BY <2>2, <2>6, <2>7 DEF GrantTold
  <2>9. vRow[g].released = 0 /\ vRow[g].count = 0
    BY <1>1 DEF Vault!NoRow
  <2>10. Counted(g, 0) /\ Covered(g, 0) /\ Exact(g, 0)
    BY <1>3, <2>1, <2>9 DEF Counted, Covered, Exact
  <2>11. Counted(g, vCheckpoint) /\ Covered(g, vCheckpoint) /\ Exact(g, vCheckpoint)
    BY <1>1, <2>10
  <2>12. GrantFollowed(g)
    BY <1>6, <2>11 DEF GrantFollowed
  <2>13. QED
    BY <2>8, <2>12
<1>9. QED
  BY <1>1, <1>2, <1>3, <1>5, <1>7, <1>8 DEF VaultSite

(* What a step of the site is to the vault and its table.                  *)
LEMMA VaultMoves ==
  ASSUME [Next]_vars
  PROVE  \/ Vault!ContractStep /\ UNCHANGED <<vRow, vScope>>
         \/ /\ UNCHANGED <<vaultContract, vScope>>
            /\ \/ \E p \in Passes : Vault!HandleGrantEvent(p)
               \/ VaultTurn /\ UNCHANGED vRow
<1>1. CASE VaultSteps
  <2>1. ASSUME NEW p \in Passes, Vault!PassStep(p)
        PROVE  /\ UNCHANGED <<vaultContract, vScope>>
               /\ Vault!HandleGrantEvent(p) \/ (Vault!SaveCheckpoint(p) /\ UNCHANGED vRow)
    BY <2>1 DEF Vault!PassStep, vaultContract, Vault!vars, Vault!consumerVars, Vault!grantVars
  <2>2. QED
    BY <1>1, <2>1 DEF VaultSteps, VaultTurn
<1>2. CASE CertifierSteps
  <2>1. UNCHANGED <<vaultContract, vaultIndexer, vRow, vScope>>
    BY <1>2 DEF CertifierSteps, vaultSide
  <2>2. UNCHANGED faults
    BY <1>2 DEF CertifierSteps, Certifier!ContractStep, Certifier!PassStep, Certifier!Log,
                Certifier!Emit, Certifier!EmitNothing, Certifier!indexerVars,
                Certifier!HandleCheckEvent, Certifier!HandleNext, Certifier!SaveCheckpoint
  <2>3. QED
    BY <2>1, <2>2 DEF VaultTurn
<1>3. ASSUME UNCHANGED <<vaultContract, certifierContract, tables>>, VaultTurn
      PROVE  /\ UNCHANGED <<vaultContract, vScope>>
             /\ VaultTurn /\ UNCHANGED vRow
  BY <1>3 DEF tables
<1>4. CASE Tick /\ UNCHANGED <<vaultContract, certifierContract, tables>>
  <2>1. VaultTurn
    BY <1>4 DEF Tick, VaultBegins, VaultTurn
  <2>2. QED
    BY <1>3, <1>4, <2>1
<1>5. ASSUME NEW p \in Passes, VaultThrows(p) \/ CertifierThrows(p) PROVE VaultTurn
  BY <1>5 DEF VaultThrows, CertifierThrows, Certifier!Throw, Certifier!Fault, Vault!Fault,
              VaultTurn
<1>6. NeighbourThrows => VaultTurn
  BY DEF NeighbourThrows, VaultTurn
<1>7. Restart => VaultTurn
  BY DEF Restart, VaultTurn
<1>8. CASE UNCHANGED vars
  BY <1>8 DEF vars, vaultSide, VaultTurn
<1>9. QED
  BY <1>1, <1>2, <1>3, <1>4, <1>5, <1>6, <1>7, <1>8 DEF Next

LEMMA VaultSiteNext == VaultSite /\ [Next]_vars => VaultSite'
<1> SUFFICES ASSUME VaultSite, [Next]_vars PROVE VaultSite'
  OBVIOUS
<1>1. QED
  BY VaultMoves, VaultContractKeeps, VaultHandleKeeps, VaultTurnKeeps

(* What the invariant says once every event was handled.                   *)
LEMMA GrantsAtRest == VaultSite => Vault!LedgerNeverShort /\ Vault!PageIsRight
<1> SUFFICES ASSUME VaultSite PROVE Vault!LedgerNeverShort /\ Vault!PageIsRight
  OBVIOUS
<1>1. Vault!AppTypeOK /\ MoneyTyped /\ vEvents \in Seq(AGrantEvent) /\ created \subseteq Grants
  BY DEF VaultSite, MoneyInv, MoneyTyped
<1>2. ASSUME vScope.followed, Vault!AtRest, NEW g \in created
      PROVE  /\ vRow[g].known
             /\ ~vStraggled => vRow[g].released >= released[g] + residue[g]
             /\ vRow[g].count >= Vault!Cardinality(Vault!ReleasedSlots(g))
             /\ faults = 0 => /\ vRow[g].released = released[g] + residue[g]
                              /\ vRow[g].count = Vault!Cardinality(Vault!ReleasedSlots(g))
  <2>1. GrantTold(g) /\ GrantFollowed(g) /\ g \in Grants
    BY <1>1, <1>2 DEF VaultSite
  <2>2. PICK k : k = Len(vEvents)
    OBVIOUS
  <2>3. vCheckpoint = k /\ VaultIdle
    BY <1>2, <2>2, SamePasses DEF Vault!AtRest, VaultIdle
  <2>4. /\ Counted(g, k) /\ (~vStraggled => Covered(g, k)) /\ (faults = 0 => Exact(g, k))
    BY <2>1, <2>3 DEF GrantFollowed, VaultIdle
  <2>5. /\ GoneBy(g, k) = released[g] + residue[g]
        /\ PaidBy(g, k) = Vault!Cardinality(Vault!ReleasedSlots(g))
    BY <2>1, <2>2, Counts DEF GrantTold, GivenOut
  <2>6. k \in 0..Len(vEvents) /\ k \in Nat
    BY <1>1, <2>2, GrantLogGrows
  <2>7. GoneBy(g, k) \in Nat /\ PaidBy(g, k) \in Nat
    BY <1>1, <2>1, <2>6, TotalsGrow
  <2>8. vRow[g].count \in Nat /\ vRow[g].released \in Nat
    BY <1>1, <2>1 DEF Vault!AppTypeOK, Vault!Row
  <2>9. vRow[g].known
    BY <2>1, <2>2, <2>4 DEF GrantTold, Counted
  <2>10. ~vStraggled => vRow[g].released >= released[g] + residue[g]
    BY <2>4, <2>5, <2>7, <2>8 DEF Covered
  <2>11. vRow[g].count >= Vault!Cardinality(Vault!ReleasedSlots(g))
    BY <2>4, <2>5, <2>7, <2>8 DEF Counted
  <2>12. faults = 0 => /\ vRow[g].released = released[g] + residue[g]
                       /\ vRow[g].count = Vault!Cardinality(Vault!ReleasedSlots(g))
    BY <2>4, <2>5 DEF Exact
  <2>13. QED
    BY <2>9, <2>10, <2>11, <2>12
<1>3. Vault!LedgerNeverShort
  BY <1>1, <1>2 DEF Vault!LedgerNeverShort
<1>4. ASSUME vScope.followed, Vault!AtRest, NEW g \in created
      PROVE  /\ \A m \in Slots :
                  /\ (\E i \in Ids : Vault!CanSubmit(g, m, i)) => Vault!OffersSubmission(g, m)
                  /\ Vault!OffersSubmission(g, m) /\ g \notin expired \cup reclaimed =>
                       \A i \in Ids : vAnswer[i] = "UNASKED" => Vault!CanSubmit(g, m, i)
             /\ Vault!CanReclaim(g) => Vault!OffersReclaim(g)
  BY <1>2, <1>4 DEF Vault!CanSubmit, Vault!CanReclaim, Vault!OffersSubmission,
                    Vault!OffersReclaim, Vault!HasPage, Vault!ShownStatus, Vault!Oracle!CanAsk
<1>5. Vault!PageIsRight
  BY <1>4 DEF Vault!PageIsRight
<1>6. QED
  BY <1>3, <1>5

LEMMA VaultSiteHolds == Spec => []VaultSite
  BY VaultSiteInit, VaultSiteNext, PTL DEF Spec
-----------------------------------------------------------------------------
(* The table of the checks.                                                *)

ACheckEvent ==
  [kind : {"CheckSubmitted", "CertificateIssued", "CheckRejected"},
   check : Certifier!Checks, question : Ids]

Tells(c, n, kind) == cEvents[n].check = c /\ cEvents[n].kind = kind

(* What an event says is true of its check for good.                       *)
Says(e) ==
  /\ cStatus[e.check] # "NONE"
  /\ e.kind = "CheckSubmitted" => cQuestion[e.check] = e.question
  /\ e.kind = "CertificateIssued" => cStatus[e.check] = "CERTIFIED"
  /\ e.kind = "CheckRejected" => cStatus[e.check] = "REJECTED"

EventTrue(n) ==
  /\ Says(cEvents[n])
  /\ cEvents[n].kind # "CheckSubmitted" =>
       \E m \in 1..n : Tells(cEvents[n].check, m, "CheckSubmitted")

AllTold(c) ==
  /\ cStatus[c] # "NONE" => \E n \in 1..Len(cEvents) : Tells(c, n, "CheckSubmitted")
  /\ cStatus[c] = "CERTIFIED" => \E n \in 1..Len(cEvents) : Tells(c, n, "CertificateIssued")
  /\ cStatus[c] = "REJECTED" => \E n \in 1..Len(cEvents) : Tells(c, n, "CheckRejected")

(* A row says nothing that is not true of its check.                       *)
RowTrue(c) ==
  \/ cRow[c] = Certifier!NoRow
  \/ /\ cStatus[c] # "NONE"
     /\ cRow[c].question = cQuestion[c]
     /\ cRow[c].status \in {"PENDING", cStatus[c]}

(* The row shows what the first k events said.                             *)
Applied(c, k) ==
  \A n \in 1..k : cEvents[n].check = c =>
    /\ cRow[c] # Certifier!NoRow
    /\ cEvents[n].kind = "CertificateIssued" => cRow[c].status = "CERTIFIED"
    /\ cEvents[n].kind = "CheckRejected" => cRow[c].status = "REJECTED"

(* The inductive invariant of the checks table.  Every pass only repeats   *)
(* what is true, so it may overlap with others and begin again.            *)
CheckSite ==
  /\ CheckIInv
  /\ Certifier!AppTypeOK
  /\ cEvents \in Seq(ACheckEvent)
  /\ \A n \in 1..Len(cEvents) : EventTrue(n)
  /\ cScope.followed => \A c \in Certifier!Checks : AllTold(c)
  /\ \A c \in Certifier!Checks :
       /\ RowTrue(c)
       /\ Applied(c, cCheckpoint)
       /\ \A p \in Passes : Applied(c, cPass[p].at)

LEMMA CheckLogGrows ==
  ASSUME cEvents \in Seq(ACheckEvent), NEW ev \in ACheckEvent, cEvents' = Append(cEvents, ev)
  PROVE  /\ cEvents' \in Seq(ACheckEvent)
         /\ Len(cEvents) \in Nat /\ Len(cEvents') = Len(cEvents) + 1
         /\ \A n \in 1..Len(cEvents) : cEvents'[n] = cEvents[n]
         /\ cEvents'[Len(cEvents) + 1] = ev
  OBVIOUS

(* A row shows what was applied as long as neither it nor the log changes. *)
LEMMA AppliedStill ==
  ASSUME cEvents \in Seq(ACheckEvent), NEW c, cRow'[c] = cRow[c], NEW k \in 0..Len(cEvents),
         UNCHANGED cEvents \/ \E ev \in ACheckEvent : cEvents' = Append(cEvents, ev),
         Applied(c, k)
  PROVE  Applied(c, k)'
<1>1. \A n \in 1..k : cEvents'[n] = cEvents[n]
  BY CheckLogGrows
<1>2. QED
  BY <1>1 DEF Applied

(* A log that tells more.                                                  *)
LEMMA TellsStill ==
  ASSUME cEvents \in Seq(ACheckEvent),
         UNCHANGED cEvents \/ \E ev \in ACheckEvent : cEvents' = Append(cEvents, ev),
         NEW c, NEW kind, NEW k \in 0..Len(cEvents), \E n \in 1..k : Tells(c, n, kind)
  PROVE  (\E n \in 1..k : Tells(c, n, kind))'
<1>1. \A n \in 1..k : cEvents'[n] = cEvents[n]
  BY CheckLogGrows
<1>2. QED
  BY <1>1 DEF Tells

(* The tick, the other side and the service do as much to the certifier.   *)
CertifierTurn ==
  \/ \E p \in Passes : Certifier!StartPass(p) \/ Certifier!SaveCheckpoint(p) \/ Certifier!Throw(p)
  \/ Certifier!Fault /\ cAwaited' \in {{}, cAwaited} /\ UNCHANGED cPass
  \/ Certifier!Stop
  \/ UNCHANGED <<certifierIndexer, faults>>

LEMMA CertifierPassType ==
  ASSUME Certifier!IndexerTypeOK, NEW p \in Passes
  PROVE  /\ cPass[p] \in [at : Nat, to : 0..Len(cEvents)]
         /\ cPass[p].at \in Nat /\ cPass[p].at <= cPass[p].to
  BY SamePasses DEF Certifier!IndexerTypeOK

LEMMA CertifierTurnTypes ==
  ASSUME Certifier!IndexerTypeOK, cEvents \in Seq(ACheckEvent), CertifierTurn
  PROVE  Certifier!IndexerTypeOK'
<1>1. Len(cEvents) \in Nat /\ 0 \in 0..Len(cEvents) /\ MaxFaults \in Nat
  BY SharedTickAssumption DEF Certifier!IndexerAssumption
<1>2. Certifier!NoPass \in [at : Nat, to : 0..Len(cEvents)]
      /\ Certifier!NoPass.at <= Certifier!NoPass.to
  BY <1>1 DEF Certifier!NoPass
<1>3. ASSUME NEW p \in Passes, Certifier!StartPass(p) PROVE Certifier!IndexerTypeOK'
  <2>1. [at |-> cCheckpoint, to |-> Len(cEvents)] \in [at : Nat, to : 0..Len(cEvents)]
        /\ cCheckpoint <= Len(cEvents)
    BY <1>1 DEF Certifier!IndexerTypeOK
  <2>2. cStraggled' \in BOOLEAN
    BY <1>3 DEF Certifier!StartPass, Certifier!IndexerTypeOK
  <2>3. QED
    BY <1>1, <1>3, <2>1, <2>2, SamePasses DEF Certifier!StartPass, Certifier!IndexerTypeOK
<1>4. ASSUME NEW p \in Passes, Certifier!SaveCheckpoint(p) PROVE Certifier!IndexerTypeOK'
  BY <1>2, <1>4, SamePasses DEF Certifier!SaveCheckpoint, Certifier!End, Certifier!IndexerTypeOK
<1>5. ASSUME NEW p \in Passes, Certifier!Throw(p) PROVE Certifier!IndexerTypeOK'
  BY <1>1, <1>2, <1>5, SamePasses DEF Certifier!Throw, Certifier!Fault, Certifier!IndexerTypeOK
<1>6. CASE Certifier!Fault /\ cAwaited' \in {{}, cAwaited} /\ UNCHANGED cPass
  BY <1>1, <1>6 DEF Certifier!Fault, Certifier!IndexerTypeOK
<1>7. CASE Certifier!Stop
  BY <1>1, <1>2, <1>7 DEF Certifier!Stop, Certifier!Fault, Certifier!IndexerTypeOK
<1>8. CASE UNCHANGED <<certifierIndexer, faults>>
  BY <1>8 DEF certifierIndexer, Certifier!IndexerTypeOK
<1>9. QED
  BY <1>3, <1>4, <1>5, <1>6, <1>7, <1>8 DEF CertifierTurn

LEMMA CertifierLogTypes ==
  ASSUME Certifier!IndexerTypeOK, cEvents \in Seq(ACheckEvent),
         NEW ev \in ACheckEvent, Certifier!Emit(ev)
  PROVE  Certifier!IndexerTypeOK'
<1>1. 0..Len(cEvents) \subseteq 0..Len(cEvents')
  BY CheckLogGrows DEF Certifier!Emit
<1>2. QED
  BY <1>1 DEF Certifier!Emit, Certifier!IndexerTypeOK

LEMMA CertifierHandleTypes ==
  ASSUME Certifier!IndexerTypeOK, cEvents \in Seq(ACheckEvent), NEW p \in Passes,
         Certifier!HandleNext(p)
  PROVE  Certifier!IndexerTypeOK'
<1>1. cPass[p].at + 1 \in Nat /\ cPass[p].at + 1 <= cPass[p].to
  BY CertifierPassType DEF Certifier!HandleNext, Certifier!Pending
<1>2. QED
  BY <1>1, SamePasses DEF Certifier!HandleNext, Certifier!IndexerTypeOK

(* What a transaction of the certifier tells: the fate of one check, or    *)
(* nothing.                                                                *)
CheckTells(c, s) ==
  \/ /\ Certifier!EmitNothing
     /\ ~cScope.followed \/ UNCHANGED cStatus
  \/ \E ev \in ACheckEvent :
       /\ cScope.followed /\ Certifier!Emit(ev) /\ ev.check = c
       /\ ev.kind = CASE s = "PENDING" -> "CheckSubmitted"
                      [] s = "CERTIFIED" -> "CertificateIssued"
                      [] s = "REJECTED" -> "CheckRejected"
       /\ cStatus'[c] = s /\ (s = "PENDING" => cQuestion'[c] = ev.question)
       /\ s # "PENDING" => cStatus[c] = "PENDING"

(* A check is submitted, or decided once it was.                           *)
CheckMoves(c) ==
  /\ \A d \in Certifier!Checks \ {c} : cStatus'[d] = cStatus[d] /\ cQuestion'[d] = cQuestion[d]
  /\ cStatus[c] # "NONE" => cQuestion'[c] = cQuestion[c] /\ cStatus'[c] # "NONE"
  /\ cStatus[c] \in {"CERTIFIED", "REJECTED"} => cStatus'[c] = cStatus[c]
  /\ \E s \in {"PENDING", "CERTIFIED", "REJECTED"} : CheckTells(c, s)

LEMMA SubmissionMoves ==
  ASSUME CheckIInv, NEW h \in Hashes, NEW i \in Ids, Certifier!SubmitCheck(h, i),
         Certifier!Log(Certifier!Event("CheckSubmitted", nextCheckId, i))
  PROVE  \E c \in Certifier!Checks : CheckMoves(c)
<1>1. PICK c \in Certifier!Checks : c = nextCheckId
  BY Constants DEF CheckIInv, Certifier!TypeOK, Certifier!SubmitCheck, Certifier!Checks
<1>2. ~Submitted(c) /\ CheckOK(c) /\ Certifier!TypeOK
  BY <1>1, CheckIds DEF CheckIInv, Submitted
<1>3. /\ cStatus' = [cStatus EXCEPT ![c] = "PENDING"]
      /\ cQuestion' = [cQuestion EXCEPT ![c] = i]
  BY <1>1 DEF Certifier!SubmitCheck
<1>4. /\ cStatus[c] = "NONE" /\ cStatus'[c] = "PENDING" /\ cQuestion'[c] = i
      /\ \A d \in Certifier!Checks \ {c} :
           cStatus'[d] = cStatus[d] /\ cQuestion'[d] = cQuestion[d]
  BY <1>2, <1>3 DEF CheckOK, Certifier!TypeOK
<1> DEFINE ev == Certifier!Event("CheckSubmitted", c, i)
<1>5. /\ ev \in ACheckEvent /\ ev.check = c /\ ev.kind = "CheckSubmitted"
      /\ ev.question = i
  BY DEF Certifier!Event, ACheckEvent
<1>6. IF cScope.followed THEN Certifier!Emit(ev) ELSE Certifier!EmitNothing
  BY <1>1 DEF Certifier!Log
<1> HIDE DEF ev
<1>7. CheckTells(c, "PENDING")
  BY <1>4, <1>5, <1>6 DEF CheckTells
<1>8. QED
  BY <1>4, <1>7 DEF CheckMoves

LEMMA VerdictMoves ==
  ASSUME CheckIInv, NEW i \in Ids, NEW o \in Certifier!Rulings, Certifier!Verdict(i, o),
         IF cStatus[cLink[i]] = "PENDING"
         THEN Certifier!Log(Certifier!Event(IF o = "TRUE" THEN "CertificateIssued"
                                            ELSE "CheckRejected", cLink[i], i))
         ELSE Certifier!EmitNothing
  PROVE  \E c \in Certifier!Checks : CheckMoves(c)
<1>1. Certifier!TypeOK /\ Certifier!Oracle!TypeOK /\ Certifier!OnVerdict(i, o)
      /\ Certifier!Rule(cLink[i], o) /\ UNCHANGED <<nextCheckId, asset, cQuestion>>
  BY DEF CheckIInv, Certifier!TypeOK, Certifier!Verdict
<1>2. Certifier!Waiting(i)
  BY <1>1, CheckVerdictType
<1>3. PICK c \in Certifier!Checks : cLink[i] = c /\ Submitted(c) /\ cQuestion[c] = i
  BY <1>2 DEF CheckIInv, AskedOK
<1>4. cStatus[c] = "PENDING"
  BY <1>2, <1>3, Different DEF CheckIInv, CheckOK, AskedOK, CheckSilent, Certifier!Waiting
<1> DEFINE s == IF o = "TRUE" THEN "CERTIFIED" ELSE "REJECTED"
           ev == Certifier!Event(IF o = "TRUE" THEN "CertificateIssued" ELSE "CheckRejected",
                                 c, i)
<1>5. cStatus' = [cStatus EXCEPT ![c] = s]
  BY <1>1, <1>3, <1>4 DEF Certifier!Rule
<1>6. /\ cStatus'[c] = s
      /\ \A d \in Certifier!Checks \ {c} : cStatus'[d] = cStatus[d]
  BY <1>1, <1>5 DEF Certifier!TypeOK
<1>7. /\ ev \in ACheckEvent /\ ev.check = c
      /\ ev.kind = IF o = "TRUE" THEN "CertificateIssued" ELSE "CheckRejected"
  BY DEF Certifier!Event, ACheckEvent
<1>8. IF cScope.followed THEN Certifier!Emit(ev) ELSE Certifier!EmitNothing
  BY <1>3, <1>4 DEF Certifier!Log
<1> HIDE DEF ev
<1>9. CheckTells(c, s)
  BY <1>4, <1>6, <1>7, <1>8 DEF CheckTells
<1>10. QED
  BY <1>1, <1>4, <1>6, <1>9 DEF CheckMoves

LEMMA CertifierContractMoves ==
  ASSUME CheckIInv, Certifier!ContractStep
  PROVE  \E c \in Certifier!Checks : CheckMoves(c)
<1>1. ASSUME NEW i \in Ids, Certifier!Overruled(i), Certifier!EmitNothing
      PROVE  \E c \in Certifier!Checks : CheckMoves(c)
  <2>1. UNCHANGED <<cStatus, cQuestion>>
    BY <1>1 DEF Certifier!Overruled, Certifier!checkVars
  <2>2. PICK c \in Certifier!Checks : TRUE
    <3>1. Certifier!Waiting(i)
      BY <1>1, CheckOverruledType DEF CheckIInv, Certifier!TypeOK, Certifier!Overruled
    <3>2. QED
      BY <3>1 DEF CheckIInv, AskedOK
  <2>3. QED
    BY <1>1, <2>1, <2>2 DEF CheckMoves, CheckTells
<1>2. QED
  BY <1>1, SubmissionMoves, VerdictMoves DEF Certifier!ContractStep

LEMMA CertifierContractKeeps ==
  ASSUME CheckSite, Certifier!ContractStep, UNCHANGED <<cRow, cScope>>
  PROVE  CheckSite'
<1>1. /\ CheckIInv /\ Certifier!IndexerTypeOK /\ Certifier!AppTypeOK
      /\ cEvents \in Seq(ACheckEvent)
      /\ \A d \in Certifier!Checks : cStatus[d] \in {"NONE", "PENDING", "CERTIFIED", "REJECTED"}
  BY DEF CheckSite, CheckIInv, Certifier!AppTypeOK, Certifier!TypeOK, Certifier!CheckStatus
<1>2. CheckIInv'
  BY <1>1, CheckNextOK DEF Certifier!ContractStep, Certifier!Next
<1>3. PICK c \in Certifier!Checks : CheckMoves(c)
  BY <1>1, CertifierContractMoves
<1>4. PICK s \in {"PENDING", "CERTIFIED", "REJECTED"} : CheckTells(c, s)
  BY <1>3 DEF CheckMoves
<1>5. /\ UNCHANGED <<cCheckpoint, cPass, cAwaited, cStraggled, faults>>
      /\ UNCHANGED cEvents \/ \E ev \in ACheckEvent : cEvents' = Append(cEvents, ev)
  BY <1>4 DEF CheckTells, Certifier!EmitNothing, Certifier!indexerVars, Certifier!Emit
<1>6. Certifier!IndexerTypeOK' /\ cEvents' \in Seq(ACheckEvent)
  <2>1. CASE Certifier!EmitNothing
    BY <1>1, <2>1 DEF Certifier!EmitNothing, Certifier!indexerVars, Certifier!IndexerTypeOK
  <2>2. ASSUME NEW ev \in ACheckEvent, Certifier!Emit(ev)
        PROVE  Certifier!IndexerTypeOK' /\ cEvents' \in Seq(ACheckEvent)
    BY <1>1, <2>2, CertifierLogTypes, CheckLogGrows DEF Certifier!Emit
  <2>3. QED
    BY <1>4, <2>1, <2>2 DEF CheckTells
<1>7. Certifier!AppTypeOK'
  BY <1>1, <1>6 DEF Certifier!AppTypeOK
<1>8. ASSUME NEW d \in Certifier!Checks
      PROVE  /\ cStatus[d] # "NONE" => cStatus'[d] # "NONE" /\ cQuestion'[d] = cQuestion[d]
             /\ cStatus[d] \in {"CERTIFIED", "REJECTED"} => cStatus'[d] = cStatus[d]
  BY <1>3 DEF CheckMoves
<1>9. ASSUME NEW n \in 1..Len(cEvents)
      PROVE  cEvents[n] \in ACheckEvent /\ cEvents'[n] = cEvents[n] /\ EventTrue(n)'
  <2>1. cEvents[n] \in ACheckEvent /\ cEvents'[n] = cEvents[n] /\ n \in 0..Len(cEvents)
    BY <1>1, <1>5, CheckLogGrows
  <2>2. PICK e \in ACheckEvent : e = cEvents[n]
    BY <2>1
  <2>3. e = cEvents'[n] /\ e.check \in Certifier!Checks /\ EventTrue(n)
    BY <2>1, <2>2 DEF CheckSite, ACheckEvent
  <2>4. Says(e)'
    BY <1>8, <2>2, <2>3 DEF EventTrue, Says
  <2>5. ASSUME e.kind # "CheckSubmitted"
        PROVE  (\E m \in 1..n : Tells(e.check, m, "CheckSubmitted"))'
    BY <1>1, <1>5, <2>1, <2>2, <2>3, <2>5, TellsStill DEF EventTrue
  <2>6. EventTrue(n)'
    BY <2>3, <2>4, <2>5 DEF EventTrue, Says, Tells
  <2>7. QED
    BY <2>1, <2>6
<1>10. ASSUME NEW d \in Certifier!Checks, NEW kind, \E n \in 1..Len(cEvents) : Tells(d, n, kind)
       PROVE  (\E n \in 1..Len(cEvents) : Tells(d, n, kind))'
  <2>1. Len(cEvents) \in 0..Len(cEvents) /\ \A n \in 1..Len(cEvents) : n \in 1..Len(cEvents')
    BY <1>1, <1>5, CheckLogGrows
  <2>2. QED
    BY <1>9, <1>10, <2>1 DEF Tells
<1>11. ASSUME Certifier!EmitNothing, ~cScope.followed \/ UNCHANGED cStatus
       PROVE  /\ \A n \in 1..Len(cEvents') : EventTrue(n)'
              /\ cScope'.followed => \A d \in Certifier!Checks : AllTold(d)'
  <2>1. \A n \in 1..Len(cEvents') : EventTrue(n)'
    BY <1>9, <1>11 DEF Certifier!EmitNothing, Certifier!indexerVars
  <2>2. cScope'.followed => \A d \in Certifier!Checks : AllTold(d)'
    BY <1>10, <1>11 DEF CheckSite, AllTold
  <2>3. QED
    BY <2>1, <2>2
<1>12. ASSUME NEW ev \in ACheckEvent, cScope.followed, Certifier!Emit(ev), ev.check = c,
              ev.kind = CASE s = "PENDING" -> "CheckSubmitted"
                          [] s = "CERTIFIED" -> "CertificateIssued"
                          [] s = "REJECTED" -> "CheckRejected",
              cStatus'[c] = s, s = "PENDING" => cQuestion'[c] = ev.question,
              s # "PENDING" => cStatus[c] = "PENDING"
       PROVE  /\ \A n \in 1..Len(cEvents') : EventTrue(n)'
              /\ \A d \in Certifier!Checks : AllTold(d)'
  <2>1. PICK L : L = Len(cEvents)
    OBVIOUS
  <2>2. cEvents' = Append(cEvents, ev)
    BY <1>12 DEF Certifier!Emit
  <2>3. /\ L \in Nat /\ Len(cEvents') = L + 1 /\ cEvents'[L + 1] = ev /\ L + 1 \in 1..(L + 1)
        /\ \A n \in 1..(L + 1) : n = L + 1 \/ n \in 1..Len(cEvents)
        /\ \A n \in 1..Len(cEvents) : n \in 1..(L + 1) /\ cEvents'[n] = cEvents[n]
    BY <1>1, <2>1, <2>2, CheckLogGrows
  <2>4. \A d \in Certifier!Checks : AllTold(d)
    BY <1>12 DEF CheckSite
  <2>5. s # "PENDING" => \E n \in 1..Len(cEvents) : Tells(c, n, "CheckSubmitted")
    BY <1>12, <2>4 DEF AllTold
  <2>6. EventTrue(L + 1)'
    <3>1. Says(ev)'
      BY <1>12 DEF Says
    <3>2. s # "PENDING" => (\E n \in 1..(L + 1) : Tells(c, n, "CheckSubmitted"))'
      BY <2>3, <2>5 DEF Tells
    <3>3. ev.kind # "CheckSubmitted" => s # "PENDING"
      BY <1>12
    <3>4. QED
      BY <1>12, <2>3, <3>1, <3>2, <3>3 DEF EventTrue, Says, Tells
  <2>7. \A n \in 1..Len(cEvents') : EventTrue(n)'
    <3>1. ASSUME NEW n \in 1..Len(cEvents') PROVE EventTrue(n)'
      <4>1. n = L + 1 \/ n \in 1..Len(cEvents)
        BY <2>3
      <4>2. QED
        BY <1>9, <2>6, <4>1
    <3>2. QED
      BY <3>1
  <2>8. ASSUME NEW d \in Certifier!Checks PROVE AllTold(d)'
    <3>1. CASE d # c
      BY <1>3, <1>10, <2>4, <3>1 DEF AllTold, CheckMoves
    <3>2. CASE d = c
      <4>1. (\E n \in 1..Len(cEvents) : Tells(c, n, ev.kind))'
        BY <1>12, <2>3 DEF Tells
      <4>2. s # "PENDING" => (\E n \in 1..Len(cEvents) : Tells(c, n, "CheckSubmitted"))'
        BY <1>10, <2>5
      <4>3. QED
        BY <1>12, <3>2, <4>1, <4>2 DEF AllTold
    <3>3. QED
      BY <3>1, <3>2
  <2>9. QED
    BY <2>7, <2>8
<1>13. /\ \A n \in 1..Len(cEvents') : EventTrue(n)'
       /\ cScope'.followed => \A d \in Certifier!Checks : AllTold(d)'
  BY <1>4, <1>11, <1>12 DEF CheckTells
<1>14. ASSUME NEW d \in Certifier!Checks
       PROVE  /\ RowTrue(d)'
              /\ Applied(d, cCheckpoint)'
              /\ \A p \in Passes : Applied(d, cPass[p].at)'
  <2>1. RowTrue(d)'
    BY <1>1, <1>8 DEF CheckSite, RowTrue
  <2>2. ASSUME NEW k \in 0..Len(cEvents), Applied(d, k) PROVE Applied(d, k)'
    BY <1>1, <1>5, <2>2, AppliedStill
  <2>3. Applied(d, cCheckpoint)'
    <3>1. PICK k : k = cCheckpoint
      OBVIOUS
    <3>2. k \in 0..Len(cEvents) /\ Applied(d, k) /\ k = cCheckpoint'
      BY <1>1, <1>5, <3>1 DEF CheckSite, Certifier!IndexerTypeOK
    <3>3. QED
      BY <2>2, <3>2 DEF Applied
  <2>4. ASSUME NEW p \in Passes PROVE Applied(d, cPass[p].at)'
    <3>1. PICK k : k = cPass[p].at
      OBVIOUS
    <3>2. k \in 0..Len(cEvents) /\ Applied(d, k) /\ k = cPass'[p].at
      BY <1>1, <1>5, <3>1, CertifierPassType, CheckLogGrows DEF CheckSite
    <3>3. QED
      BY <2>2, <3>2 DEF Applied
  <2>5. QED
    BY <2>1, <2>3, <2>4
<1>15. QED
  BY <1>2, <1>6, <1>7, <1>13, <1>14 DEF CheckSite

(* Nothing changes of what the certifier tells while the certifier stands. *)
LEMMA CertifierStands ==
  ASSUME CheckSite, UNCHANGED <<certifierContract, cEvents, cScope>>
  PROVE  /\ CheckIInv' /\ cEvents' \in Seq(ACheckEvent)
         /\ \A n \in 1..Len(cEvents') : EventTrue(n)'
         /\ cScope'.followed => \A c \in Certifier!Checks : AllTold(c)'
<1>1. UNCHANGED Certifier!vars /\ UNCHANGED <<cStatus, cQuestion, cEvents, cScope>>
  BY DEF certifierContract, Certifier!vars, Certifier!consumerVars, Certifier!checkVars
<1>2. CheckIInv'
  BY <1>1, CheckNextOK DEF CheckSite
<1>3. \A n \in 1..Len(cEvents') : EventTrue(n)'
  BY <1>1 DEF CheckSite, EventTrue, Says, Tells
<1>4. cScope'.followed => \A c \in Certifier!Checks : AllTold(c)'
  BY <1>1 DEF CheckSite, AllTold, Tells
<1>5. QED
  BY <1>1, <1>2, <1>3, <1>4 DEF CheckSite

(* What the handler makes of the row of the event's check.                 *)
LEMMA HandledCheck ==
  ASSUME CheckSite, NEW n \in 1..Len(cEvents), NEW e, e = cEvents[n],
         NEW r, r = cRow[e.check], NEW s, s = Certifier!Handled(r, e)
  PROVE  /\ e.check \in Certifier!Checks /\ s \in Certifier!Row
         /\ \/ s = Certifier!NoRow
            \/ /\ cStatus[e.check] # "NONE"
               /\ s.question = cQuestion[e.check]
               /\ s.status \in {"PENDING", cStatus[e.check]}
         /\ r # Certifier!NoRow =>
              /\ s # Certifier!NoRow
              /\ r.status # "PENDING" => s.status = r.status
              /\ e.kind = "CertificateIssued" => s.status = "CERTIFIED"
              /\ e.kind = "CheckRejected" => s.status = "REJECTED"
         /\ e.kind = "CheckSubmitted" => s # Certifier!NoRow
<1>1. e \in ACheckEvent /\ EventTrue(n) /\ cRow \in [Certifier!Checks -> Certifier!Row]
  BY DEF CheckSite, Certifier!AppTypeOK
<1>2. e.check \in Certifier!Checks /\ e.question \in Ids
      /\ e.kind \in {"CheckSubmitted", "CertificateIssued", "CheckRejected"} /\ Says(e)
  BY <1>1 DEF ACheckEvent, EventTrue
<1>3. r \in Certifier!Row /\ RowTrue(e.check) /\ cStatus[e.check] \in Certifier!CheckStatus
  BY <1>1, <1>2 DEF CheckSite, CheckIInv, Certifier!TypeOK
<1>4. CASE e.kind = "CheckSubmitted" /\ r = Certifier!NoRow
  <2>1. s = [status |-> "PENDING", question |-> e.question]
    BY <1>4 DEF Certifier!Handled
  <2>2. s # Certifier!NoRow
    BY <2>1 DEF Certifier!NoRow
  <2>3. s \in Certifier!Row
    BY <1>2, <2>1 DEF Certifier!Row, Certifier!CheckStatus
  <2>4. QED
    BY <1>2, <1>4, <2>1, <2>2, <2>3 DEF Says
<1>5. ASSUME NEW v \in {"CERTIFIED", "REJECTED"}, r # Certifier!NoRow,
             e.kind = IF v = "CERTIFIED" THEN "CertificateIssued" ELSE "CheckRejected"
      PROVE  /\ s = [status |-> v, question |-> r.question] /\ cStatus[e.check] = v
             /\ s # Certifier!NoRow /\ s \in Certifier!Row
             /\ r.question = cQuestion[e.check] /\ r.status \in {"PENDING", v}
             /\ cStatus[e.check] # "NONE"
  <2>1. cStatus[e.check] = v
    BY <1>2, <1>5 DEF Says
  <2>2. r = [status |-> r.status, question |-> r.question]
    BY <1>3 DEF Certifier!Row
  <2>3. s = [r EXCEPT !.status = v]
    BY <1>5 DEF Certifier!Handled
  <2>4. s = [status |-> v, question |-> r.question]
    BY <2>2, <2>3
  <2>5. s # Certifier!NoRow
    BY <2>4 DEF Certifier!NoRow
  <2>6. s \in Certifier!Row
    BY <1>3, <2>4 DEF Certifier!Row, Certifier!CheckStatus
  <2>7. r.question = cQuestion[e.check] /\ r.status \in {"PENDING", v}
    BY <1>3, <1>5, <2>1 DEF RowTrue
  <2>8. QED
    BY <2>1, <2>4, <2>5, <2>6, <2>7
<1>6. CASE r # Certifier!NoRow /\ e.kind # "CheckSubmitted"
  <2>1. PICK v \in {"CERTIFIED", "REJECTED"} :
          e.kind = IF v = "CERTIFIED" THEN "CertificateIssued" ELSE "CheckRejected"
    BY <1>2, <1>6
  <2>2. QED
    BY <1>2, <1>5, <1>6, <2>1
<1>7. CASE e.kind = "CheckSubmitted" /\ r # Certifier!NoRow
  BY <1>2, <1>3, <1>7 DEF Certifier!Handled, RowTrue
<1>8. CASE r = Certifier!NoRow /\ e.kind # "CheckSubmitted"
  BY <1>2, <1>3, <1>8 DEF Certifier!Handled
<1>9. QED
  BY <1>4, <1>6, <1>7, <1>8

LEMMA CertifierHandleKeeps ==
  ASSUME CheckSite, NEW p \in Passes, Certifier!HandleCheckEvent(p),
         UNCHANGED <<certifierContract, cScope>>
  PROVE  CheckSite'
<1>1. PICK k : k = cPass[p].at
  OBVIOUS
<1>2. /\ CheckIInv /\ Certifier!IndexerTypeOK /\ Certifier!AppTypeOK
      /\ cEvents \in Seq(ACheckEvent) /\ Len(cEvents) \in Nat
      /\ cRow \in [Certifier!Checks -> Certifier!Row]
  BY DEF CheckSite, Certifier!AppTypeOK
<1>3. /\ k < cPass[p].to /\ cPass' = [cPass EXCEPT ![p].at = k + 1]
      /\ UNCHANGED <<cEvents, cCheckpoint, cAwaited, cStraggled, faults>>
  BY <1>1 DEF Certifier!HandleCheckEvent, Certifier!HandleNext, Certifier!Pending
<1>4. k \in Nat /\ k + 1 \in 1..Len(cEvents)
  BY <1>1, <1>2, <1>3, CertifierPassType
<1>5. /\ cPass'[p].at = k + 1
      /\ \A q \in Passes \ {p} : cPass'[q] = cPass[q]
  BY <1>1, <1>2, <1>3, SamePasses DEF Certifier!IndexerTypeOK
<1>6. PICK e : e = cEvents[k + 1]
  OBVIOUS
<1>7. PICK r : r = cRow[e.check]
  OBVIOUS
<1>8. PICK s : s = Certifier!Handled(r, e)
  OBVIOUS
<1>9. cRow' = [cRow EXCEPT ![e.check] = s]
  BY <1>1, <1>6, <1>7, <1>8 DEF Certifier!HandleCheckEvent, Certifier!Upcoming
<1>10. /\ e.check \in Certifier!Checks /\ s \in Certifier!Row
       /\ \/ s = Certifier!NoRow
          \/ /\ cStatus[e.check] # "NONE"
             /\ s.question = cQuestion[e.check]
             /\ s.status \in {"PENDING", cStatus[e.check]}
       /\ r # Certifier!NoRow =>
            /\ s # Certifier!NoRow
            /\ r.status # "PENDING" => s.status = r.status
            /\ e.kind = "CertificateIssued" => s.status = "CERTIFIED"
            /\ e.kind = "CheckRejected" => s.status = "REJECTED"
       /\ e.kind = "CheckSubmitted" => s # Certifier!NoRow
  BY <1>4, <1>6, <1>7, <1>8, HandledCheck
<1>11. /\ cRow'[e.check] = s /\ cRow' \in [Certifier!Checks -> Certifier!Row]
       /\ \A c \in Certifier!Checks \ {e.check} : cRow'[c] = cRow[c]
  BY <1>2, <1>9, <1>10
<1>12. /\ CheckIInv' /\ cEvents' \in Seq(ACheckEvent)
       /\ \A n \in 1..Len(cEvents') : EventTrue(n)'
       /\ cScope'.followed => \A c \in Certifier!Checks : AllTold(c)'
  BY <1>3, CertifierStands
<1>13. Certifier!AppTypeOK'
  <2>1. Certifier!IndexerTypeOK'
    BY <1>2, CertifierHandleTypes DEF Certifier!HandleCheckEvent
  <2>2. QED
    BY <1>2, <1>11, <2>1 DEF Certifier!AppTypeOK
<1>14. ASSUME NEW c \in Certifier!Checks PROVE RowTrue(c)'
  <2>1. UNCHANGED <<cStatus, cQuestion>> /\ RowTrue(c)
    BY DEF certifierContract, CheckSite
  <2>2. QED
    BY <1>10, <1>11, <2>1 DEF RowTrue
<1>15. ASSUME NEW c \in Certifier!Checks, NEW k0 \in 0..Len(cEvents), Applied(c, k0)
       PROVE  Applied(c, k0)'
  <2>1. \A n \in 1..k0 : cEvents'[n] = cEvents[n] /\ n \in 1..Len(cEvents)
    BY <1>2, <1>3, <1>15
  <2>2. CASE c # e.check
    BY <1>11, <1>15, <2>1, <2>2 DEF Applied
  <2>3. CASE c = e.check
    BY <1>7, <1>10, <1>11, <1>15, <2>1, <2>3 DEF Applied
  <2>4. QED
    BY <2>2, <2>3
<1>16. ASSUME NEW c \in Certifier!Checks PROVE Applied(c, k + 1)'
  <2>1. Applied(c, k)
    BY <1>1 DEF CheckSite
  <2>2. Applied(c, k)'
    BY <1>2, <1>4, <1>15, <2>1
  <2>3. ASSUME e.check = c
        PROVE  /\ s # Certifier!NoRow
               /\ e.kind = "CertificateIssued" => s.status = "CERTIFIED"
               /\ e.kind = "CheckRejected" => s.status = "REJECTED"
    <3>1. CASE e.kind = "CheckSubmitted"
      BY <1>10, <3>1
    <3>2. CASE e.kind # "CheckSubmitted"
      <4>1. PICK m \in 1..(k + 1) : Tells(e.check, m, "CheckSubmitted")
        BY <1>4, <1>6, <3>2 DEF CheckSite, EventTrue
      <4>2. m \in 1..k
        BY <1>4, <1>6, <3>2, <4>1 DEF Tells
      <4>3. r # Certifier!NoRow
        BY <1>7, <2>1, <2>3, <4>1, <4>2 DEF Applied, Tells
      <4>4. QED
        BY <1>10, <3>2, <4>3
    <3>3. QED
      BY <3>1, <3>2
  <2>4. ASSUME NEW n \in 1..(k + 1) PROVE n = k + 1 \/ n \in 1..k
    BY <1>4
  <2>5. QED
    BY <1>3, <1>6, <1>11, <2>2, <2>3, <2>4 DEF Applied
<1>17. ASSUME NEW c \in Certifier!Checks
       PROVE  /\ Applied(c, cCheckpoint)'
              /\ \A q \in Passes : Applied(c, cPass[q].at)'
  <2>1. Applied(c, cCheckpoint)'
    <3>1. PICK j : j = cCheckpoint
      OBVIOUS
    <3>2. j \in 0..Len(cEvents) /\ Applied(c, j) /\ j = cCheckpoint'
      BY <1>2, <1>3, <3>1 DEF CheckSite, Certifier!IndexerTypeOK
    <3>3. QED
      BY <1>15, <3>2 DEF Applied
  <2>2. ASSUME NEW q \in Passes PROVE Applied(c, cPass[q].at)'
    <3>1. PICK j : j = cPass'[q].at
      OBVIOUS
    <3>2. CASE q = p
      BY <1>5, <1>16, <3>2 DEF Applied
    <3>3. CASE q # p
      <4>1. j = cPass[q].at /\ j \in 0..Len(cEvents)
        BY <1>2, <1>5, <3>1, <3>3, CertifierPassType
      <4>2. Applied(c, j)'
        BY <1>15, <4>1 DEF CheckSite
      <4>3. QED
        BY <3>1, <4>2 DEF Applied
    <3>4. QED
      BY <3>2, <3>3
  <2>3. QED
    BY <2>1, <2>2
<1>18. QED
  BY <1>12, <1>13, <1>14, <1>17 DEF CheckSite

LEMMA CertifierTurnKeeps ==
  ASSUME CheckSite, CertifierTurn, UNCHANGED <<certifierContract, cRow, cScope>>
  PROVE  CheckSite'
<1>1. /\ Certifier!IndexerTypeOK /\ Certifier!AppTypeOK /\ cEvents \in Seq(ACheckEvent)
  BY DEF CheckSite, Certifier!AppTypeOK
<1>2. UNCHANGED cEvents /\ UNCHANGED cRow /\ UNCHANGED cScope
  BY DEF CertifierTurn, Certifier!StartPass, Certifier!SaveCheckpoint, Certifier!Throw,
         Certifier!Fault, Certifier!Stop, certifierIndexer
<1>3. Certifier!AppTypeOK'
  BY <1>1, <1>2, CertifierTurnTypes DEF Certifier!AppTypeOK
<1>4. /\ CheckIInv' /\ cEvents' \in Seq(ACheckEvent)
      /\ \A n \in 1..Len(cEvents') : EventTrue(n)'
      /\ cScope'.followed => \A c \in Certifier!Checks : AllTold(c)'
  BY <1>2, CertifierStands
<1>5. /\ cCheckpoint' = cCheckpoint \/ \E p \in Passes : cCheckpoint' = cPass[p].at
      /\ \A p \in Passes : cPass'[p].at \in {0, cCheckpoint, cPass[p].at}
  <2>1. ASSUME NEW p \in Passes, Certifier!StartPass(p) PROVE <1>5!:
    BY <1>1, <2>1, SamePasses DEF Certifier!StartPass, Certifier!IndexerTypeOK
  <2>2. ASSUME NEW p \in Passes, Certifier!SaveCheckpoint(p) PROVE <1>5!:
    <3>1. cCheckpoint' = cPass[p].at
      BY <1>1, <2>2, CertifierPassType DEF Certifier!SaveCheckpoint, Certifier!Pending
    <3>2. cPass' = [cPass EXCEPT ![p] = Certifier!NoPass]
      BY <2>2 DEF Certifier!SaveCheckpoint, Certifier!End
    <3>3. QED
      BY <1>1, <3>1, <3>2, SamePasses DEF Certifier!NoPass, Certifier!IndexerTypeOK
  <2>3. ASSUME NEW p \in Passes, Certifier!Throw(p) PROVE <1>5!:
    BY <1>1, <2>3, SamePasses
       DEF Certifier!Throw, Certifier!Fault, Certifier!NoPass, Certifier!IndexerTypeOK
  <2>4. ASSUME Certifier!Fault, UNCHANGED cPass PROVE <1>5!:
    BY <2>4 DEF Certifier!Fault
  <2>5. ASSUME Certifier!Stop PROVE <1>5!:
    BY <2>5, SamePasses DEF Certifier!Stop, Certifier!Fault, Certifier!NoPass
  <2>6. ASSUME UNCHANGED <<certifierIndexer, faults>> PROVE <1>5!:
    BY <2>6 DEF certifierIndexer
  <2>7. QED
    BY <2>1, <2>2, <2>3, <2>4, <2>5, <2>6 DEF CertifierTurn
<1>6. ASSUME NEW c \in Certifier!Checks
      PROVE  /\ RowTrue(c)'
             /\ Applied(c, cCheckpoint)'
             /\ \A p \in Passes : Applied(c, cPass[p].at)'
  <2>1. RowTrue(c)'
    BY <1>2 DEF CheckSite, RowTrue, certifierContract
  <2>2. Applied(c, 0) /\ Applied(c, cCheckpoint) /\ \A p \in Passes : Applied(c, cPass[p].at)
    BY DEF CheckSite, Applied
  <2>3. ASSUME NEW k, Applied(c, k) PROVE Applied(c, k)'
    BY <1>2, <2>3 DEF Applied
  <2>4. Applied(c, cCheckpoint)'
    <3>1. PICK k : k = cCheckpoint'
      OBVIOUS
    <3>2. Applied(c, k)
      BY <1>5, <2>2, <3>1
    <3>3. Applied(c, k)'
      BY <2>3, <3>2
    <3>4. QED
      BY <3>1, <3>3 DEF Applied
  <2>5. ASSUME NEW p \in Passes PROVE Applied(c, cPass[p].at)'
    <3>1. PICK k : k = cPass'[p].at
      OBVIOUS
    <3>2. Applied(c, k)
      BY <1>5, <2>2, <3>1
    <3>3. Applied(c, k)'
      BY <2>3, <3>2
    <3>4. QED
      BY <3>1, <3>3 DEF Applied
  <2>6. QED
    BY <2>1, <2>4, <2>5
<1>7. QED
  BY <1>3, <1>4, <1>6 DEF CheckSite

LEMMA CheckSiteInit == Init => CheckSite
<1> SUFFICES ASSUME Init PROVE CheckSite
  OBVIOUS
<1>1. /\ Certifier!Init /\ cEvents = <<>> /\ cCheckpoint = 0 /\ cAwaited = {}
      /\ cPass = [p \in Passes |-> Certifier!NoPass] /\ cStraggled = FALSE /\ faults = 0
      /\ cRow = [c \in Certifier!Checks |-> Certifier!NoRow] /\ cScope \in CheckScopes
  BY SamePasses DEF Init, Certifier!AppInit, Certifier!IndexerInit
<1>2. CheckIInv
  BY <1>1, CheckInitOK
<1>3. Len(cEvents) = 0 /\ cEvents \in Seq(ACheckEvent)
  BY <1>1
<1>4. MaxFaults \in Nat
  BY SharedTickAssumption DEF Certifier!IndexerAssumption
<1>5. Certifier!NoPass \in [at : Nat, to : 0..0] /\ Certifier!NoPass.at <= Certifier!NoPass.to
      /\ Certifier!NoPass.at = 0
  BY DEF Certifier!NoPass
<1>6. Certifier!NoRow \in Certifier!Row
  BY DEF Certifier!NoRow, Certifier!Row, Certifier!CheckStatus
<1>7. Certifier!AppTypeOK
  <2>1. cCheckpoint \in 0..Len(cEvents) /\ faults \in 0..MaxFaults
    BY <1>1, <1>3, <1>4
  <2>2. /\ cPass \in [Passes -> [at : Nat, to : 0..0]]
        /\ \A p \in Passes : cPass[p].at <= cPass[p].to
    BY <1>1, <1>5
  <2>3. cRow \in [Certifier!Checks -> Certifier!Row]
    BY <1>1, <1>6
  <2>4. cAwaited \subseteq Passes /\ cStraggled \in BOOLEAN
    BY <1>1
  <2>5. QED
    BY <1>1, <1>3, <2>1, <2>2, <2>3, <2>4, SamePasses
       DEF Certifier!AppTypeOK, Certifier!IndexerTypeOK
<1>8. \A n \in 1..Len(cEvents) : FALSE
  BY <1>3
<1>9. ASSUME NEW c \in Certifier!Checks
      PROVE  /\ AllTold(c) /\ RowTrue(c)
             /\ Applied(c, cCheckpoint)
             /\ \A p \in Passes : Applied(c, cPass[p].at)
  <2>1. AllTold(c) /\ RowTrue(c)
    BY <1>1 DEF AllTold, RowTrue, Certifier!Init
  <2>2. cCheckpoint = 0 /\ \A p \in Passes : cPass[p].at = 0
    BY <1>1, <1>5
  <2>3. Applied(c, 0)
    BY DEF Applied
  <2>4. QED
    BY <2>1, <2>2, <2>3
<1>10. QED
  BY <1>2, <1>3, <1>7, <1>8, <1>9 DEF CheckSite

LEMMA CertifierMoves ==
  ASSUME [Next]_vars
  PROVE  \/ Certifier!ContractStep /\ UNCHANGED <<cRow, cScope>>
         \/ /\ UNCHANGED <<certifierContract, cScope>>
            /\ \/ \E p \in Passes : Certifier!HandleCheckEvent(p)
               \/ CertifierTurn /\ UNCHANGED cRow
<1>1. CASE CertifierSteps
  <2>1. ASSUME NEW p \in Passes, Certifier!PassStep(p)
        PROVE  /\ UNCHANGED <<certifierContract, cScope>>
               /\ \/ Certifier!HandleCheckEvent(p)
                  \/ Certifier!SaveCheckpoint(p) /\ UNCHANGED cRow
    BY <2>1 DEF Certifier!PassStep, certifierContract, Certifier!vars,
                Certifier!consumerVars, Certifier!checkVars
  <2>2. QED
    BY <1>1, <2>1 DEF CertifierSteps, CertifierTurn
<1>2. CASE VaultSteps
  <2>1. UNCHANGED <<certifierContract, certifierIndexer, cRow, cScope>>
    BY <1>2 DEF VaultSteps, certifierSide
  <2>2. UNCHANGED faults
    BY <1>2 DEF VaultSteps, Vault!ContractStep, Vault!PassStep, Vault!Log, Vault!Emit,
                Vault!EmitNothing, Vault!indexerVars, Vault!HandleGrantEvent,
                Vault!HandleNext, Vault!SaveCheckpoint
  <2>3. QED
    BY <2>1, <2>2 DEF CertifierTurn
<1>3. ASSUME UNCHANGED <<vaultContract, certifierContract, tables>>, CertifierTurn
      PROVE  /\ UNCHANGED <<certifierContract, cScope>>
             /\ CertifierTurn /\ UNCHANGED cRow
  BY <1>3 DEF tables
<1>4. Tick => CertifierTurn
  BY DEF Tick, CertifierBegins, CertifierTurn
<1>5. ASSUME NEW p \in Passes, VaultThrows(p) \/ CertifierThrows(p) PROVE CertifierTurn
  BY <1>5 DEF VaultThrows, CertifierThrows, Vault!Throw, Vault!Fault, Certifier!Fault,
              CertifierTurn
<1>6. NeighbourThrows => CertifierTurn
  BY DEF NeighbourThrows, CertifierTurn
<1>7. Restart => CertifierTurn
  BY DEF Restart, CertifierTurn
<1>8. CASE UNCHANGED vars
  BY <1>8 DEF vars, certifierSide, CertifierTurn
<1>9. QED
  BY <1>1, <1>2, <1>3, <1>4, <1>5, <1>6, <1>7, <1>8 DEF Next

LEMMA CheckSiteNext == CheckSite /\ [Next]_vars => CheckSite'
  BY CertifierMoves, CertifierContractKeeps, CertifierHandleKeeps, CertifierTurnKeeps

LEMMA ChecksAtRest == CheckSite => Certifier!ChecksMirrored
<1> SUFFICES ASSUME CheckSite PROVE Certifier!ChecksMirrored
  OBVIOUS
<1>1. /\ CheckIInv /\ Certifier!AppTypeOK /\ cRow \in [Certifier!Checks -> Certifier!Row]
      /\ Certifier!TypeOK
  BY DEF CheckSite, Certifier!AppTypeOK, CheckIInv
<1>2. ASSUME NEW c \in Certifier!Checks, Certifier!ShowsCertificate(c)
      PROVE  cStatus[c] = "CERTIFIED" /\ certificate[asset[c]] # 0
  <2>1. cStatus[c] = "CERTIFIED"
    BY <1>2 DEF CheckSite, RowTrue, Certifier!ShowsCertificate, Certifier!NoRow
  <2>2. asset[c] \in Hashes /\ cHeard[cQuestion[c]] = <<"TRUE">>
    BY <1>1, <2>1, Different DEF CheckIInv, CheckOK
  <2>3. certificate[asset[c]] \in Certifier!HeardTrue(asset[c])
    BY <1>1, <2>2 DEF CheckIInv, Certifier!CertifiedByVerdict, Certifier!HeardTrue
  <2>4. certificate[asset[c]] \in Certifier!Checks
    BY <2>3 DEF Certifier!HeardTrue
  <2>5. QED
    BY <1>1, <2>1, <2>4, CheckIds
<1>3. ASSUME cScope.followed, Certifier!AtRest, NEW c \in Certifier!Checks
      PROVE  cRow[c] = [status |-> cStatus[c], question |-> cQuestion[c]]
  <2>1. Applied(c, Len(cEvents)) /\ RowTrue(c) /\ AllTold(c) /\ CheckOK(c)
    BY <1>3 DEF CheckSite, CheckIInv, Certifier!AtRest
  <2>2. cRow[c] = [status |-> cRow[c].status, question |-> cRow[c].question]
    BY <1>1 DEF Certifier!Row
  <2>3. cStatus[c] \in {"NONE", "PENDING", "CERTIFIED", "REJECTED"}
    BY <1>1 DEF Certifier!TypeOK, Certifier!CheckStatus
  <2>4. CASE cStatus[c] = "NONE"
    BY <2>1, <2>4 DEF RowTrue, CheckOK, Certifier!NoRow
  <2>5. CASE cStatus[c] # "NONE"
    <3>1. cRow[c] # Certifier!NoRow
      BY <2>1, <2>5 DEF AllTold, Applied, Tells
    <3>2. cRow[c].question = cQuestion[c] /\ cRow[c].status \in {"PENDING", cStatus[c]}
      BY <2>1, <3>1 DEF RowTrue
    <3>3. cRow[c].status = cStatus[c]
      BY <2>1, <2>3, <2>5, <3>2 DEF AllTold, Applied, Tells
    <3>4. QED
      BY <2>2, <3>2, <3>3
  <2>6. QED
    BY <2>4, <2>5
<1>4. QED
  BY <1>1, <1>2, <1>3 DEF Certifier!ChecksMirrored

LEMMA CheckSiteHolds == Spec => []CheckSite
  BY CheckSiteInit, CheckSiteNext, PTL DEF Spec

(* Under the one timer, with throws, stragglers and restarts, the tables   *)
(* and the pages are right: a certificate that a page shows is in the      *)
(* contract at every moment, and once every event was handled no check is  *)
(* told otherwise than it stands, no grant seems to have given out less    *)
(* than it has unless a straggler wrote late, its totals are exact if      *)
(* nothing failed, and nothing that the vault takes is withheld.           *)
THEOREM TablesAndPages == Spec => []SiteAgrees
<1>1. VaultSite /\ CheckSite => SiteAgrees
  BY GrantsAtRest, ChecksAtRest DEF SiteAgrees
<1>2. QED
  BY <1>1, VaultSiteHolds, CheckSiteHolds, PTL
=============================================================================
