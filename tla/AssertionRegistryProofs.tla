----------------------- MODULE AssertionRegistryProofs -----------------------
(***************************************************************************)
(* Theorems of AssertionRegistry, for any identifiers, accounts, bonds,    *)
(* periods and enforcers: type correctness, exact settlement, a single and *)
(* true callback, disjoint windows, finality, and the promise to the       *)
(* applications (VerdictOracle).                                           *)
(***************************************************************************)
EXTENDS AssertionRegistry, Sums, TLAPS

(* The amounts of a settlement are naturals and add up to what the record  *)
(* and the challenger's bond hold, whatever the ruling.                    *)
LEMMA SettlementExact ==
  ASSUME NEW a \in Assertion, NEW b \in Nat, NEW final
  PROVE  /\ Settlement(a, b, final) \in Payout
         /\ (a.challenger = NoAccount => b = 0)
              => Total(Settlement(a, b, final)) = a.bond + b
<1>1. a.bond \in Nat /\ a.bond + b \in Nat
  BY DEF Assertion
<1>2. CASE a.challenger = NoAccount
  <2>1. CASE final = "INVALID"
    BY <1>1, <1>2, <2>1 DEF Settlement, Payout, Pay, Total
  <2>2. CASE final # "INVALID"
    BY <1>1, <1>2, <2>2 DEF Settlement, Payout, Pay, Total
  <2>3. QED
    BY <2>1, <2>2
<1>3. CASE a.challenger # NoAccount
  <2>1. CASE final = "INVALID"
    BY <1>1, <1>3, <2>1 DEF Settlement, Payout, Pay, Total
  <2>2. CASE final # "INVALID" /\ final # a.originalOutcome
    BY <1>1, <1>3, <2>2 DEF Settlement, Payout, Pay, Total
  <2>3. CASE final # "INVALID" /\ final = a.originalOutcome
    BY <1>1, <1>3, <2>3 DEF Settlement, Payout, Pay, Total
  <2>4. QED
    BY <2>1, <2>2, <2>3
<1>4. QED
  BY <1>2, <1>3

LEMMA TotalNat == \A p \in Payout : Total(p) \in Nat
  BY DEF Payout, Total

LEMMA RulingOf == \A o \in Outcomes : IsRuling(o) => o \in Rulings
  BY DEF Outcomes, IsRuling, Rulings

(* A settlement the registry can afford leaves well-typed books.           *)
LEMMA SettleBondsType ==
  ASSUME TypeOK, NEW i \in Ids, NEW a \in Assertion, NEW final, SettleBonds(i, a, final)
  PROVE  /\ challengeBond' \in [Ids -> Nat]
         /\ paid' \in [Ids -> Payout]
         /\ pot' \in Nat
<1> DEFINE p == Settlement(a, challengeBond[i], final)
<1>1. p \in Payout /\ Total(p) \in Nat
  BY SettlementExact, TotalNat DEF TypeOK
<1>2. Total(p) <= pot
  BY DEF SettleBonds, CanSettle, CanPay
<1>3. QED
  BY <1>1, <1>2 DEF SettleBonds, TypeOK

(* So does _finalise, with a ruling.                                       *)
LEMMA FinaliseType ==
  ASSUME TypeOK, NEW i \in Ids, NEW a \in Assertion, NEW final \in Rulings,
         Finalise(i, a, final)
  PROVE  /\ assertion' \in [Ids -> Assertion]
         /\ challengeBond' \in [Ids -> Nat]
         /\ paid' \in [Ids -> Payout]
         /\ pot' \in Nat
         /\ delivered' \in [Ids -> Seq(Rulings)]
<1>1. Resolved(a, final) \in Assertion
  BY DEF Resolved, Assertion, Statuses, Rulings, Outcomes
<1>2. assertion' \in [Ids -> Assertion]
  BY <1>1 DEF Finalise, TypeOK
<1>3. Append(delivered[i], final) \in Seq(Rulings)
  BY DEF TypeOK
<1>4. delivered' \in [Ids -> Seq(Rulings)]
  BY <1>3 DEF Finalise, Dispatch, TypeOK
<1>5. QED
  BY <1>2, <1>4, SettleBondsType DEF Finalise
-----------------------------------------------------------------------------
LEMMA AdministerType == TypeOK /\ Administer => TypeOK'
<1> SUFFICES ASSUME TypeOK, Administer PROVE TypeOK'
  OBVIOUS
<1> USE DEF TypeOK, books
<1>1. ASSUME NEW e \in Enforcers, SetEnforcer(e) PROVE TypeOK'
  BY <1>1 DEF SetEnforcer
<1>2. ASSUME NEW e \in Enforcers, AuthorizeRegistry(e) PROVE TypeOK'
  BY <1>2 DEF AuthorizeRegistry
<1>3. ASSUME NEW e \in Enforcers, RevokeRegistry(e) PROVE TypeOK'
  BY <1>3 DEF RevokeRegistry
<1>4. ASSUME NEW a \in Accounts, SetFeeSink(a) PROVE TypeOK'
  BY <1>4 DEF SetFeeSink
<1>5. CASE GrantEnforcerRole
  BY <1>5 DEF GrantEnforcerRole
<1>6. QED
  BY <1>1, <1>2, <1>3, <1>4, <1>5 DEF Administer

(* Closing an assertion.  Whichever way it is resolved, if the challenger  *)
(* and its bond agree, the books it leaves are those of Settled.           *)
LEMMA Closing ==
  ASSUME TypeOK, NEW i \in Ids, NEW a \in Assertion, NEW final \in Rulings,
         challengeBond[i] = (IF a.challenger = NoAccount THEN 0 ELSE a.bond),
         SettleBonds(i, a, final),
         assertion' = [assertion EXCEPT ![i] = Resolved(a, final)],
         delivered'[i] \in {<<>>, <<final>>},
         delivered'[i] # <<>> =>
           /\ a.mode = "AUDITED" =>
                (elapsed'[i] <= a.period <=> a.challenger # NoAccount)
           /\ a.challenger = NoAccount => final = a.originalOutcome
  PROVE  Settled(i)'
<1> DEFINE p == Settlement(a, challengeBond[i], final)
           r == Resolved(a, final)
<1>1. assertion'[i] = r
  BY DEF TypeOK
<1>2. /\ r.outcome = final /\ r.mode = a.mode /\ r.bond = a.bond
      /\ r.challenger = a.challenger /\ r.period = a.period
      /\ r.originalOutcome = a.originalOutcome
  BY DEF Resolved, Assertion
<1>3. paid'[i] = p /\ challengeBond'[i] = 0
  BY DEF SettleBonds, TypeOK
<1>4. a.bond \in Nat
  BY DEF Assertion
<1>5. Total(p) = (PostedFor(i))'
  BY <1>1, <1>2, <1>4, SettlementExact DEF PostedFor, TypeOK
<1>6. FairTo(i)'
  <2>1. CASE a.challenger = NoAccount
    BY <1>1, <1>2, <1>3, <1>4, <2>1 DEF FairTo, Settlement, Pay
  <2>2. CASE a.challenger # NoAccount
    BY <1>1, <1>2, <1>3, <1>4, <2>2 DEF FairTo, Settlement, Pay
  <2>3. QED
    BY <2>1, <2>2
<1>7. QED
  BY <1>1, <1>2, <1>3, <1>5, <1>6 DEF Settled

(* The books of an assertion no step touches stay as they were.            *)
LEMMA Frame ==
  ASSUME NEW j \in Ids,
         assertion'[j] = assertion[j], challengeBond'[j] = challengeBond[j],
         elapsed'[j] = elapsed[j], paid'[j] = paid[j], delivered'[j] = delivered[j]
  PROVE  /\ Settled(j) => Settled(j)'
         /\ Unsettled(j) => Unsettled(j)'
  BY DEF Settled, Unsettled, FairTo, PostedFor

BooksOK(j) == IF assertion[j].status = "RESOLVED" THEN Settled(j) ELSE Unsettled(j)

LEMMA FrameBooks ==
  ASSUME NEW j \in Ids, BooksOK(j),
         assertion'[j] = assertion[j], challengeBond'[j] = challengeBond[j],
         elapsed'[j] = elapsed[j], paid'[j] = paid[j], delivered'[j] = delivered[j]
  PROVE  BooksOK(j)'
  BY Frame DEF BooksOK

LEMMA InvBooks == RegistryInv <=> TypeOK /\ \A j \in Ids : BooksOK(j)
  BY DEF RegistryInv, BooksOK
-----------------------------------------------------------------------------
LEMMA InitInv == Init => RegistryInv
<1> SUFFICES ASSUME Init PROVE RegistryInv
  OBVIOUS
<1>1. Absent \in Assertion
  BY DEF Absent, Assertion, Statuses, Modes, Outcomes
<1>2. NoPayout \in Payout
  BY DEF NoPayout, Pay, Payout
<1>3. TypeOK
  BY <1>1, <1>2, RegistryAssumption
     DEF Init, EmptyBooks, Constructed, Deployed, TypeOK
<1>4. ASSUME NEW i \in Ids
      PROVE  assertion[i].status # "RESOLVED" /\ Unsettled(i)
  BY DEF Init, EmptyBooks, Absent, Unsettled
<1>5. QED
  BY <1>3, <1>4 DEF RegistryInv
-----------------------------------------------------------------------------
LEMMA SubmitVerdictInv ==
  ASSUME RegistryInv, NEW i \in Ids, NEW o \in Outcomes, SubmitVerdict(i, o)
  PROVE  RegistryInv'
<1> DEFINE a == Judged(assertion[i], o)
<1>1. TypeOK /\ \A j \in Ids : BooksOK(j)
  BY InvBooks
<1>2. o \in Rulings /\ assertion[i].status = "OPEN" /\ assertion[i] \in Assertion
  BY <1>1, RulingOf DEF SubmitVerdict, CanSubmit, TypeOK
<1>3. a \in Assertion
  BY <1>2 DEF Judged, Assertion, Statuses, Rulings, Outcomes
<1>4. /\ a.status = "VERDICTED" /\ a.originalOutcome = o /\ a.outcome = o
      /\ a.mode = assertion[i].mode /\ a.challenger = assertion[i].challenger
      /\ a.bond = assertion[i].bond /\ a.period = assertion[i].period
  BY <1>2 DEF Judged, Assertion
<1>5. Unsettled(i) /\ a.challenger = NoAccount /\ challengeBond[i] = 0
      /\ delivered[i] = <<>>
  BY <1>1, <1>2, <1>4 DEF BooksOK, Unsettled
<1>6. elapsed' \in [Ids -> 0..(MaxPeriod + 1)] /\ UNCHANGED <<wiring, donated>>
  BY <1>1, RegistryAssumption DEF SubmitVerdict, CanSubmit, TypeOK
<1>7. CASE a.mode = "INSTANT" /\ Finalise(i, a, o)
  <2>1. TypeOK'
    BY <1>1, <1>2, <1>3, <1>6, <1>7, FinaliseType DEF TypeOK, wiring
  <2>2. delivered'[i] = <<o>>
    BY <1>1, <1>5, <1>7 DEF Finalise, Dispatch, TypeOK
  <2>3. Settled(i)'
    BY <1>1, <1>2, <1>3, <1>4, <1>5, <1>7, <2>2, Closing DEF Finalise
  <2>4. assertion'[i].status = "RESOLVED"
    BY <1>1, <1>3, <1>7 DEF Finalise, Resolved, TypeOK, Assertion
  <2>5. BooksOK(i)'
    BY <2>3, <2>4 DEF BooksOK
  <2>6. ASSUME NEW j \in Ids, j # i PROVE BooksOK(j)'
    BY <1>1, <1>7, <2>6, FrameBooks
       DEF Finalise, SettleBonds, Dispatch, SubmitVerdict, CanSubmit, TypeOK
  <2>7. QED
    BY <2>1, <2>5, <2>6 DEF RegistryInv, BooksOK
<1>8. CASE /\ a.mode = "AUDITED"
           /\ assertion' = [assertion EXCEPT ![i] = a]
           /\ UNCHANGED <<challengeBond, pot, paid, delivered>>
  <2>1. TypeOK'
    BY <1>1, <1>3, <1>6, <1>8 DEF TypeOK, wiring
  <2>2. assertion'[i] = a
    BY <1>1, <1>8 DEF TypeOK
  <2>3. BooksOK(i)'
    BY <1>2, <1>4, <1>5, <1>8, <2>2 DEF BooksOK, Unsettled
  <2>4. ASSUME NEW j \in Ids, j # i PROVE BooksOK(j)'
    BY <1>1, <1>8, <2>4, FrameBooks DEF SubmitVerdict, CanSubmit, TypeOK
  <2>5. QED
    BY <2>1, <2>3, <2>4 DEF RegistryInv, BooksOK
<1>9. QED
  BY <1>7, <1>8 DEF SubmitVerdict, CanSubmit

(* Both paths of resolveAssertion finalise the stored record.              *)
LEMMA FinaliseInv ==
  ASSUME RegistryInv, NEW i \in Ids, NEW final \in Rulings,
         assertion[i].status \in {"VERDICTED", "CHALLENGED"},
         assertion[i].status = "VERDICTED" =>
           elapsed[i] > assertion[i].period /\ final = assertion[i].originalOutcome,
         Finalise(i, assertion[i], final),
         UNCHANGED <<elapsed, wiring, donated>>
  PROVE  RegistryInv'
<1> DEFINE a == assertion[i]
<1>1. TypeOK /\ (\A j \in Ids : BooksOK(j)) /\ a \in Assertion
  BY InvBooks DEF TypeOK
<1>2. Unsettled(i)
  BY <1>1 DEF BooksOK
<1>3. TypeOK'
  BY <1>1, FinaliseType DEF TypeOK, wiring
<1>4. delivered'[i] = <<final>>
  BY <1>1, <1>2 DEF Finalise, Dispatch, TypeOK, Unsettled
<1>5. challengeBond[i] = (IF a.challenger = NoAccount THEN 0 ELSE a.bond)
  BY <1>2 DEF Unsettled
<1>6. elapsed'[i] <= a.period <=> a.challenger # NoAccount
  <2>1. elapsed[i] \in Nat /\ a.period \in Nat
    BY <1>1 DEF TypeOK, Assertion
  <2>2. QED
    BY <1>2, <2>1 DEF Unsettled
<1>7. a.challenger = NoAccount => final = a.originalOutcome
  BY <1>2 DEF Unsettled
<1>8. Settled(i)'
  BY <1>1, <1>4, <1>5, <1>6, <1>7, Closing DEF Finalise
<1>9. assertion'[i].status = "RESOLVED"
  BY <1>1 DEF Finalise, Resolved, TypeOK, Assertion
<1>10. BooksOK(i)'
  BY <1>8, <1>9 DEF BooksOK
<1>11. ASSUME NEW j \in Ids, j # i PROVE BooksOK(j)'
  BY <1>1, <1>11, FrameBooks DEF Finalise, SettleBonds, Dispatch, TypeOK
<1>12. QED
  BY <1>3, <1>10, <1>11 DEF RegistryInv, BooksOK

LEMMA ForceResolveInv ==
  ASSUME RegistryInv, NEW i \in Ids, NEW o \in Outcomes, ForceResolve(i, o)
  PROVE  RegistryInv'
<1> DEFINE a == assertion[i]
<1>1. TypeOK /\ (\A j \in Ids : BooksOK(j)) /\ a \in Assertion /\ o \in Rulings
  BY InvBooks, RulingOf DEF TypeOK, ForceResolve, CanForce
<1>2. Unsettled(i)
  BY <1>1 DEF BooksOK, ForceResolve, CanForce, Live
<1>3. Resolved(a, o) \in Assertion /\ Resolved(a, o).status = "RESOLVED"
  BY <1>1 DEF Resolved, Assertion, Statuses, Rulings, Outcomes
<1>4. TypeOK'
  BY <1>1, <1>3, SettleBondsType DEF ForceResolve, TypeOK, wiring
<1>5. challengeBond[i] = (IF a.challenger = NoAccount THEN 0 ELSE a.bond)
  BY <1>2 DEF Unsettled
<1>6. delivered'[i] = <<>>
  BY <1>2 DEF ForceResolve, Unsettled
<1>7. Settled(i)'
  BY <1>1, <1>5, <1>6, Closing DEF ForceResolve
<1>8. BooksOK(i)'
  BY <1>1, <1>3, <1>7 DEF BooksOK, ForceResolve, TypeOK
<1>9. ASSUME NEW j \in Ids, j # i PROVE BooksOK(j)'
  BY <1>1, <1>9, FrameBooks DEF ForceResolve, SettleBonds, TypeOK
<1>10. QED
  BY <1>4, <1>8, <1>9 DEF RegistryInv, BooksOK

LEMMA CreateInv ==
  ASSUME RegistryInv, NEW i \in Ids, NEW who \in Accounts, NEW m \in Modes,
         NEW b \in Bonds, NEW p \in Periods, CreateAssertion(i, who, m, b, p)
  PROVE  RegistryInv'
<1> DEFINE r == Opened(who, m, b, p)
<1>1. TypeOK /\ \A j \in Ids : BooksOK(j)
  BY InvBooks
<1>2. b \in Nat /\ p \in Nat
  BY RegistryAssumption
<1>3. r.status = "OPEN" /\ r.challenger = NoAccount
  BY DEF Opened
<1>4. r \in Assertion
  BY <1>2 DEF Opened, Assertion, Statuses, Outcomes
<1>5. TypeOK'
  BY <1>1, <1>2, <1>4 DEF CreateAssertion, TypeOK, wiring
<1>6. BooksOK(i)'
  BY <1>1, <1>3 DEF BooksOK, Unsettled, CreateAssertion, Exists, TypeOK
<1>7. ASSUME NEW j \in Ids, j # i PROVE BooksOK(j)'
  BY <1>1, <1>7, FrameBooks DEF CreateAssertion, TypeOK
<1>8. QED
  BY <1>5, <1>6, <1>7 DEF RegistryInv, BooksOK

LEMMA ChallengeInv ==
  ASSUME RegistryInv, NEW i \in Ids, NEW who \in Accounts,
         ChallengeAssertion(i, who)
  PROVE  RegistryInv'
<1> DEFINE a == assertion[i]
           r == [a EXCEPT !.status = "CHALLENGED", !.challenger = who]
<1>1. TypeOK /\ (\A j \in Ids : BooksOK(j)) /\ a \in Assertion
  BY InvBooks DEF TypeOK
<1>2. assertion' = [assertion EXCEPT ![i] = r]
  BY <1>1 DEF ChallengeAssertion, CanChallenge, TypeOK
<1>3. /\ r \in Assertion /\ r.status = "CHALLENGED" /\ r.challenger = who
      /\ r.mode = a.mode /\ r.bond = a.bond /\ r.period = a.period
      /\ r.originalOutcome = a.originalOutcome
  BY <1>1 DEF Assertion, Statuses
<1>4. a.bond \in Nat /\ who # NoAccount
  BY <1>1, RegistryAssumption DEF Assertion
<1>5. TypeOK'
  BY <1>1, <1>2, <1>3, <1>4 DEF ChallengeAssertion, CanChallenge, TypeOK, wiring
<1>6. Unsettled(i)
  BY <1>1 DEF BooksOK, ChallengeAssertion, CanChallenge
<1>7. BooksOK(i)'
  BY <1>1, <1>2, <1>3, <1>4, <1>6
     DEF BooksOK, Unsettled, ChallengeAssertion, CanChallenge, TypeOK
<1>8. ASSUME NEW j \in Ids, j # i PROVE BooksOK(j)'
  BY <1>1, <1>2, <1>8, FrameBooks DEF ChallengeAssertion, CanChallenge, TypeOK
<1>9. QED
  BY <1>5, <1>7, <1>8 DEF RegistryInv, BooksOK

LEMMA TickInv == RegistryInv /\ Tick => RegistryInv'
<1> SUFFICES ASSUME RegistryInv, Tick PROVE RegistryInv'
  OBVIOUS
<1>1. TypeOK /\ \A j \in Ids : BooksOK(j)
  BY InvBooks
<1>2. TypeOK'
  BY <1>1, RegistryAssumption DEF Tick, Aging, TypeOK, wiring
<1>3. ASSUME NEW j \in Ids PROVE BooksOK(j)'
  <2>1. CASE assertion[j].status = "VERDICTED"
    BY <1>1, <2>1 DEF Tick, BooksOK, Unsettled
  <2>2. CASE assertion[j].status # "VERDICTED"
    BY <1>1, <2>2, FrameBooks DEF Tick, Aging, TypeOK
  <2>3. QED
    BY <2>1, <2>2
<1>4. QED
  BY <1>2, <1>3 DEF RegistryInv, BooksOK

(* Administration and donations do not touch the books.                    *)
LEMMA AsideInv ==
  ASSUME RegistryInv,
         Administer \/ (\E x \in 1..MaxDonation : Receive(x)) \/ UNCHANGED vars
  PROVE  RegistryInv'
<1>1. TypeOK /\ \A j \in Ids : BooksOK(j)
  BY InvBooks
<1>2. TypeOK' /\ UNCHANGED <<assertion, challengeBond, elapsed, paid, delivered>>
  <2>1. CASE Administer
    <3>1. UNCHANGED books
      BY <2>1 DEF Administer, SetEnforcer, AuthorizeRegistry, RevokeRegistry,
                  SetFeeSink, GrantEnforcerRole
    <3>2. QED
      BY <1>1, <2>1, <3>1, AdministerType DEF books
  <2>2. ASSUME NEW x \in 1..MaxDonation, Receive(x)
        PROVE  TypeOK' /\ UNCHANGED <<assertion, challengeBond, elapsed, paid, delivered>>
    BY <1>1, <2>2, RegistryAssumption DEF Receive, TypeOK, wiring
  <2>3. CASE UNCHANGED vars
    BY <1>1, <2>3 DEF vars, books, wiring, TypeOK
  <2>4. QED
    BY <2>1, <2>2, <2>3
<1>3. ASSUME NEW j \in Ids PROVE BooksOK(j)'
  BY <1>1, <1>2, FrameBooks
<1>4. QED
  BY <1>2, <1>3 DEF RegistryInv, BooksOK
-----------------------------------------------------------------------------
LEMMA NextInv == RegistryInv /\ [Next]_vars => RegistryInv'
<1> SUFFICES ASSUME RegistryInv, [Next]_vars PROVE RegistryInv'
  OBVIOUS
<1>1. CASE Administer \/ (\E x \in 1..MaxDonation : Receive(x)) \/ UNCHANGED vars
  BY <1>1, AsideInv
<1>2. CASE Tick
  BY <1>2, TickInv
<1>3. ASSUME NEW i \in Ids, NEW who \in Accounts, NEW m \in Modes, NEW b \in Bonds,
             NEW p \in Periods, CreateAssertion(i, who, m, b, p)
      PROVE  RegistryInv'
  BY <1>3, CreateInv
<1>4. ASSUME NEW i \in Ids, NEW o \in Outcomes, SubmitVerdict(i, o)
      PROVE  RegistryInv'
  BY <1>4, SubmitVerdictInv
<1>5. ASSUME NEW i \in Ids, NEW who \in Accounts, ChallengeAssertion(i, who)
      PROVE  RegistryInv'
  BY <1>5, ChallengeInv
<1>6. ASSUME NEW i \in Ids, ResolveUnchallenged(i) PROVE RegistryInv'
  <2>1. assertion[i].originalOutcome \in Rulings
    BY <1>6 DEF RegistryInv, Unsettled, ResolveUnchallenged, CanResolveUnchallenged
  <2>2. QED
    BY <1>6, <2>1, FinaliseInv DEF ResolveUnchallenged, CanResolveUnchallenged
<1>7. ASSUME NEW c \in Enforcers \cup {Escalation}, NEW i \in Ids, NEW o \in Outcomes,
             ResolveChallenged(c, i, o)
      PROVE  RegistryInv'
  BY <1>7, RulingOf, FinaliseInv DEF ResolveChallenged, CanResolve
<1>8. ASSUME NEW i \in Ids, NEW o \in Outcomes, ForceResolve(i, o)
      PROVE  RegistryInv'
  BY <1>8, ForceResolveInv
<1>9. QED
  BY <1>1, <1>2, <1>3, <1>4, <1>5, <1>6, <1>7, <1>8 DEF Next, NextUnappealed

(* The inductive invariant holds of every behaviour of the registry.       *)
THEOREM InvariantHolds == Spec => []RegistryInv
<1>1. Init => RegistryInv
  BY InitInv
<1>2. RegistryInv /\ [Next]_vars => RegistryInv'
  BY NextInv
<1>3. QED
  BY <1>1, <1>2, PTL DEF Spec

(* Every variable keeps its type.                                          *)
THEOREM TypeCorrect == Spec => []TypeOK
<1>1. RegistryInv => TypeOK
  BY DEF RegistryInv
<1>2. QED
  BY <1>1, InvariantHolds, PTL

(* An assertion pays out exactly what was posted for it, when and only     *)
(* when it is resolved: no bond is paid twice, kept or lost.               *)
THEOREM SettlementCorrect == Spec => []SettledExactly
<1>1. RegistryInv => SettledExactly
  <2> SUFFICES ASSUME RegistryInv, NEW i \in Ids
               PROVE  Total(paid[i]) =
                        IF assertion[i].status = "RESOLVED" THEN PostedFor(i) ELSE 0
    BY DEF SettledExactly
  <2>1. CASE assertion[i].status = "RESOLVED"
    BY <2>1 DEF RegistryInv, Settled
  <2>2. CASE assertion[i].status # "RESOLVED"
    BY <2>2 DEF RegistryInv, Unsettled, NoPayout, Pay, Total
  <2>3. QED
    BY <2>1, <2>2
<1>2. QED
  BY <1>1, InvariantHolds, PTL

(* The fee sink, the challenger and the asserter get what the final        *)
(* outcome entitles them to, also after forceResolve.                      *)
THEOREM SettlementFair == Spec => []FairSettlement
<1>1. RegistryInv => FairSettlement
  BY DEF RegistryInv, FairSettlement, Settled
<1>2. QED
  BY <1>1, InvariantHolds, PTL

(* The application hears one outcome at most, and the recorded one.        *)
THEOREM CallbackOnce == Spec => []HeardOnce
<1>1. RegistryInv => HeardOnce
  BY DEF RegistryInv, HeardOnce, Settled, Unsettled
<1>2. QED
  BY <1>1, InvariantHolds, PTL

(* The challenge window and the finalisation window share no instant, for  *)
(* every challenge period.                                                 *)
THEOREM WindowsDisjoint == Spec => []WindowHonoured
<1>1. RegistryInv => WindowHonoured
  BY DEF RegistryInv, WindowHonoured, Settled, Unsettled
<1>2. QED
  BY <1>1, InvariantHolds, PTL

(* What the application hears of an unchallenged assertion is what the     *)
(* judge said.                                                             *)
THEOREM VerdictStands == Spec => []JudgeStands
<1>1. RegistryInv => JudgeStands
  BY DEF RegistryInv, JudgeStands, Settled, Unsettled
<1>2. QED
  BY <1>1, InvariantHolds, PTL
-----------------------------------------------------------------------------
(* Solvency.  A step touches the stake of one assertion at most, and moves *)
(* the ether by as much as that stake changes.                             *)
LEMMA StakeNat == ASSUME TypeOK, NEW i \in Ids PROVE StakeOf(i) \in Nat
  BY DEF TypeOK, StakeOf, Assertion

LEMMA SolventStep ==
  ASSUME TypeOK, TypeOK', Solvent, NEW i \in Ids,
         \A j \in Ids \ {i} : StakeOf(j)' = StakeOf(j),
         pot' - donated' - StakeOf(i)' = pot - donated - StakeOf(i)
  PROVE  Solvent'
<1> DEFINE f == [j \in Ids |-> StakeOf(j)]
           g == [j \in Ids |-> StakeOf(j)']
<1>1. \A j \in Ids : f[j] \in Int /\ g[j] \in Int
  <2> TAKE j \in Ids
  <2>1. StakeOf(j) \in Nat
    BY StakeNat
  <2>2. assertion'[j].bond \in Nat /\ challengeBond'[j] \in Nat
    BY DEF TypeOK, Assertion
  <2>3. StakeOf(j)' \in Nat
    BY <2>2 DEF StakeOf
  <2>4. QED
    BY <2>1, <2>3
<1>2. \A j \in Ids \ {i} : g[j] = f[j]
  OBVIOUS
<1>3. SumFunctionOnSet(g, Ids) = SumFunctionOnSet(f, Ids) - f[i] + g[i]
  <2> HIDE DEF f, g
  <2>1. QED
    BY <1>1, <1>2, SumChanged, RegistryAssumption
<1>4. SumFunctionOnSet(f, Ids) \in Int
  <2> HIDE DEF f, g
  <2>1. QED
    BY <1>1, SumInt, RegistryAssumption
<1>5. f[i] = StakeOf(i) /\ g[i] = StakeOf(i)' /\ f[i] \in Int /\ g[i] \in Int
  BY <1>1
<1>6. pot \in Int /\ pot' \in Int /\ donated \in Int /\ donated' \in Int
  BY DEF TypeOK
<1>7. pot = donated + SumFunctionOnSet(f, Ids)
  BY DEF Solvent
<1>8. pot' = donated' + SumFunctionOnSet(g, Ids)
  <2> HIDE DEF f, g
  <2>1. QED
    BY <1>3, <1>4, <1>5, <1>6, <1>7
<1>9. QED
  BY <1>8 DEF Solvent

(* Settling assertion i, whose record is a, releases its whole stake.      *)
LEMMA SettledSolvent ==
  ASSUME TypeOK, TypeOK', Solvent, NEW i \in Ids, NEW a \in Assertion, NEW final,
         Live(i), a.bond = assertion[i].bond,
         challengeBond[i] = (IF a.challenger = NoAccount THEN 0 ELSE a.bond),
         SettleBonds(i, a, final),
         assertion' = [assertion EXCEPT ![i] = Resolved(a, final)],
         donated' = donated
  PROVE  Solvent'
<1> DEFINE p == Settlement(a, challengeBond[i], final)
<1>1. a.bond \in Nat /\ challengeBond[i] \in Nat
  BY DEF Assertion, TypeOK
<1>2. pot' = pot - (a.bond + challengeBond[i])
  BY <1>1, SettlementExact DEF SettleBonds
<1>3. StakeOf(i) = a.bond + challengeBond[i]
  BY DEF StakeOf
<1>4. StakeOf(i)' = 0
  BY DEF StakeOf, Live, Resolved, TypeOK, Assertion
<1>5. \A j \in Ids \ {i} : StakeOf(j)' = StakeOf(j)
  BY DEF StakeOf, Live, SettleBonds, TypeOK
<1>6. pot' - donated' - StakeOf(i)' = pot - donated - StakeOf(i)
  BY <1>1, <1>2, <1>3, <1>4 DEF TypeOK
<1>7. QED
  BY <1>5, <1>6, SolventStep

(* A step that moves no ether but donations and changes no stake.          *)
LEMMA SolventAside ==
  ASSUME TypeOK, TypeOK', Solvent, pot' - donated' = pot - donated,
         \A j \in Ids : StakeOf(j)' = StakeOf(j)
  PROVE  Solvent'
<1>1. [j \in Ids |-> StakeOf(j)'] = [j \in Ids |-> StakeOf(j)]
  OBVIOUS
<1>2. SumFunctionOnSet([j \in Ids |-> StakeOf(j)], Ids) \in Int
  <2>1. \A j \in Ids : [k \in Ids |-> StakeOf(k)][j] \in Int
    BY StakeNat
  <2>2. QED
    BY <2>1, SumInt, RegistryAssumption
<1>3. pot \in Int /\ pot' \in Int /\ donated \in Int /\ donated' \in Int
  BY DEF TypeOK
<1>4. QED
  BY <1>1, <1>2, <1>3 DEF Solvent

LEMMA CreateSolvent ==
  ASSUME RegistryInv, TypeOK', Solvent, NEW i \in Ids, NEW who, NEW m, NEW b \in Bonds,
         NEW p, CreateAssertion(i, who, m, b, p)
  PROVE  Solvent'
<1>1. TypeOK /\ b \in Nat /\ assertion[i].status = "NONE"
  BY RegistryAssumption DEF RegistryInv, CreateAssertion, Exists
<1>2. challengeBond[i] = 0
  BY <1>1 DEF RegistryInv, Unsettled
<1>3. StakeOf(i) = 0
  BY <1>1 DEF StakeOf, Live
<1>4. StakeOf(i)' = b
  BY <1>1, <1>2 DEF StakeOf, Live, CreateAssertion, Opened, TypeOK
<1>5. \A j \in Ids \ {i} : StakeOf(j)' = StakeOf(j)
  BY <1>1 DEF StakeOf, Live, CreateAssertion, TypeOK
<1>6. pot' - donated' - StakeOf(i)' = pot - donated - StakeOf(i)
  BY <1>1, <1>3, <1>4 DEF TypeOK, CreateAssertion
<1>7. QED
  BY <1>1, <1>5, <1>6, SolventStep

LEMMA ChallengeSolvent ==
  ASSUME RegistryInv, TypeOK', Solvent, NEW i \in Ids, NEW who, ChallengeAssertion(i, who)
  PROVE  Solvent'
<1> DEFINE a == assertion[i]
<1>1. TypeOK /\ a \in Assertion /\ a.status = "VERDICTED" /\ a.bond \in Nat
  BY DEF RegistryInv, TypeOK, ChallengeAssertion, CanChallenge, Assertion
<1>2. challengeBond[i] = 0
  BY <1>1 DEF RegistryInv, Unsettled
<1>3. StakeOf(i) = a.bond
  BY <1>1, <1>2 DEF StakeOf, Live
<1>4. StakeOf(i)' = a.bond + a.bond
  BY <1>1 DEF StakeOf, Live, ChallengeAssertion, CanChallenge, TypeOK, Assertion
<1>5. \A j \in Ids \ {i} : StakeOf(j)' = StakeOf(j)
  BY <1>1 DEF StakeOf, Live, ChallengeAssertion, CanChallenge, TypeOK
<1>6. pot' - donated' - StakeOf(i)' = pot - donated - StakeOf(i)
  BY <1>1, <1>3, <1>4 DEF TypeOK, ChallengeAssertion, CanChallenge
<1>7. QED
  BY <1>1, <1>5, <1>6, SolventStep

LEMMA SubmitSolvent ==
  ASSUME RegistryInv, TypeOK', Solvent, NEW i \in Ids, NEW o \in Outcomes, SubmitVerdict(i, o)
  PROVE  Solvent'
<1> DEFINE a == Judged(assertion[i], o)
<1>1. TypeOK /\ o \in Rulings /\ assertion[i].status = "OPEN" /\ assertion[i] \in Assertion
  BY RulingOf DEF RegistryInv, TypeOK, SubmitVerdict, CanSubmit
<1>2. /\ a \in Assertion /\ a.status = "VERDICTED" /\ a.bond = assertion[i].bond
      /\ a.challenger = assertion[i].challenger
  BY <1>1 DEF Judged, Assertion, Statuses, Rulings, Outcomes
<1>3. a.challenger = NoAccount /\ challengeBond[i] = 0
  BY <1>1, <1>2 DEF RegistryInv, Unsettled
<1>4. CASE Finalise(i, a, o)
  <2>1. Live(i) /\ donated' = donated
    BY <1>1 DEF SubmitVerdict, CanSubmit, Live
  <2>2. /\ SettleBonds(i, a, o)
        /\ assertion' = [assertion EXCEPT ![i] = Resolved(a, o)]
    BY <1>4 DEF Finalise
  <2>3. QED
    BY <1>1, <1>2, <1>3, <2>1, <2>2, SettledSolvent
<1>5. CASE /\ assertion' = [assertion EXCEPT ![i] = a]
           /\ UNCHANGED <<challengeBond, pot, paid, delivered>>
  <2>1. \A j \in Ids : StakeOf(j)' = StakeOf(j)
    BY <1>1, <1>2, <1>5 DEF StakeOf, Live, TypeOK
  <2>2. QED
    BY <1>1, <1>5, <2>1, SolventAside DEF SubmitVerdict, CanSubmit
<1>6. QED
  BY <1>4, <1>5 DEF SubmitVerdict, CanSubmit

LEMMA ResolveSolvent ==
  ASSUME RegistryInv, TypeOK', Solvent, NEW i \in Ids, NEW final, Live(i),
         assertion' = [assertion EXCEPT ![i] = Resolved(assertion[i], final)],
         SettleBonds(i, assertion[i], final), donated' = donated
  PROVE  Solvent'
<1>1. TypeOK /\ assertion[i] \in Assertion
  BY DEF RegistryInv, TypeOK
<1>2. challengeBond[i] =
        (IF assertion[i].challenger = NoAccount THEN 0 ELSE assertion[i].bond)
  BY DEF RegistryInv, Live, Unsettled
<1>3. QED
  BY <1>1, <1>2, SettledSolvent

LEMMA SolventNext == RegistryInv /\ Solvent /\ [Next]_vars => Solvent'
<1> SUFFICES ASSUME RegistryInv, Solvent, [Next]_vars PROVE Solvent'
  OBVIOUS
<1>1. TypeOK /\ TypeOK'
  BY NextInv DEF RegistryInv
<1>2. CASE Administer \/ Tick \/ UNCHANGED vars
  <2>1. UNCHANGED <<assertion, challengeBond, pot, donated>>
    BY <1>2 DEF Administer, SetEnforcer, AuthorizeRegistry, RevokeRegistry,
                SetFeeSink, GrantEnforcerRole, Tick, vars, books
  <2>2. QED
    BY <1>1, <2>1, SolventAside DEF StakeOf, Live
<1>3. ASSUME NEW x \in 1..MaxDonation, Receive(x) PROVE Solvent'
  <2>1. UNCHANGED <<assertion, challengeBond>> /\ pot' - donated' = pot - donated
    BY <1>1, <1>3, RegistryAssumption DEF Receive, TypeOK
  <2>2. QED
    BY <1>1, <2>1, SolventAside DEF StakeOf, Live
<1>4. ASSUME NEW i \in Ids, ResolveUnchallenged(i) PROVE Solvent'
  <2>1. /\ Live(i) /\ donated' = donated
        /\ Finalise(i, assertion[i], assertion[i].originalOutcome)
    BY <1>4 DEF ResolveUnchallenged, CanResolveUnchallenged, Live
  <2>2. QED
    BY <1>1, <2>1, ResolveSolvent DEF Finalise
<1>5. ASSUME NEW c, NEW i \in Ids, NEW o \in Outcomes, ResolveChallenged(c, i, o)
      PROVE  Solvent'
  <2>1. Live(i) /\ donated' = donated /\ Finalise(i, assertion[i], o)
    BY <1>5 DEF ResolveChallenged, CanResolve, Live
  <2>2. QED
    BY <1>1, <2>1, ResolveSolvent DEF Finalise
<1>6. ASSUME NEW i \in Ids, NEW o \in Outcomes, ForceResolve(i, o) PROVE Solvent'
  BY <1>1, <1>6, ResolveSolvent DEF ForceResolve, CanForce
<1>7. QED
  BY <1>1, <1>2, <1>3, <1>4, <1>5, <1>6, CreateSolvent, SubmitSolvent, ChallengeSolvent
     DEF Next, NextUnappealed

(* The registry holds the unsettled bonds of all assertions and what was   *)
(* donated, to the unit: no bond is ever paid out of another one.          *)
THEOREM AlwaysSolvent == Spec => []Solvent
<1>1. Init => Solvent
  <2> SUFFICES ASSUME Init PROVE Solvent
    OBVIOUS
  <2>1. \A i \in Ids : StakeOf(i) = 0
    BY DEF Init, EmptyBooks, Absent, StakeOf, Live
  <2>2. SumFunctionOnSet([i \in Ids |-> StakeOf(i)], Ids) = 0
    BY <2>1, SumZero, RegistryAssumption
  <2>3. QED
    BY <2>2 DEF Init, EmptyBooks, Solvent
<1>2. RegistryInv /\ Solvent /\ [Next]_vars => Solvent'
  BY SolventNext
<1>3. QED
  BY <1>1, <1>2, InvariantHolds, PTL DEF Spec

(* The pot pays any settlement of a live assertion whose accounts accept   *)
(* ether: its stake is one of those that the pot consists of.              *)
LEMMA CanAlwaysSettle ==
  ASSUME RegistryInv, Solvent, NEW i \in Ids, NEW o, Live(i), PartiesAcceptEther(i),
         NEW a, a = assertion[i] \/ a = Judged(assertion[i], o)
  PROVE  CanSettle(i, a, o)
<1> DEFINE p == Settlement(a, challengeBond[i], o)
           f == [j \in Ids |-> StakeOf(j)]
<1>0. /\ TypeOK /\ Unsettled(i) /\ assertion[i] \in Assertion /\ assertion[i].bond \in Nat
      /\ assertion[i].status \in {"OPEN", "VERDICTED", "CHALLENGED"}
  BY RegistryAssumption DEF RegistryInv, Live, TypeOK, Assertion
<1>1. /\ a.bond = assertion[i].bond /\ a.challenger = assertion[i].challenger
      /\ a.asserter = assertion[i].asserter
  BY <1>0 DEF Judged, Assertion
<1>2. \A j \in Ids : f[j] \in Nat
  BY <1>0, RegistryAssumption DEF StakeOf, TypeOK, Assertion
<1>3. f[i] <= SumFunctionOnSet(f, Ids)
  BY <1>2, SumBounds, RegistryAssumption
<1>4. SumFunctionOnSet(f, Ids) \in Nat /\ donated \in Nat
      /\ pot = donated + SumFunctionOnSet(f, Ids)
  BY <1>0, <1>2, SumNat, RegistryAssumption DEF Solvent, TypeOK
<1>5. Total(p) = f[i]
  BY <1>0, <1>1 DEF Settlement, Total, Pay, Unsettled, StakeOf, Live
<1>6. Total(p) <= pot
  BY <1>0, <1>2, <1>3, <1>4, <1>5
<1>7. a.asserter \notin Rejecting /\ a.challenger \notin Rejecting /\ feeSink \notin Rejecting
  BY <1>1 DEF PartiesAcceptEther
<1>8. QED
  BY <1>6, <1>7 DEF CanSettle, CanPay

(* The administrator gets any live assertion out with any ruling, whatever *)
(* the dispatcher and the application do, while the accounts concerned     *)
(* accept ether (AssertionRegistry!EscapeHatch; forceResolve).             *)
THEOREM HatchOpens == Spec => []EscapeHatch
<1>1. RegistryInv /\ Solvent => EscapeHatch
  <2> SUFFICES ASSUME RegistryInv, Solvent, NEW i \in Ids, Live(i), PartiesAcceptEther(i),
                      NEW o \in Rulings
               PROVE  CanForce(i, o)
    BY DEF EscapeHatch
  <2>1. QED
    BY CanAlwaysSettle DEF CanForce, IsRuling, Rulings
<1>2. QED
  BY <1>1, InvariantHolds, AlwaysSolvent, PTL

(* Nor is the administrator needed while the callback is reachable: the    *)
(* judge, a challenger, silence or the panel has a move at every instant   *)
(* (AssertionRegistry!NeverStuck; submitVerdict, challengeAssertion and    *)
(* both paths of resolveAssertion).                                        *)
THEOREM AlwaysAWayOn == Spec => []NeverStuck
<1>1. RegistryInv /\ Solvent => NeverStuck
  <2> SUFFICES ASSUME RegistryInv, Solvent, NEW i \in Ids,
                      Live(i), Wired(i), PartiesAcceptEther(i)
               PROVE  \/ \A o \in Rulings : CanSubmit(i, o)
                      \/ CanChallenge(i)
                      \/ CanResolveUnchallenged(i)
                      \/ \A o \in Rulings : CanResolve(Escalation, i, o)
                      \/ assertion[i].status = "VERDICTED" /\ MustWait(i)
    BY DEF NeverStuck
  <2> DEFINE a == assertion[i]
  <2>1. /\ TypeOK /\ Unsettled(i) /\ a \in Assertion
        /\ a.status \in {"OPEN", "VERDICTED", "CHALLENGED"}
    BY DEF RegistryInv, Live, TypeOK
  <2>2. a.period \in Nat /\ elapsed[i] \in Nat
    BY <2>1 DEF TypeOK, Assertion
  <2>3. CanDispatch(i) /\ Escalation \in enforcerRole /\ enforcer # NoAccount
    BY <2>1, RegistryAssumption DEF Wired, CanDispatch, TypeOK
  <2>4. ASSUME NEW o, NEW r, r = a \/ r = Judged(a, o) PROVE CanFinalise(i, r, o)
    BY <2>3, <2>4, CanAlwaysSettle DEF CanFinalise
  <2>5. \A o \in Rulings : IsRuling(o)
    BY DEF IsRuling, Rulings
  <2>6. CASE a.status = "OPEN"
    BY <2>4, <2>5, <2>6 DEF CanSubmit
  <2>7. CASE a.status = "VERDICTED"
    <3>1. a.mode = "AUDITED"
      BY <2>1, <2>7 DEF Unsettled
    <3>2. CASE elapsed[i] > a.period
      BY <2>4, <2>7, <3>1, <3>2 DEF CanResolveUnchallenged
    <3>3. CASE elapsed[i] <= a.period
      BY <2>7, <3>1, <3>3 DEF CanChallenge, MustWait
    <3>4. QED
      BY <2>2, <3>2, <3>3
  <2>8. CASE a.status = "CHALLENGED"
    BY <2>3, <2>4, <2>5, <2>8 DEF CanResolve
  <2>9. QED
    BY <2>1, <2>6, <2>7, <2>8
<1>2. QED
  BY <1>1, InvariantHolds, AlwaysSolvent, PTL
-----------------------------------------------------------------------------
(* A resolved assertion is untouchable: what each step leaves alone.       *)
FinalAt(i) ==
  assertion[i].status = "RESOLVED" =>
    /\ assertion'[i] = assertion[i]
    /\ paid'[i] = paid[i]
    /\ delivered'[i] = delivered[i]

LEMMA FinalityStep ==
  ASSUME TypeOK, [Next]_vars, NEW i \in Ids
  PROVE  FinalAt(i)
<1> USE DEF FinalAt, TypeOK
<1>1. CASE Administer
  BY <1>1 DEF Administer, SetEnforcer, AuthorizeRegistry, RevokeRegistry,
              SetFeeSink, GrantEnforcerRole, books
<1>2. CASE (\E x \in 1..MaxDonation : Receive(x)) \/ Tick \/ UNCHANGED vars
  BY <1>2 DEF Receive, Tick, vars, books
<1>3. ASSUME NEW j \in Ids, NEW who \in Accounts, NEW m \in Modes, NEW b \in Bonds,
             NEW p \in Periods, CreateAssertion(j, who, m, b, p)
      PROVE  FinalAt(i)
  BY <1>3 DEF CreateAssertion, Exists
<1>4. ASSUME NEW j \in Ids, NEW o \in Outcomes, SubmitVerdict(j, o)
      PROVE  FinalAt(i)
  BY <1>4 DEF SubmitVerdict, CanSubmit, Finalise, SettleBonds, Dispatch
<1>5. ASSUME NEW j \in Ids, NEW who \in Accounts, ChallengeAssertion(j, who)
      PROVE  FinalAt(i)
  BY <1>5 DEF ChallengeAssertion, CanChallenge
<1>6. ASSUME NEW j \in Ids, ResolveUnchallenged(j) PROVE FinalAt(i)
  BY <1>6 DEF ResolveUnchallenged, CanResolveUnchallenged, Finalise, SettleBonds, Dispatch
<1>7. ASSUME NEW c, NEW j \in Ids, NEW o \in Outcomes, ResolveChallenged(c, j, o)
      PROVE  FinalAt(i)
  BY <1>7 DEF ResolveChallenged, CanResolve, Finalise, SettleBonds, Dispatch
<1>8. ASSUME NEW j \in Ids, NEW o \in Outcomes, ForceResolve(j, o)
      PROVE  FinalAt(i)
  BY <1>8 DEF ForceResolve, CanForce, SettleBonds, Live
<1>9. QED
  BY <1>1, <1>2, <1>3, <1>4, <1>5, <1>6, <1>7, <1>8 DEF Next, NextUnappealed

(* RESOLVED is terminal for the record, the money and the callback.        *)
THEOREM Finality == Spec => ResolvedIsFinal
<1>1. TypeOK /\ [Next]_vars =>
        [\A i \in Ids : assertion[i].status = "RESOLVED" =>
            /\ assertion'[i] = assertion[i]
            /\ paid'[i] = paid[i]
            /\ delivered'[i] = delivered[i]]_vars
  BY FinalityStep DEF FinalAt
<1>2. QED
  BY <1>1, TypeCorrect, PTL DEF Spec, ResolvedIsFinal
-----------------------------------------------------------------------------
(* What becomes of a record.  The judge's call and the outcome agree until *)
(* the record is resolved; an INSTANT one is resolved with the call.       *)
RecordOK(i) ==
  LET a == assertion[i] IN
  /\ a.originalOutcome \in Rulings \cup {"PENDING"}
  /\ a.status \in {"NONE", "OPEN"} => a.originalOutcome = "PENDING"
  /\ a.status # "RESOLVED" => a.outcome = a.originalOutcome
  /\ a.mode = "INSTANT" /\ a.originalOutcome # "PENDING" => a.status = "RESOLVED"

(* A step keeps the mode of a record, the judge's call once it was made,   *)
(* and all of a resolved one.                                              *)
Advances(i) ==
  LET a == assertion[i]
      b == assertion'[i] IN
  /\ a.status # "NONE" => b.status # "NONE" /\ b.mode = a.mode
  /\ a.originalOutcome # "PENDING" => b.originalOutcome = a.originalOutcome
  /\ a.status = "RESOLVED" => b = a

LEMMA RecordInit == ASSUME Init, NEW i \in Ids PROVE RecordOK(i)
  BY DEF Init, EmptyBooks, Absent, RecordOK

LEMMA RecordNext ==
  ASSUME TypeOK, [Next]_vars, NEW i \in Ids, RecordOK(i)
  PROVE  RecordOK(i)' /\ Advances(i)
<1> USE DEF RecordOK, Advances
<1>1. assertion \in [Ids -> Assertion] /\ assertion[i] \in Assertion
  BY DEF TypeOK
<1>2. CASE \/ Administer \/ (\E x \in 1..MaxDonation : Receive(x))
           \/ Tick \/ UNCHANGED vars
  BY <1>2 DEF Administer, SetEnforcer, AuthorizeRegistry, RevokeRegistry, SetFeeSink,
              GrantEnforcerRole, Receive, Tick, vars, books
<1>3. ASSUME NEW j \in Ids, NEW who \in Accounts, NEW m \in Modes, NEW b \in Bonds,
             NEW p \in Periods, CreateAssertion(j, who, m, b, p)
      PROVE  RecordOK(i)' /\ Advances(i)
  BY <1>1, <1>3 DEF CreateAssertion, Exists, Opened
<1>4. ASSUME NEW j \in Ids, NEW o \in Outcomes, SubmitVerdict(j, o)
      PROVE  RecordOK(i)' /\ Advances(i)
  <2>1. o \in Rulings /\ assertion[j].status = "OPEN" /\ assertion[j] \in Assertion
    BY <1>1, <1>4, RulingOf DEF SubmitVerdict, CanSubmit
  <2>2. \/ /\ assertion[j].mode = "INSTANT"
           /\ assertion' = [assertion EXCEPT ![j] = Resolved(Judged(assertion[j], o), o)]
        \/ /\ assertion[j].mode = "AUDITED"
           /\ assertion' = [assertion EXCEPT ![j] = Judged(assertion[j], o)]
    BY <1>4, <2>1 DEF SubmitVerdict, CanSubmit, Finalise, Judged, Assertion
  <2>3. CASE i # j
    BY <1>1, <2>2, <2>3
  <2>4. CASE i = j
    <3>1. /\ assertion'[i].mode = assertion[i].mode
          /\ assertion'[i].originalOutcome = o /\ assertion'[i].outcome = o
          /\ assertion'[i].status = IF assertion[i].mode = "INSTANT" THEN "RESOLVED"
                                    ELSE "VERDICTED"
      BY <1>1, <2>1, <2>2, <2>4 DEF Judged, Resolved, Assertion
    <3>2. QED
      BY <2>1, <2>4, <3>1
  <2>5. QED
    BY <2>3, <2>4
<1>5. ASSUME NEW j \in Ids, NEW who \in Accounts, ChallengeAssertion(j, who)
      PROVE  RecordOK(i)' /\ Advances(i)
  BY <1>1, <1>5 DEF ChallengeAssertion, CanChallenge, Assertion
<1>6. ASSUME NEW j \in Ids, NEW final, assertion[j].status # "RESOLVED",
             assertion[j].status # "NONE",
             assertion' = [assertion EXCEPT ![j] = Resolved(assertion[j], final)]
      PROVE  RecordOK(i)' /\ Advances(i)
  BY <1>1, <1>6 DEF Resolved, Assertion
<1>7. ASSUME NEW j \in Ids, ResolveUnchallenged(j) PROVE RecordOK(i)' /\ Advances(i)
  BY <1>6, <1>7 DEF ResolveUnchallenged, CanResolveUnchallenged, Finalise
<1>8. ASSUME NEW c, NEW j \in Ids, NEW o \in Outcomes,
             ResolveChallenged(c, j, o) \/ ForceResolve(j, o)
      PROVE  RecordOK(i)' /\ Advances(i)
  BY <1>6, <1>8 DEF ResolveChallenged, CanResolve, Finalise, ForceResolve, CanForce, Live
<1>9. QED
  BY <1>2, <1>3, <1>4, <1>5, <1>7, <1>8 DEF Next, NextUnappealed
-----------------------------------------------------------------------------
(* Refinement.  A step that resolves assertion i is an Answer when the     *)
(* application is told and an Override when it is not; creation is Ask;    *)
(* every other step stutters.                                              *)
LEMMA AsksStep ==
  ASSUME TypeOK, NEW i \in Ids, NEW who \in Accounts, NEW m \in Modes,
         NEW b \in Bonds, NEW p \in Periods, CreateAssertion(i, who, m, b, p)
  PROVE  Oracle!Ask(i, b)
<1>1. assertion' = [assertion EXCEPT ![i] = Opened(who, m, b, p)]
      /\ assertion[i].status = "NONE"
  BY DEF CreateAssertion, Exists
<1>2. Opened(who, m, b, p).status = "OPEN" /\ Opened(who, m, b, p).bond = b
  BY DEF Opened
<1>3. AnswerTo(i) = "UNASKED"
  BY <1>1 DEF AnswerTo
<1>4. \A j \in Ids : AnswerTo(j)' = IF j = i THEN "WAITING" ELSE AnswerTo(j)
  BY <1>1, <1>2 DEF AnswerTo, TypeOK
<1>5. \A j \in Ids : assertion'[j].bond = IF j = i THEN b ELSE assertion[j].bond
  BY <1>1, <1>2 DEF TypeOK
<1>6. UNCHANGED <<delivered, paid>>
  BY DEF CreateAssertion
<1>7. QED
  BY <1>3, <1>4, <1>5, <1>6 DEF Oracle!Ask, Oracle!CanAsk

LEMMA DecidesStep ==
  ASSUME TypeOK, NEW i \in Ids, NEW a \in Assertion, NEW final \in Rulings,
         assertion[i].status \in {"OPEN", "VERDICTED", "CHALLENGED"},
         a.bond = assertion[i].bond,
         challengeBond[i] = (IF a.challenger = NoAccount THEN 0 ELSE a.bond),
         SettleBonds(i, a, final),
         assertion' = [assertion EXCEPT ![i] = Resolved(a, final)]
  PROVE  /\ paid'[i].asserter \in Oracle!Returns(i)
         /\ Oracle!Decide(i, final, paid'[i].asserter)
<1> DEFINE p == Settlement(a, challengeBond[i], final)
<1>1. a.bond \in Nat /\ paid' = [paid EXCEPT ![i] = p]
  BY DEF Assertion, SettleBonds
<1>2. p.asserter \in {0, a.bond, 2 * a.bond}
  <2>1. CASE a.challenger = NoAccount
    BY <1>1, <2>1 DEF Settlement, Pay
  <2>2. CASE a.challenger # NoAccount
    BY <1>1, <2>2 DEF Settlement, Pay
  <2>3. QED
    BY <2>1, <2>2
<1>3. paid'[i] = p
  BY <1>1 DEF TypeOK
<1>4. paid'[i].asserter \in Oracle!Returns(i)
  BY <1>2, <1>3 DEF Oracle!Returns
<1>5. Resolved(a, final).status = "RESOLVED" /\ Resolved(a, final).outcome = final
      /\ Resolved(a, final).bond = assertion[i].bond
  BY DEF Resolved, Assertion
<1>6. AnswerTo(i) = "WAITING"
  BY DEF AnswerTo
<1>7. \A j \in Ids : AnswerTo(j)' = IF j = i THEN final ELSE AnswerTo(j)
  BY <1>5 DEF AnswerTo, TypeOK
<1>8. \A j \in Ids : assertion'[j].bond = assertion[j].bond
  BY <1>5 DEF TypeOK
<1>9. \A j \in Ids : paid'[j].asserter = IF j = i THEN paid'[i].asserter ELSE paid[j].asserter
  BY <1>1 DEF TypeOK
<1>10. QED
  BY <1>4, <1>6, <1>7, <1>8, <1>9 DEF Oracle!Decide

(* _finalise tells the application in the step that decides.               *)
LEMMA AnswersStep ==
  ASSUME TypeOK, NEW i \in Ids, NEW a \in Assertion, NEW final \in Rulings,
         assertion[i].status \in {"OPEN", "VERDICTED", "CHALLENGED"},
         a.bond = assertion[i].bond,
         challengeBond[i] = (IF a.challenger = NoAccount THEN 0 ELSE a.bond),
         Finalise(i, a, final)
  PROVE  Oracle!Next
<1>1. paid'[i].asserter \in Oracle!Returns(i) /\ Oracle!Decide(i, final, paid'[i].asserter)
  BY DecidesStep DEF Finalise
<1>2. Oracle!Answer(i, final, paid'[i].asserter)
  BY <1>1 DEF Oracle!Answer, Finalise, Dispatch
<1>3. QED
  BY <1>1, <1>2 DEF Oracle!Next, Oracle!Rulings, Rulings

(* forceResolve decides over the application's head.                       *)
LEMMA OverridesStep ==
  ASSUME TypeOK, NEW i \in Ids, NEW final \in Rulings, assertion[i] \in Assertion,
         challengeBond[i] =
           (IF assertion[i].challenger = NoAccount THEN 0 ELSE assertion[i].bond),
         ForceResolve(i, final)
  PROVE  Oracle!Next
<1> DEFINE a == assertion[i]
<1>1. /\ a.status \in {"OPEN", "VERDICTED", "CHALLENGED"}
      /\ SettleBonds(i, a, final)
      /\ assertion' = [assertion EXCEPT ![i] = Resolved(a, final)]
      /\ UNCHANGED delivered
  BY DEF ForceResolve, CanForce, Live
<1>2. paid'[i].asserter \in Oracle!Returns(i) /\ Oracle!Decide(i, final, paid'[i].asserter)
  BY <1>1, DecidesStep
<1>3. Oracle!Override(i, final, paid'[i].asserter)
  BY <1>1, <1>2 DEF Oracle!Override
<1>4. QED
  BY <1>2, <1>3 DEF Oracle!Next, Oracle!Rulings, Rulings

(* A step that neither creates nor resolves an assertion is invisible.     *)
LEMMA InvisibleStep ==
  ASSUME \A j \in Ids : /\ AnswerTo(j)' = AnswerTo(j)
                        /\ assertion'[j].bond = assertion[j].bond,
         UNCHANGED <<paid, delivered>>
  PROVE  UNCHANGED Oracle!oracleVars
  BY DEF Oracle!oracleVars

LEMMA RefinesStep ==
  ASSUME RegistryInv, [Next]_vars
  PROVE  [Oracle!Next]_(Oracle!oracleVars)
<1>1. TypeOK /\ \A j \in Ids : BooksOK(j)
  BY InvBooks
<1>2. CASE Administer \/ (\E x \in 1..MaxDonation : Receive(x)) \/ Tick \/ UNCHANGED vars
  <2>1. UNCHANGED <<assertion, paid, delivered>>
    BY <1>2 DEF Administer, SetEnforcer, AuthorizeRegistry, RevokeRegistry,
                SetFeeSink, GrantEnforcerRole, Receive, Tick, vars, books
  <2>2. QED
    BY <2>1, InvisibleStep DEF AnswerTo
<1>3. ASSUME NEW j \in Ids, NEW who \in Accounts, NEW m \in Modes, NEW b \in Bonds,
             NEW p \in Periods, CreateAssertion(j, who, m, b, p)
      PROVE  Oracle!Next
  BY <1>1, <1>3, AsksStep DEF Oracle!Next
<1>4. ASSUME NEW j \in Ids, NEW o \in Outcomes, SubmitVerdict(j, o)
      PROVE  [Oracle!Next]_(Oracle!oracleVars)
  <2> DEFINE a == Judged(assertion[j], o)
  <2>1. o \in Rulings /\ assertion[j].status = "OPEN" /\ assertion[j] \in Assertion
    BY <1>1, <1>4, RulingOf DEF SubmitVerdict, CanSubmit, TypeOK
  <2>2. a \in Assertion
    BY <2>1 DEF Judged, Assertion, Statuses, Rulings, Outcomes
  <2>3. /\ a.status = "VERDICTED" /\ a.bond = assertion[j].bond
        /\ a.challenger = assertion[j].challenger
    BY <2>1 DEF Judged, Assertion
  <2>4. a.challenger = NoAccount /\ challengeBond[j] = 0
    BY <1>1, <2>1, <2>3 DEF BooksOK, Unsettled
  <2>5. CASE Finalise(j, a, o)
    BY <1>1, <2>1, <2>2, <2>3, <2>4, <2>5, AnswersStep
  <2>6. CASE /\ assertion' = [assertion EXCEPT ![j] = a]
             /\ UNCHANGED <<challengeBond, pot, paid, delivered>>
    <3>1. assertion'[j] = a /\ \A k \in Ids : k # j => assertion'[k] = assertion[k]
      BY <1>1, <2>6 DEF TypeOK
    <3>2. \A k \in Ids : AnswerTo(k)' = AnswerTo(k) /\ assertion'[k].bond = assertion[k].bond
      BY <2>1, <2>3, <3>1 DEF AnswerTo
    <3>3. QED
      BY <2>6, <3>2, InvisibleStep
  <2>7. QED
    BY <1>4, <2>5, <2>6 DEF SubmitVerdict, CanSubmit
<1>5. ASSUME NEW j \in Ids, NEW who \in Accounts, ChallengeAssertion(j, who)
      PROVE  [Oracle!Next]_(Oracle!oracleVars)
  <2> DEFINE r == [assertion[j] EXCEPT !.status = "CHALLENGED", !.challenger = who]
  <2>1. assertion[j].status = "VERDICTED" /\ assertion[j] \in Assertion
    BY <1>1, <1>5 DEF ChallengeAssertion, CanChallenge, TypeOK
  <2>2. assertion' = [assertion EXCEPT ![j] = r] /\ UNCHANGED <<paid, delivered>>
    BY <1>1, <1>5 DEF ChallengeAssertion, CanChallenge, TypeOK
  <2>3. r.status = "CHALLENGED" /\ r.bond = assertion[j].bond
    BY <2>1 DEF Assertion
  <2>4. assertion'[j] = r /\ \A k \in Ids : k # j => assertion'[k] = assertion[k]
    BY <1>1, <2>2 DEF TypeOK
  <2>5. \A k \in Ids : AnswerTo(k)' = AnswerTo(k) /\ assertion'[k].bond = assertion[k].bond
    BY <2>1, <2>3, <2>4 DEF AnswerTo
  <2>6. QED
    BY <2>2, <2>5, InvisibleStep
<1>6. ASSUME NEW j \in Ids, NEW final \in Rulings,
             assertion[j].status \in {"VERDICTED", "CHALLENGED"},
             Finalise(j, assertion[j], final)
      PROVE  Oracle!Next
  <2>1. assertion[j] \in Assertion /\ Unsettled(j)
    BY <1>1, <1>6 DEF TypeOK, BooksOK
  <2>2. challengeBond[j] = (IF assertion[j].challenger = NoAccount THEN 0 ELSE assertion[j].bond)
    BY <2>1 DEF Unsettled
  <2>3. QED
    BY <1>1, <1>6, <2>1, <2>2, AnswersStep
<1>7. ASSUME NEW j \in Ids, ResolveUnchallenged(j) PROVE Oracle!Next
  <2>1. assertion[j].originalOutcome \in Rulings
    BY <1>1, <1>7 DEF ResolveUnchallenged, CanResolveUnchallenged, BooksOK, Unsettled
  <2>2. QED
    BY <1>6, <1>7, <2>1 DEF ResolveUnchallenged, CanResolveUnchallenged
<1>8. ASSUME NEW c, NEW j \in Ids, NEW o \in Outcomes, ResolveChallenged(c, j, o)
      PROVE  Oracle!Next
  BY <1>6, <1>8, RulingOf DEF ResolveChallenged, CanResolve
<1>9. ASSUME NEW j \in Ids, NEW o \in Outcomes, ForceResolve(j, o) PROVE Oracle!Next
  <2>1. assertion[j] \in Assertion /\ o \in Rulings /\ Unsettled(j)
    BY <1>1, <1>9, RulingOf DEF TypeOK, BooksOK, ForceResolve, CanForce, Live
  <2>2. challengeBond[j] = (IF assertion[j].challenger = NoAccount THEN 0 ELSE assertion[j].bond)
    BY <2>1 DEF Unsettled
  <2>3. QED
    BY <1>1, <1>9, <2>1, <2>2, OverridesStep
<1>10. QED
  BY <1>2, <1>3, <1>4, <1>5, <1>7, <1>8, <1>9 DEF Next, NextUnappealed

(* The registry keeps the promise of VerdictOracle to every application.   *)
THEOREM Refinement == Spec => KeepsThePromise
<1>1. Init => Oracle!Init
  <2> SUFFICES ASSUME Init PROVE Oracle!Init
    OBVIOUS
  <2>1. \A i \in Ids : /\ AnswerTo(i) = "UNASKED"
                       /\ assertion[i].bond = 0
                       /\ paid[i].asserter = 0
    BY DEF Init, EmptyBooks, AnswerTo, Absent, NoPayout, Pay
  <2>2. QED
    BY <2>1 DEF Oracle!Init, Init, EmptyBooks
<1>2. RegistryInv /\ [Next]_vars => [Oracle!Next]_(Oracle!oracleVars)
  BY RefinesStep
<1>3. QED
  BY <1>1, <1>2, InvariantHolds, PTL DEF Spec, KeepsThePromise, Oracle!Spec
=============================================================================
