--------------------------- MODULE EscalationProofs ---------------------------
(***************************************************************************)
(* Theorems of EscalationManager, JudgePanel and AppealWorker, for any     *)
(* assertions, panels, judges and owners: the composition is a registry,   *)
(* so that the registry's theorems hold in it; a closed appeal and the     *)
(* registry agree, and the scoreboard with both; tokens that change hands  *)
(* disturb none of this and always have an owner; and for any number of    *)
(* attempts of the worker that drives an appeal, its votes are those of    *)
(* one attempt, and the panel's public record, its logs, the announcement  *)
(* and what a page shows of both, is the panel that ruled.                 *)
(***************************************************************************)
EXTENDS JudgePanel, AppealWorker, FiniteSetTheorems, TLAPS

(* The registry's theorems, over the registry's variables.                 *)
Facts == INSTANCE AssertionRegistryProofs

LEMMA Assumed == Facts!RegistryAssumption
  BY EscalationAssumption
     DEF Facts!RegistryAssumption, Registry!RegistryAssumption,
         Facts!IsFiniteSet, Registry!IsFiniteSet
-----------------------------------------------------------------------------
(* The two instances of AssertionRegistry say the same.                    *)
LEMMA SameGuards ==
  \A i, a, o :
    /\ Registry!CanSettle(i, a, o) <=> Facts!CanSettle(i, a, o)
    /\ Registry!CanDispatch(i) <=> Facts!CanDispatch(i)
    /\ Registry!CanFinalise(i, a, o) <=> Facts!CanFinalise(i, a, o)
  BY DEF Registry!CanFinalise, Registry!CanSettle, Registry!CanDispatch, Registry!CanPay,
         Registry!Settlement, Registry!Total, Registry!Pay,
         Facts!CanFinalise, Facts!CanSettle, Facts!CanDispatch, Facts!CanPay,
         Facts!Settlement, Facts!Total, Facts!Pay

LEMMA SameFinalise ==
  ASSUME NEW i, NEW a, NEW final, Registry!Finalise(i, a, final)
  PROVE  Facts!Finalise(i, a, final)
  BY SameGuards
     DEF Registry!Finalise, Registry!SettleBonds, Registry!Settlement, Registry!Total,
         Registry!Pay, Registry!Dispatch, Registry!Resolved,
         Facts!Finalise, Facts!SettleBonds, Facts!Settlement, Facts!Total,
         Facts!Pay, Facts!Dispatch, Facts!Resolved

LEMMA SameForceResolve ==
  ASSUME NEW i, NEW o, Registry!ForceResolve(i, o)
  PROVE  Facts!ForceResolve(i, o)
  BY SameGuards
     DEF Registry!ForceResolve, Registry!CanForce, Registry!SettleBonds, Registry!Settlement,
         Registry!Total, Registry!Pay, Registry!Resolved, Registry!Live, Registry!IsRuling,
         Registry!wiring,
         Facts!ForceResolve, Facts!CanForce, Facts!SettleBonds, Facts!Settlement,
         Facts!Total, Facts!Pay, Facts!Resolved, Facts!Live, Facts!IsRuling, Facts!wiring

LEMMA SameSubmitVerdict ==
  ASSUME NEW i, NEW o, Registry!SubmitVerdict(i, o)
  PROVE  Facts!SubmitVerdict(i, o)
  BY SameFinalise, SameGuards
     DEF Registry!SubmitVerdict, Registry!CanSubmit, Registry!Judged, Registry!IsRuling,
         Registry!wiring,
         Facts!SubmitVerdict, Facts!CanSubmit, Facts!Judged, Facts!IsRuling, Facts!wiring

LEMMA SameResolve ==
  ASSUME NEW i
  PROVE  /\ Registry!ResolveUnchallenged(i) => Facts!ResolveUnchallenged(i)
         /\ \A c, o : Registry!ResolveChallenged(c, i, o) => Facts!ResolveChallenged(c, i, o)
  BY SameFinalise, SameGuards
     DEF Registry!CanResolve, Facts!CanResolve,
         Registry!ResolveUnchallenged, Registry!CanResolveUnchallenged,
         Registry!ResolveChallenged, Registry!IsRuling,
         Registry!wiring, Facts!ResolveUnchallenged, Facts!CanResolveUnchallenged,
         Facts!ResolveChallenged,
         Facts!IsRuling, Facts!wiring

LEMMA SameOpening ==
  ASSUME NEW i, NEW who, NEW m, NEW b, NEW p
  PROVE  /\ Registry!CreateAssertion(i, who, m, b, p) => Facts!CreateAssertion(i, who, m, b, p)
         /\ Registry!ChallengeAssertion(i, who) => Facts!ChallengeAssertion(i, who)
  BY DEF Registry!CreateAssertion, Registry!Exists, Registry!Opened, Registry!wiring,
         Registry!ChallengeAssertion, Registry!CanChallenge, Facts!CreateAssertion, Facts!Exists,
         Facts!Opened,
         Facts!wiring, Facts!ChallengeAssertion, Facts!CanChallenge

LEMMA SameAside ==
  /\ Registry!Tick => Facts!Tick
  /\ Registry!Administer => Facts!Administer
  /\ \A x : Registry!Receive(x) => Facts!Receive(x)
  /\ UNCHANGED Registry!vars => UNCHANGED Facts!vars
  BY DEF Registry!Tick, Registry!Aging, Registry!wiring, Registry!books, Registry!vars,
         Registry!Administer, Registry!SetEnforcer, Registry!AuthorizeRegistry,
         Registry!RevokeRegistry, Registry!SetFeeSink, Registry!GrantEnforcerRole,
         Registry!Receive,
         Facts!Tick, Facts!Aging, Facts!wiring, Facts!books, Facts!vars,
         Facts!Administer, Facts!SetEnforcer, Facts!AuthorizeRegistry,
         Facts!RevokeRegistry, Facts!SetFeeSink, Facts!GrantEnforcerRole, Facts!Receive

LEMMA SameNext ==
  ASSUME [Registry!Next]_(Registry!vars)
  PROVE  [Facts!Next]_(Facts!vars)
<1> USE DEF Facts!Next, Facts!NextUnappealed
<1>1. CASE \/ Registry!Administer \/ Registry!Tick \/ UNCHANGED Registry!vars
           \/ \E x \in 1..MaxDonation : Registry!Receive(x)
  BY <1>1, SameAside
<1>2. ASSUME NEW i \in Ids, NEW who \in Accounts, NEW m \in Registry!Modes,
             NEW b \in Bonds, NEW p \in Periods, Registry!CreateAssertion(i, who, m, b, p)
      PROVE  Facts!Next
  <2>1. m \in Facts!Modes /\ Facts!CreateAssertion(i, who, m, b, p)
    BY <1>2, SameOpening DEF Registry!Modes, Facts!Modes
  <2>2. QED
    BY <2>1
<1>3. ASSUME NEW i \in Ids, NEW who \in Accounts, Registry!ChallengeAssertion(i, who)
      PROVE  Facts!Next
  BY <1>3, SameOpening
<1>4. ASSUME NEW i \in Ids, NEW o \in Registry!Outcomes,
             Registry!SubmitVerdict(i, o) \/ Registry!ForceResolve(i, o)
      PROVE  Facts!Next
  <2>1. o \in Facts!Outcomes
    BY DEF Registry!Outcomes, Facts!Outcomes
  <2>2. QED
    BY <1>4, <2>1, SameSubmitVerdict, SameForceResolve
<1>5. ASSUME NEW i \in Ids, Registry!ResolveUnchallenged(i) PROVE Facts!Next
  BY <1>5, SameResolve
<1>6. ASSUME NEW i \in Ids, NEW c \in Enforcers \cup {Escalation},
             NEW o \in Registry!Outcomes, Registry!ResolveChallenged(c, i, o)
      PROVE  Facts!Next
  <2>1. o \in Facts!Outcomes /\ Facts!ResolveChallenged(c, i, o)
    BY <1>6, SameResolve DEF Registry!Outcomes, Facts!Outcomes
  <2>2. QED
    BY <2>1
<1>7. QED
  BY <1>1, <1>2, <1>3, <1>4, <1>5, <1>6 DEF Registry!Next, Registry!NextUnappealed

LEMMA SameInit == Registry!Init => Facts!Init
  BY DEF Registry!Init, Registry!EmptyBooks, Registry!Constructed, Registry!Deployed,
         Registry!Absent, Registry!NoPayout, Registry!Pay,
         Facts!Init, Facts!EmptyBooks, Facts!Constructed, Facts!Deployed,
         Facts!Absent, Facts!NoPayout, Facts!Pay

LEMMA SameInv == Facts!RegistryInv <=> Registry!RegistryInv
  BY DEF Facts!RegistryInv, Facts!TypeOK, Facts!Assertion, Facts!Payout, Facts!Settled,
         Facts!Unsettled, Facts!FairTo, Facts!PostedFor, Facts!Total, Facts!NoPayout,
         Facts!Pay, Facts!Statuses, Facts!Modes, Facts!Outcomes, Facts!Rulings,
         Registry!RegistryInv, Registry!TypeOK, Registry!Assertion, Registry!Payout,
         Registry!Settled, Registry!Unsettled, Registry!FairTo, Registry!PostedFor,
         Registry!Total, Registry!NoPayout, Registry!Pay, Registry!Statuses,
         Registry!Modes, Registry!Outcomes, Registry!Rulings
-----------------------------------------------------------------------------
(* The composition is a registry.                                          *)
LEMMA PluralityRules == \A i : Plurality(i) \in Rulings
  BY DEF Plurality, Rulings

LEMMA RegistryStepIs ==
  ASSUME [Next]_vars
  PROVE  [Registry!Next]_(Registry!vars)
<1> USE DEF Registry!Next, Registry!NextUnappealed
<1>1. Calls \subseteq Registry!Outcomes
  BY EscalationAssumption DEF Outcomes, Registry!Outcomes
<1>2. CASE RegistryStep
  <2>1. CASE Registry!Tick
    BY <2>1
  <2>2. ASSUME NEW i \in Ids, NEW who \in Accounts, NEW m \in Modes, NEW b \in Bonds,
               NEW p \in Periods, Registry!CreateAssertion(i, who, m, b, p)
        PROVE  Registry!Next
    BY <2>2 DEF Modes, Registry!Modes
  <2>3. ASSUME NEW i \in Ids, NEW who \in Accounts, Registry!ChallengeAssertion(i, who)
        PROVE  Registry!Next
    BY <2>3
  <2>4. ASSUME NEW i \in Ids, Registry!ResolveUnchallenged(i)
        PROVE  Registry!Next
    BY <2>4
  <2>5. ASSUME NEW i \in Ids, NEW o \in Calls, Registry!ForceResolve(i, o)
        PROVE  Registry!Next
    BY <1>1, <2>5
  <2>6. ASSUME NEW e \in Enforcers,
               Registry!AuthorizeRegistry(e) \/ Registry!RevokeRegistry(e)
        PROVE  Registry!Next
    BY <2>6 DEF Registry!Administer
  <2>7. ASSUME NEW a \in Accounts, Registry!SetFeeSink(a) PROVE Registry!Next
    BY <2>7 DEF Registry!Administer
  <2>8. QED
    BY <1>2, <2>1, <2>2, <2>3, <2>4, <2>5, <2>6, <2>7 DEF RegistryStep
<1>3. ASSUME NEW i \in Ids, NEW o \in Calls, NEW t \in JudgeTokens, SubmitVerdict(i, o, t)
      PROVE  Registry!Next
  BY <1>1, <1>3 DEF SubmitVerdict
<1>4. ASSUME NEW i \in Ids, CloseAppeal(i)
      PROVE  Registry!Next
  <2>1. Plurality(i) \in Registry!Outcomes
    BY PluralityRules DEF Rulings, Registry!Outcomes
  <2>2. Registry!ResolveChallenged(Escalation, i, Plurality(i))
    BY <1>4 DEF CloseAppeal
  <2>3. QED
    BY <2>1, <2>2
<1>5. CASE \/ Mint \/ UNCHANGED vars
           \/ \E i \in Ids : OpenAppeal(i)
           \/ \E i \in Ids, t \in Tokens, o \in Calls : RecordPanelVote(i, t, o)
  <2>1. UNCHANGED registryVars
    BY <1>5 DEF Mint, vars, OpenAppeal, RecordPanelVote
  <2>2. QED
    BY <2>1 DEF registryVars, Registry!vars, Registry!books, Registry!wiring
<1>6. QED
  BY <1>2, <1>3, <1>4, <1>5 DEF Next

(* Appeals and scores take nothing from the registry and give it nothing   *)
(* it would not allow: what is proved of the registry holds of it here.    *)
THEOREM StillARegistry == Spec => Registry!Spec
<1>1. Init => Registry!Init
  BY DEF Init, NothingAsked, Registry!Init
<1>2. [Next]_vars => [Registry!Next]_(Registry!vars)
  BY RegistryStepIs
<1>3. QED
  BY <1>1, <1>2, PTL DEF Spec, Registry!Spec

LEMMA RegistryInvariant == Spec => []Registry!RegistryInv
<1>1. Facts!Spec => []Facts!RegistryInv
  BY Assumed, Facts!InvariantHolds
<1>2. Registry!Init => Facts!Init
  BY SameInit
<1>3. [Registry!Next]_(Registry!vars) => [Facts!Next]_(Facts!vars)
  BY SameNext
<1>4. Facts!RegistryInv => Registry!RegistryInv
  BY SameInv
<1>5. QED
  BY <1>1, <1>2, <1>3, <1>4, StillARegistry, PTL DEF Registry!Spec, Facts!Spec
-----------------------------------------------------------------------------
(* The inductive invariant.  An open appeal is of a challenged assertion   *)
(* and remembers the judge and the call on record; its tally has one vote  *)
(* for each of its minted voters; before it is closed the application      *)
(* heard nothing, and afterwards it heard the plurality.                   *)
VoteSum(a) == a.tally["TRUE"] + a.tally["FALSE"] + a.tally["INVALID"]

OpenOK(i) ==
  /\ assertion[i].status \in {"CHALLENGED", "RESOLVED"}
  /\ assertion[i].challenger # NoAccount
  /\ appeal[i].judge = judge[i]
  /\ appeal[i].original = assertion[i].originalOutcome
  /\ VoteSum(appeal[i]) = appeal[i].votesRecorded
  /\ \A t \in DOMAIN appeal[i].votes : Judges!Exists(t)

NotYet(i) == appeal[i].opened /\ ~appeal[i].closed => delivered[i] = <<>>

ClosedOK(i) ==
  appeal[i].closed =>
    /\ appeal[i].opened
    /\ appeal[i].votesRecorded = PANEL_SIZE
    /\ assertion[i].status = "RESOLVED"
    /\ assertion[i].outcome = Plurality(i)
    /\ delivered[i] = <<Plurality(i)>>

OverturnedOK(i) ==
  delivered[i] # <<>> /\ delivered[i] # <<assertion[i].originalOutcome>> => appeal[i].closed

AppealOK(i) ==
  /\ appeal[i].opened => OpenOK(i)
  /\ ~appeal[i].opened => appeal[i] = NoAppeal
  /\ NotYet(i)
  /\ ClosedOK(i)
  /\ OverturnedOK(i)

IInv == TypeOK /\ Registry!RegistryInv /\ \A i \in Ids : AppealOK(i)

(* What a step other than a closing may do to an assertion.                *)
Effect(i) ==
  LET a == assertion[i]
      b == assertion'[i] IN
  /\ a.status = "RESOLVED" => b = a /\ delivered'[i] = delivered[i]
  /\ a.status = "CHALLENGED" =>
       /\ b.status \in {"CHALLENGED", "RESOLVED"}
       /\ b.challenger = a.challenger /\ b.originalOutcome = a.originalOutcome
       /\ delivered'[i] = delivered[i]
  /\ a.status \in {"NONE", "OPEN", "VERDICTED"} /\ delivered'[i] # delivered[i] =>
       delivered'[i] = Append(delivered[i], b.originalOutcome)
-----------------------------------------------------------------------------
LEMMA StepEffect ==
  ASSUME Registry!TypeOK, NEW i \in Ids,
         \/ RegistryStep
         \/ \E j \in Ids, o \in Calls, t \in JudgeTokens : SubmitVerdict(j, o, t)
         \/ UNCHANGED registryVars
  PROVE  Effect(i)
<1> USE DEF Effect, Registry!TypeOK
<1>0. assertion[i] \in Registry!Assertion
  OBVIOUS
<1>1. CASE \/ UNCHANGED registryVars \/ Registry!Tick
           \/ \E e \in Enforcers : Registry!AuthorizeRegistry(e) \/ Registry!RevokeRegistry(e)
           \/ \E a \in Accounts : Registry!SetFeeSink(a)
  <2>1. assertion' = assertion /\ delivered' = delivered
    BY <1>1 DEF registryVars, Registry!Tick, Registry!AuthorizeRegistry,
                Registry!RevokeRegistry, Registry!SetFeeSink, Registry!books
  <2>2. QED
    BY <2>1
<1>2. ASSUME NEW j \in Ids, NEW who \in Accounts, NEW m \in Modes, NEW b \in Bonds,
             NEW p \in Periods, Registry!CreateAssertion(j, who, m, b, p)
      PROVE  Effect(i)
  BY <1>2 DEF Registry!CreateAssertion, Registry!Exists
<1>3. ASSUME NEW j \in Ids, NEW who \in Accounts, Registry!ChallengeAssertion(j, who)
      PROVE  Effect(i)
  BY <1>0, <1>3 DEF Registry!ChallengeAssertion, Registry!CanChallenge
<1>4. ASSUME NEW j \in Ids, Registry!ResolveUnchallenged(j) PROVE Effect(i)
  <2>1. /\ assertion[j].status = "VERDICTED"
        /\ assertion' = [assertion EXCEPT ![j] =
             Registry!Resolved(assertion[j], assertion[j].originalOutcome)]
        /\ delivered' = [delivered EXCEPT ![j] = Append(@, assertion[j].originalOutcome)]
    BY <1>4 DEF Registry!ResolveUnchallenged, Registry!CanResolveUnchallenged, Registry!Finalise,
                Registry!Dispatch
  <2>2. CASE i = j
    <3>1. assertion'[i].originalOutcome = assertion[i].originalOutcome
      BY <1>0, <2>1, <2>2 DEF Registry!Resolved, Registry!Assertion
    <3>2. QED
      BY <2>1, <2>2, <3>1
  <2>3. CASE i # j
    BY <2>1, <2>3
  <2>4. QED
    BY <2>2, <2>3
<1>5. ASSUME NEW j \in Ids, NEW o \in Calls, Registry!ForceResolve(j, o) PROVE Effect(i)
  <2>1. /\ assertion' = [assertion EXCEPT ![j] = Registry!Resolved(assertion[j], o)]
        /\ delivered' = delivered /\ assertion[j].status # "RESOLVED"
    BY <1>5 DEF Registry!ForceResolve, Registry!CanForce, Registry!Live
  <2>2. CASE i = j
    <3>1. assertion'[i] = Registry!Resolved(assertion[i], o)
      BY <2>1, <2>2
    <3>2. QED
      BY <1>0, <2>1, <2>2, <3>1 DEF Registry!Resolved, Registry!Assertion
  <2>3. CASE i # j
    BY <2>1, <2>3
  <2>4. QED
    BY <2>2, <2>3
<1>6. ASSUME NEW j \in Ids, NEW o \in Calls, NEW t \in JudgeTokens, SubmitVerdict(j, o, t)
      PROVE  Effect(i)
  <2> DEFINE a == Registry!Judged(assertion[j], o)
  <2>1. Registry!SubmitVerdict(j, o) /\ assertion[j].status = "OPEN"
    BY <1>6 DEF SubmitVerdict, Registry!SubmitVerdict, Registry!CanSubmit
  <2>2. CASE i = j
    <3>1. CASE Registry!Finalise(j, a, o)
      <4>1. /\ assertion' = [assertion EXCEPT ![j] = Registry!Resolved(a, o)]
            /\ delivered' = [delivered EXCEPT ![j] = Append(@, o)]
        BY <3>1 DEF Registry!Finalise, Registry!Dispatch
      <4>2. assertion'[i].originalOutcome = o
        BY <1>0, <2>2, <4>1 DEF Registry!Resolved, Registry!Judged, Registry!Assertion
      <4>3. QED
        BY <2>1, <2>2, <4>1, <4>2
    <3>2. CASE delivered' = delivered
      BY <2>1, <2>2, <3>2
    <3>3. QED
      BY <2>1, <3>1, <3>2 DEF Registry!SubmitVerdict, Registry!CanSubmit
  <2>3. CASE i # j
    BY <2>1, <2>3 DEF Registry!SubmitVerdict, Registry!CanSubmit, Registry!Finalise,
                      Registry!Dispatch
  <2>4. QED
    BY <2>2, <2>3
<1>7. QED
  BY <1>1, <1>2, <1>3, <1>4, <1>5, <1>6 DEF RegistryStep

(* Such a step, if it leaves the appeal of i and its judge alone, keeps    *)
(* that appeal in order.                                                   *)
LEMMA EffectKeeps ==
  ASSUME IInv, NEW i \in Ids, Effect(i), appeal'[i] = appeal[i],
         appeal[i].opened => judge'[i] = judge[i],
         \A t \in Tokens : Judges!Exists(t) => Judges!Exists(t)'
  PROVE  AppealOK(i)'
<1> DEFINE a == assertion[i]
<1>1. AppealOK(i) /\ Registry!TypeOK /\ a.status \in Statuses /\ appeal[i] \in Appeal
  BY DEF IInv, TypeOK, Registry!TypeOK, Registry!Assertion, Registry!Statuses, Statuses
<1>2. a.status # "RESOLVED" => delivered[i] = <<>>
  BY DEF IInv, Registry!RegistryInv, Registry!Unsettled
<1>3. DOMAIN appeal[i].votes \subseteq Tokens
  BY <1>1 DEF Appeal
<1>4. Plurality(i)' = Plurality(i)
  BY DEF Plurality
<1>5. CASE a.status = "RESOLVED"
  BY <1>1, <1>3, <1>4, <1>5
     DEF Effect, AppealOK, OpenOK, NotYet, ClosedOK, OverturnedOK, VoteSum
<1>6. CASE a.status = "CHALLENGED"
  BY <1>1, <1>2, <1>3, <1>4, <1>6
     DEF Effect, AppealOK, OpenOK, NotYet, ClosedOK, OverturnedOK, VoteSum
<1>7. CASE a.status \in {"NONE", "OPEN", "VERDICTED"}
  <2>1. ~appeal[i].opened /\ ~appeal[i].closed /\ appeal[i] = NoAppeal
    BY <1>1, <1>7 DEF AppealOK, OpenOK, ClosedOK
  <2>2. delivered[i] = <<>>
    BY <1>2, <1>7
  <2>3. delivered'[i] # <<>> => delivered'[i] = <<assertion'[i].originalOutcome>>
    BY <1>7, <2>2 DEF Effect
  <2>4. QED
    BY <2>1, <2>3 DEF AppealOK, NotYet, ClosedOK, OverturnedOK
<1>8. QED
  BY <1>1, <1>5, <1>6, <1>7 DEF Statuses
-----------------------------------------------------------------------------
ScoreTypes ==
  /\ nextTokenId \in 1..(MaxTokens + 1)
  /\ reputation \in [Tokens -> Int]
  /\ totalVerdicts \in [Tokens -> Nat]
  /\ appealsLost \in [Tokens -> Nat]

LEMMA MintTypes ==
  ASSUME ScoreTypes, Judges!Mint
  PROVE  /\ ScoreTypes'
         /\ \A t \in Tokens : Judges!Exists(t) => Judges!Exists(t)'
<1>1. MaxTokens \in Nat /\ Tokens = 1..MaxTokens
  BY EscalationAssumption DEF Tokens, Judges!Tokens
<1>2. QED
  BY <1>1 DEF ScoreTypes, Judges!Mint, Judges!Exists, Judges!INITIAL_REPUTATION

LEMMA RecordTypes ==
  ASSUME ScoreTypes, NEW A, NEW D, NEW L, Judges!Record(A, D, L)
  PROVE  ScoreTypes' /\ nextTokenId' = nextTokenId
<1>1. Judges!Tokens = Tokens
  BY DEF Tokens
<1>2. reputation' \in [Tokens -> Int]
  BY <1>1 DEF ScoreTypes, Judges!Record, Judges!Delta, Judges!REPUTATION_REWARD,
              Judges!REPUTATION_PENALTY_MINORITY, Judges!REPUTATION_PENALTY_APPEAL_LOST
<1>3. totalVerdicts' \in [Tokens -> Nat] /\ appealsLost' \in [Tokens -> Nat]
  BY <1>1 DEF ScoreTypes, Judges!Record
<1>4. QED
  BY <1>2, <1>3 DEF ScoreTypes, Judges!Record

(* A step of the registry keeps the registry's invariant and its types.    *)
LEMMA RegistryInvStep == Registry!RegistryInv /\ [Next]_vars => Registry!RegistryInv'
<1> SUFFICES ASSUME Registry!RegistryInv, [Next]_vars PROVE Registry!RegistryInv'
  OBVIOUS
<1>1. Facts!RegistryInv /\ [Facts!Next]_(Facts!vars)
  BY SameInv, RegistryStepIs, SameNext
<1>2. Facts!RegistryInv'
  BY <1>1, Assumed, Facts!NextInv
<1>3. QED
  BY <1>2, SameInv, PTL
-----------------------------------------------------------------------------
LEMMA NoAppealTyped == NoAppeal \in Appeal
<1>1. <<>> \in [{} -> Rulings]
  OBVIOUS
<1>2. NoAppeal.votes \in UNION {[S -> Rulings] : S \in SUBSET Tokens}
  BY <1>1 DEF NoAppeal
<1>3. QED
  BY <1>2 DEF NoAppeal, Appeal, PANEL_SIZE, Outcomes, Rulings

LEMMA StartInv == NothingAsked /\ ScoreTypes => IInv
<1> SUFFICES ASSUME NothingAsked, ScoreTypes PROVE IInv
  OBVIOUS
<1>1. Registry!RegistryInv
  <2>1. Facts!Init
    BY SameInit DEF NothingAsked, Registry!Init
  <2>2. QED
    BY <2>1, Assumed, Facts!InitInv, SameInv
<1>2. TypeOK
  BY <1>1, NoAppealTyped DEF NothingAsked, ScoreTypes, TypeOK, Registry!RegistryInv
<1>3. ASSUME NEW i \in Ids PROVE AppealOK(i)
  BY DEF NothingAsked, Registry!EmptyBooks, AppealOK, NoAppeal, NotYet, ClosedOK,
         OverturnedOK
<1>4. QED
  BY <1>1, <1>2, <1>3 DEF IInv

LEMMA InitInv == Init => IInv
  BY EscalationAssumption, StartInv DEF Init, Judges!Init, ScoreTypes, Tokens
-----------------------------------------------------------------------------
LEMMA AsideInv ==
  ASSUME IInv, Registry!RegistryInv', RegistryStep \/ Mint \/ UNCHANGED vars
  PROVE  IInv'
<1>1. ScoreTypes' /\ judge' = judge /\ appeal' = appeal
      /\ \A t \in Tokens : Judges!Exists(t) => Judges!Exists(t)'
  <2>1. CASE RegistryStep \/ UNCHANGED vars
    BY <2>1 DEF IInv, TypeOK, ScoreTypes, RegistryStep, judgesVars, vars, Judges!Exists
  <2>2. CASE Mint
    BY <2>2, MintTypes DEF IInv, TypeOK, ScoreTypes, Mint
  <2>3. QED
    BY <2>1, <2>2
<1>2. TypeOK'
  BY <1>1 DEF IInv, TypeOK, ScoreTypes, Registry!RegistryInv
<1>3. ASSUME NEW i \in Ids PROVE AppealOK(i)'
  <2>1. Effect(i)
    BY StepEffect DEF IInv, TypeOK, Mint, vars
  <2>2. QED
    BY <1>1, <2>1, EffectKeeps
<1>4. QED
  BY <1>2, <1>3 DEF IInv

LEMMA SubmitVerdictInv ==
  ASSUME IInv, Registry!RegistryInv', NEW j \in Ids, NEW o \in Calls, NEW t \in JudgeTokens,
         SubmitVerdict(j, o, t)
  PROVE  IInv'
<1>1. /\ assertion[j].status = "OPEN" /\ judge' = [judge EXCEPT ![j] = t]
      /\ UNCHANGED <<judgesVars, appeal>>
  BY DEF SubmitVerdict, Registry!SubmitVerdict, Registry!CanSubmit
<1>2. TypeOK'
  BY <1>1, EscalationAssumption DEF IInv, TypeOK, judgesVars, Registry!RegistryInv
<1>3. ASSUME NEW i \in Ids PROVE AppealOK(i)'
  <2>1. Effect(i)
    BY StepEffect DEF IInv, TypeOK
  <2>2. appeal[i].opened => i # j
    BY <1>1 DEF IInv, AppealOK, OpenOK
  <2>3. QED
    BY <1>1, <2>1, <2>2, EffectKeeps DEF IInv, TypeOK, judgesVars, Judges!Exists
<1>4. QED
  BY <1>2, <1>3 DEF IInv
-----------------------------------------------------------------------------
(* An appeal that changes while the registry stands still.                 *)
LEMMA AppealChange ==
  ASSUME IInv, Registry!RegistryInv', NEW j \in Ids, NEW r \in Appeal,
         UNCHANGED <<registryVars, judgesVars, judge>>,
         appeal' = [appeal EXCEPT ![j] = r],
         AppealOK(j)'
  PROVE  IInv'
<1>1. TypeOK'
  BY DEF IInv, TypeOK, judgesVars, Registry!RegistryInv
<1>2. ASSUME NEW i \in Ids, i # j PROVE AppealOK(i)'
  <2>1. AppealOK(i) /\ appeal'[i] = appeal[i]
    BY <1>2 DEF IInv, TypeOK
  <2>2. QED
    BY <2>1 DEF AppealOK, OpenOK, NotYet, ClosedOK, OverturnedOK, VoteSum, Plurality,
                Judges!Exists, registryVars, judgesVars
<1>3. QED
  BY <1>1, <1>2 DEF IInv

LEMMA OpenAppealInv ==
  ASSUME IInv, Registry!RegistryInv', NEW i \in Ids, OpenAppeal(i)
  PROVE  IInv'
<1> DEFINE r == [NoAppeal EXCEPT !.opened = TRUE, !.judge = judge[i],
                                 !.original = assertion[i].originalOutcome]
<1>1. Registry!TypeOK /\ TypeOK /\ AppealOK(i) /\ assertion[i].status = "CHALLENGED"
  BY DEF IInv, TypeOK, OpenAppeal
<1>2. judge[i] \in Nat /\ assertion[i].originalOutcome \in Outcomes
  BY <1>1 DEF TypeOK, Registry!TypeOK, Registry!Assertion, Registry!Outcomes, Outcomes
<1>3. r \in Appeal
  BY <1>2, NoAppealTyped DEF Appeal
<1>4. appeal' = [appeal EXCEPT ![i] = r] /\ appeal'[i] = r
      /\ UNCHANGED <<registryVars, judgesVars, judge>>
  BY <1>1 DEF OpenAppeal, TypeOK
<1>5. /\ r.opened /\ ~r.closed /\ r.judge = judge[i]
      /\ r.original = assertion[i].originalOutcome
      /\ r.votes = <<>> /\ r.votesRecorded = 0 /\ VoteSum(r) = 0
  BY DEF NoAppeal, VoteSum, Rulings
<1>6. assertion[i].challenger # NoAccount /\ delivered[i] = <<>>
  BY <1>1 DEF IInv, Registry!RegistryInv, Registry!Unsettled
<1>7. DOMAIN r.votes = {}
  BY <1>5
<1>8. AppealOK(i)'
  BY <1>1, <1>4, <1>5, <1>6, <1>7
     DEF AppealOK, OpenOK, NotYet, ClosedOK, OverturnedOK, VoteSum, registryVars
<1>9. QED
  BY <1>3, <1>4, <1>8, AppealChange

LEMMA VoteTyped ==
  ASSUME NEW a \in Appeal, NEW t \in Tokens, NEW o \in Rulings,
         VoteSum(a) = a.votesRecorded, a.votesRecorded < PANEL_SIZE
  PROVE  /\ WithVote(a, t, o) \in Appeal
         /\ VoteSum(WithVote(a, t, o)) = WithVote(a, t, o).votesRecorded
         /\ DOMAIN WithVote(a, t, o).votes = DOMAIN a.votes \cup {t}
         /\ WithVote(a, t, o).opened = a.opened /\ WithVote(a, t, o).closed = a.closed
         /\ WithVote(a, t, o).judge = a.judge /\ WithVote(a, t, o).original = a.original
<1> DEFINE b == WithVote(a, t, o)
           votes == [x \in DOMAIN a.votes \cup {t} |-> IF x = t THEN o ELSE a.votes[x]]
           tally == [a.tally EXCEPT ![o] = a.tally[o] + 1]
<1>1. b = [a EXCEPT !.votes = votes, !.votesRecorded = a.votesRecorded + 1, !.tally = tally]
  BY DEF WithVote, Appeal
<1>2. /\ b.votes = votes /\ b.votesRecorded = a.votesRecorded + 1 /\ b.tally = tally
      /\ b.opened = a.opened /\ b.closed = a.closed /\ b.judge = a.judge
      /\ b.original = a.original
  BY <1>1 DEF Appeal
<1>3. /\ a.tally["TRUE"] \in 0..3 /\ a.tally["FALSE"] \in 0..3
      /\ a.tally["INVALID"] \in 0..3 /\ a.votesRecorded \in 0..3
      /\ a.tally \in [Rulings -> 0..3]
  BY DEF Appeal, PANEL_SIZE, Rulings
<1>4. tally \in [Rulings -> 0..3]
      /\ tally["TRUE"] + tally["FALSE"] + tally["INVALID"] = a.votesRecorded + 1
  BY <1>3 DEF VoteSum, PANEL_SIZE, Rulings
<1>5. votes \in UNION {[S -> Rulings] : S \in SUBSET Tokens}
  <2>1. PICK S \in SUBSET Tokens : a.votes \in [S -> Rulings]
    BY DEF Appeal
  <2>2. votes \in [S \cup {t} -> Rulings]
    BY <2>1
  <2>3. QED
    BY <2>2
<1>6. b \in Appeal
  <2>1. a.votesRecorded + 1 \in 0..3
    BY <1>3 DEF PANEL_SIZE
  <2> HIDE DEF b, votes, tally
  <2>2. QED
    BY <1>1, <1>4, <1>5, <2>1 DEF Appeal, PANEL_SIZE
<1>7. QED
  BY <1>2, <1>4, <1>6 DEF VoteSum

LEMMA RecordPanelVoteInv ==
  ASSUME IInv, Registry!RegistryInv', NEW i \in Ids, NEW t \in Tokens, NEW o \in Calls,
         RecordPanelVote(i, t, o)
  PROVE  IInv'
<1> DEFINE r == WithVote(appeal[i], t, o)
<1>1. /\ TypeOK /\ AppealOK(i) /\ appeal[i] \in Appeal /\ o \in Rulings
      /\ appeal[i].opened /\ ~appeal[i].closed /\ appeal[i].votesRecorded < PANEL_SIZE
      /\ Judges!Exists(t)
  BY EscalationAssumption DEF IInv, TypeOK, RecordPanelVote, IsRuling, Outcomes, Rulings
<1>2. OpenOK(i)
  BY <1>1 DEF AppealOK
<1>3. /\ r \in Appeal /\ VoteSum(r) = r.votesRecorded /\ r.opened /\ ~r.closed
      /\ r.judge = appeal[i].judge /\ r.original = appeal[i].original
      /\ DOMAIN r.votes = DOMAIN appeal[i].votes \cup {t}
  BY <1>1, <1>2, VoteTyped DEF OpenOK
<1>4. appeal' = [appeal EXCEPT ![i] = r] /\ appeal'[i] = r
      /\ UNCHANGED <<registryVars, judgesVars, judge>>
  BY <1>1 DEF RecordPanelVote, TypeOK
<1>5. AppealOK(i)'
  BY <1>1, <1>2, <1>3, <1>4
     DEF AppealOK, OpenOK, NotYet, ClosedOK, OverturnedOK, VoteSum, registryVars,
         judgesVars, Judges!Exists
<1>6. QED
  BY <1>3, <1>4, <1>5, AppealChange

LEMMA CloseAppealInv ==
  ASSUME IInv, Registry!RegistryInv', NEW j \in Ids, CloseAppeal(j)
  PROVE  IInv'
<1> DEFINE final == Plurality(j)
           a == assertion[j]
           p == appeal[j]
<1>1. /\ TypeOK /\ Registry!TypeOK /\ AppealOK(j) /\ a \in Registry!Assertion
      /\ p \in Appeal /\ final \in Rulings
  BY PluralityRules DEF IInv, TypeOK, Registry!TypeOK
<1>2. /\ p.opened /\ ~p.closed /\ p.votesRecorded = PANEL_SIZE
      /\ appeal' = [appeal EXCEPT ![j].closed = TRUE] /\ judge' = judge
      /\ a.status = "CHALLENGED"
      /\ assertion' = [assertion EXCEPT ![j] = Registry!Resolved(a, final)]
      /\ delivered' = [delivered EXCEPT ![j] = Append(delivered[j], final)]
  BY DEF CloseAppeal, CanClose, Registry!ResolveChallenged, Registry!CanResolve,
         Registry!Finalise, Registry!Dispatch
<1>3. ScoreTypes' /\ nextTokenId' = nextTokenId
  BY RecordTypes DEF CloseAppeal, IInv, TypeOK, ScoreTypes
<1>4. /\ appeal'[j] = [p EXCEPT !.closed = TRUE] /\ appeal'[j] \in Appeal
      /\ \A i \in Ids : i # j => appeal'[i] = appeal[i]
  BY <1>1, <1>2 DEF TypeOK, Appeal
<1>5. /\ appeal'[j].opened /\ appeal'[j].closed /\ appeal'[j].judge = p.judge
      /\ appeal'[j].original = p.original /\ appeal'[j].votes = p.votes
      /\ appeal'[j].votesRecorded = p.votesRecorded /\ appeal'[j].tally = p.tally
  BY <1>1, <1>2, <1>4 DEF Appeal
<1>6. TypeOK'
  BY <1>1, <1>2, <1>3, <1>4 DEF TypeOK, ScoreTypes, Registry!RegistryInv
<1>7. AppealOK(j)'
  <2>1. OpenOK(j) /\ delivered[j] = <<>>
    BY <1>1, <1>2 DEF AppealOK, NotYet
  <2>2. Plurality(j)' = final
    BY <1>5 DEF Plurality
  <2>3. /\ assertion'[j].status = "RESOLVED" /\ assertion'[j].outcome = final
        /\ assertion'[j].challenger = a.challenger
        /\ assertion'[j].originalOutcome = a.originalOutcome
    BY <1>1, <1>2 DEF Registry!TypeOK, Registry!Resolved, Registry!Assertion
  <2>4. delivered'[j] = <<final>>
    BY <1>1, <1>2, <2>1 DEF Registry!TypeOK
  <2>5. OpenOK(j)'
    BY <1>2, <1>3, <1>5, <2>1, <2>3 DEF OpenOK, VoteSum, Judges!Exists
  <2>6. QED
    BY <1>2, <1>5, <2>2, <2>3, <2>4, <2>5 DEF AppealOK, NotYet, ClosedOK, OverturnedOK
<1>8. ASSUME NEW i \in Ids, i # j PROVE AppealOK(i)'
  <2>1. AppealOK(i) /\ appeal'[i] = appeal[i] /\ assertion'[i] = assertion[i]
        /\ delivered'[i] = delivered[i]
    BY <1>1, <1>2, <1>4, <1>8 DEF IInv, Registry!TypeOK
  <2>2. QED
    BY <1>2, <1>3, <2>1
       DEF AppealOK, OpenOK, NotYet, ClosedOK, OverturnedOK, VoteSum, Plurality, Judges!Exists
<1>9. QED
  BY <1>6, <1>7, <1>8 DEF IInv
-----------------------------------------------------------------------------
LEMMA NextInv == IInv /\ [Next]_vars => IInv'
<1> SUFFICES ASSUME IInv, [Next]_vars PROVE IInv'
  OBVIOUS
<1>1. Registry!RegistryInv'
  BY RegistryInvStep DEF IInv
<1>2. QED
  BY <1>1, AsideInv, SubmitVerdictInv, OpenAppealInv, RecordPanelVoteInv, CloseAppealInv
     DEF Next

(* No step touches a resolved assertion: what was read of it stays true.   *)
LEMMA ResolvedKept ==
  ASSUME IInv, [Next]_vars, NEW i \in Ids, assertion[i].status = "RESOLVED"
  PROVE  assertion'[i] = assertion[i]
<1>1. CASE \E j \in Ids : CloseAppeal(j)
  <2>1. PICK j \in Ids : CloseAppeal(j)
    BY <1>1
  <2>2. assertion[j].status = "CHALLENGED" /\ \A h \in Ids \ {j} : assertion'[h] = assertion[h]
    BY <2>1
       DEF CloseAppeal, CanClose, Registry!ResolveChallenged, Registry!CanResolve,
           Registry!Finalise, IInv, TypeOK,
           Registry!TypeOK
  <2>3. QED
    BY <2>2
<1>2. CASE UNCHANGED registryVars
  BY <1>2 DEF registryVars
<1>3. CASE \/ RegistryStep
           \/ \E j \in Ids, o \in Calls, t \in JudgeTokens : SubmitVerdict(j, o, t)
  BY <1>3, StepEffect DEF IInv, TypeOK, Effect
<1>4. QED
  BY <1>1, <1>2, <1>3 DEF Next, Mint, OpenAppeal, RecordPanelVote, vars

LEMMA Invariant == Spec => []IInv
<1>1. Init => IInv
  BY InitInv
<1>2. IInv /\ [Next]_vars => IInv'
  BY NextInv
<1>3. QED
  BY <1>1, <1>2, PTL DEF Spec

(* Every variable of the three contracts keeps its type; in particular no  *)
(* panel ever records more than three votes.                               *)
THEOREM AppealTypes == Spec => []TypeOK
<1>1. IInv => TypeOK
  BY DEF IInv
<1>2. QED
  BY <1>1, Invariant, PTL

(* Three votes and a strict plurality for a ruling: at least two are for   *)
(* it.                                                                     *)
LEMMA TwoOfThree ==
  ASSUME NEW i, appeal[i] \in Appeal, VoteSum(appeal[i]) = PANEL_SIZE,
         Plurality(i) # "INVALID"
  PROVE  appeal[i].tally[Plurality(i)] >= 2
<1>1. /\ appeal[i].tally["TRUE"] \in Nat /\ appeal[i].tally["FALSE"] \in Nat
      /\ appeal[i].tally["INVALID"] \in Nat
  BY DEF Appeal, Rulings
<1>2. QED
  BY <1>1 DEF Plurality, VoteSum, PANEL_SIZE

(* A closed appeal landed: the registry resolved the assertion with the    *)
(* plurality and the application was told so; a challenger gained only     *)
(* where two judges of the panel agreed against the first one; and only a  *)
(* closed appeal lets an application hear another outcome than the judge's. *)
THEOREM ClosingLands == Spec => []AppealLanded
<1>1. IInv => AppealLanded
  <2> SUFFICES ASSUME IInv, NEW i \in Ids
               PROVE  (appeal[i].closed => Landed(i)) /\ (Overruled(i) => appeal[i].closed)
    BY DEF AppealLanded
  <2>1. Overruled(i) => appeal[i].closed
    BY DEF IInv, AppealOK, OverturnedOK, Overruled
  <2>2. ASSUME appeal[i].closed PROVE Landed(i)
    <3>1. /\ assertion[i].status = "RESOLVED" /\ assertion[i].outcome = Plurality(i)
          /\ delivered[i] = <<Plurality(i)>> /\ VoteSum(appeal[i]) = PANEL_SIZE
          /\ appeal[i] \in Appeal
      BY <2>2 DEF IInv, TypeOK, AppealOK, OpenOK, ClosedOK
    <3>2. Registry!FairTo(i)
      BY <3>1 DEF IInv, Registry!RegistryInv, Registry!Settled
    <3>3. ASSUME paid[i].challenger > assertion[i].bond
          PROVE  \E o \in Rulings \ {assertion[i].originalOutcome} : appeal[i].tally[o] >= 2
      <4>1. Plurality(i) \notin {"INVALID", assertion[i].originalOutcome}
        BY <3>1, <3>2, <3>3 DEF Registry!FairTo
      <4>2. QED
        BY <3>1, <4>1, TwoOfThree, PluralityRules
    <3>4. QED
      BY <3>1, <3>3 DEF Landed
  <2>3. QED
    BY <2>1, <2>2
<1>2. QED
  BY <1>1, Invariant, PTL
-----------------------------------------------------------------------------
(* Votes are counted.                                                      *)
Voters(votes, outcomes) == {t \in DOMAIN votes : votes[t] \in outcomes}

CountOK(a) ==
  /\ \A o \in Rulings : Cardinality(Voters(a.votes, {o})) = a.tally[o]
  /\ Cardinality(DOMAIN a.votes) = a.votesRecorded

CountInv == \A i \in Ids : CountOK(appeal[i])

LEMMA VotersFinite ==
  ASSUME NEW a \in Appeal, NEW outcomes
  PROVE  IsFiniteSet(DOMAIN a.votes) /\ IsFiniteSet(Voters(a.votes, outcomes))
<1>1. MaxTokens \in Nat /\ Tokens = 1..MaxTokens
  BY EscalationAssumption DEF Tokens, Judges!Tokens
<1>2. IsFiniteSet(Tokens)
  BY <1>1, FS_Interval
<1>3. DOMAIN a.votes \subseteq Tokens /\ Voters(a.votes, outcomes) \subseteq Tokens
  BY DEF Appeal, Voters
<1>4. QED
  BY <1>2, <1>3, FS_Subset

LEMMA NoVotesCount == CountOK(NoAppeal)
<1>1. DOMAIN NoAppeal.votes = {} /\ \A o \in Rulings : Voters(NoAppeal.votes, {o}) = {}
  BY DEF NoAppeal, Voters
<1>2. Cardinality({}) = 0
  BY FS_EmptySet
<1>3. QED
  BY <1>1, <1>2 DEF CountOK, NoAppeal

LEMMA VoteCounted ==
  ASSUME NEW a \in Appeal, NEW t \in Tokens, NEW o \in Rulings, t \notin DOMAIN a.votes,
         CountOK(a)
  PROVE  CountOK(WithVote(a, t, o))
<1> DEFINE b == WithVote(a, t, o)
           votes == [x \in DOMAIN a.votes \cup {t} |-> IF x = t THEN o ELSE a.votes[x]]
           tally == [a.tally EXCEPT ![o] = a.tally[o] + 1]
<1>1. b = [a EXCEPT !.votes = votes, !.votesRecorded = a.votesRecorded + 1, !.tally = tally]
  BY DEF WithVote, Appeal
<1>2. /\ b.votes = votes /\ b.votesRecorded = a.votesRecorded + 1 /\ b.tally = tally
      /\ a.tally \in [Rulings -> Int]
  BY <1>1 DEF Appeal
<1>3. /\ DOMAIN votes = DOMAIN a.votes \cup {t}
      /\ Voters(votes, {o}) = Voters(a.votes, {o}) \cup {t}
      /\ t \notin Voters(a.votes, {o})
      /\ \A x \in Rulings \ {o} : Voters(votes, {x}) = Voters(a.votes, {x})
  BY DEF Voters
<1>4. /\ IsFiniteSet(DOMAIN a.votes) /\ IsFiniteSet(Voters(a.votes, {o}))
  BY VotersFinite
<1> HIDE DEF votes
<1>5. /\ Cardinality(DOMAIN votes) = Cardinality(DOMAIN a.votes) + 1
      /\ Cardinality(Voters(votes, {o})) = Cardinality(Voters(a.votes, {o})) + 1
  BY <1>3, <1>4, FS_AddElement
<1>6. ASSUME NEW x \in Rulings PROVE Cardinality(Voters(votes, {x})) = tally[x]
  <2>1. CASE x = o
    BY <1>2, <1>5, <2>1 DEF CountOK
  <2>2. CASE x # o
    BY <1>2, <1>3, <2>2 DEF CountOK
  <2>3. QED
    BY <2>1, <2>2
<1>7. QED
  BY <1>2, <1>5, <1>6 DEF CountOK

LEMMA CountNext == IInv /\ CountInv /\ [Next]_vars => CountInv'
<1> SUFFICES ASSUME IInv, CountInv, [Next]_vars, NEW i \in Ids PROVE CountOK(appeal'[i])
  BY DEF CountInv
<1>1. appeal \in [Ids -> Appeal] /\ appeal[i] \in Appeal /\ CountOK(appeal[i])
  BY DEF IInv, TypeOK, CountInv
<1>2. ASSUME appeal'[i].votes = appeal[i].votes, appeal'[i].tally = appeal[i].tally,
             appeal'[i].votesRecorded = appeal[i].votesRecorded
      PROVE  CountOK(appeal'[i])
  BY <1>1, <1>2 DEF CountOK
<1>3. CASE RegistryStep \/ Mint \/ UNCHANGED vars
  BY <1>1, <1>3 DEF RegistryStep, Mint, vars
<1>4. ASSUME NEW j \in Ids, NEW o \in Calls, NEW t \in JudgeTokens, SubmitVerdict(j, o, t)
      PROVE  CountOK(appeal'[i])
  BY <1>1, <1>4 DEF SubmitVerdict
<1>5. ASSUME NEW j \in Ids, OpenAppeal(j) PROVE CountOK(appeal'[i])
  <2>1. CASE i = j
    <3>1. /\ appeal'[i].votes = NoAppeal.votes /\ appeal'[i].tally = NoAppeal.tally
          /\ appeal'[i].votesRecorded = NoAppeal.votesRecorded
      BY <1>1, <1>5, <2>1 DEF OpenAppeal, NoAppeal
    <3>2. QED
      BY <3>1, NoVotesCount DEF CountOK
  <2>2. CASE i # j
    BY <1>1, <1>5, <2>2 DEF OpenAppeal
  <2>3. QED
    BY <2>1, <2>2
<1>6. ASSUME NEW j \in Ids, NEW t \in Tokens, NEW o \in Calls, RecordPanelVote(j, t, o)
      PROVE  CountOK(appeal'[i])
  <2>1. CASE i = j
    <3>1. appeal'[i] = WithVote(appeal[i], t, o) /\ t \notin DOMAIN appeal[i].votes
      BY <1>1, <1>6, <2>1 DEF RecordPanelVote, HasVoted
    <3>2. o \in Rulings
      BY <1>6, EscalationAssumption DEF RecordPanelVote, IsRuling, Outcomes, Rulings
    <3>3. QED
      BY <1>1, <3>1, <3>2, VoteCounted
  <2>2. CASE i # j
    BY <1>1, <1>6, <2>2 DEF RecordPanelVote
  <2>3. QED
    BY <2>1, <2>2
<1>7. ASSUME NEW j \in Ids, CloseAppeal(j) PROVE CountOK(appeal'[i])
  BY <1>1, <1>2, <1>7 DEF CloseAppeal, Appeal
<1>8. QED
  BY <1>3, <1>4, <1>5, <1>6, <1>7 DEF Next

(* An appeal stands on its assertion: judge and call on record are the     *)
(* ones it remembers, every vote is of a minted judge of its own, and      *)
(* while it is open the assertion is challenged or was forced, unheard.    *)
THEOREM AppealStands == Spec => []AppealInv
<1>1. Init => CountInv
  <2> SUFFICES ASSUME Init, NEW i \in Ids PROVE CountOK(appeal[i])
    BY DEF CountInv
  <2>1. QED
    BY NoVotesCount DEF Init, NothingAsked
<1>2. IInv /\ CountInv => AppealInv
  <2> SUFFICES ASSUME IInv, CountInv, NEW i \in Ids
               PROVE  /\ appeal[i].opened => Standing(i)
                      /\ ~appeal[i].opened => appeal[i] = NoAppeal
    BY DEF AppealInv, IInv
  <2>1. AppealOK(i) /\ CountOK(appeal[i])
    BY DEF IInv, CountInv
  <2>2. QED
    BY <2>1 DEF AppealOK, OpenOK, NotYet, Standing, CountOK, VotersFor, Voters
<1>3. QED
  BY <1>1, <1>2, CountNext, Invariant, PTL DEF Spec
-----------------------------------------------------------------------------
(* Closing.  No step here changes who may resolve.                         *)
LEMMA RolesStay == [Next]_vars => enforcerRole' = enforcerRole
<1> SUFFICES ASSUME Next PROVE enforcerRole' = enforcerRole
  BY DEF vars, registryVars
<1> USE DEF Registry!wiring, Registry!books
<1>1. ASSUME RegistryStep PROVE enforcerRole' = enforcerRole
  BY <1>1
     DEF RegistryStep, Registry!Tick, Registry!CreateAssertion, Registry!ChallengeAssertion,
         Registry!CanChallenge,
         Registry!ResolveUnchallenged, Registry!CanResolveUnchallenged, Registry!ForceResolve,
         Registry!AuthorizeRegistry, Registry!RevokeRegistry, Registry!SetFeeSink
<1>2. ASSUME NEW i \in Ids, NEW o \in Calls, NEW t \in JudgeTokens, SubmitVerdict(i, o, t)
      PROVE  enforcerRole' = enforcerRole
  BY <1>2 DEF SubmitVerdict, Registry!SubmitVerdict, Registry!CanSubmit
<1>3. ASSUME NEW i \in Ids, CloseAppeal(i) PROVE enforcerRole' = enforcerRole
  BY <1>3 DEF CloseAppeal, Registry!ResolveChallenged
<1>4. ASSUME Mint \/ \E i \in Ids : OpenAppeal(i) \/ \E t \in Tokens, o \in Calls : RecordPanelVote(i, t, o)
      PROVE  enforcerRole' = enforcerRole
  BY <1>4 DEF Mint, OpenAppeal, RecordPanelVote, registryVars
<1>5. QED
  BY <1>1, <1>2, <1>3, <1>4 DEF Next

LEMMA RegistrySolvent == Spec => []Facts!Solvent
<1>1. Facts!Spec => []Facts!Solvent
  BY Assumed, Facts!AlwaysSolvent
<1>2. Registry!Init => Facts!Init
  BY SameInit
<1>3. [Registry!Next]_(Registry!vars) => [Facts!Next]_(Facts!vars)
  BY SameNext
<1>4. QED
  BY <1>1, <1>2, <1>3, StillARegistry, PTL DEF Registry!Spec, Facts!Spec

(* A complete panel whose first judge is minted closes: dispatcher, pot    *)
(* and scoreboard refuse nothing, while the callback is reachable and the  *)
(* accounts concerned accept ether (EscalationManager!PanelCloses;         *)
(* closeAppeal).                                                           *)
THEOREM PanelsClose == Spec => []PanelCloses
<1>1. Init => Escalation \in enforcerRole
  BY DEF Init, NothingAsked, Registry!Deployed
<1>2. Escalation \in enforcerRole /\ [Next]_vars => (Escalation \in enforcerRole)'
  BY RolesStay
<1>3. IInv /\ Facts!Solvent /\ Escalation \in enforcerRole => PanelCloses
  <2> SUFFICES ASSUME IInv, Facts!Solvent, Escalation \in enforcerRole, NEW i \in Ids,
                      appeal[i].opened, ~appeal[i].closed,
                      appeal[i].votesRecorded = PANEL_SIZE, assertion[i].status = "CHALLENGED",
                      Registry!CanDispatch(i), Registry!PartiesAcceptEther(i),
                      appeal[i].judge = 0 \/ Judges!Exists(appeal[i].judge)
               PROVE  CanClose(i)
    BY DEF PanelCloses
  <2> DEFINE final == Plurality(i)
  <2>1. Facts!CanSettle(i, assertion[i], final)
    <3>1. Facts!RegistryInv
      BY SameInv DEF IInv
    <3>2. Facts!Live(i) /\ Facts!PartiesAcceptEther(i)
      BY DEF Facts!Live, Facts!PartiesAcceptEther, Registry!PartiesAcceptEther
    <3>3. QED
      BY <3>1, <3>2, Assumed, Facts!CanAlwaysSettle
  <2>2. enforcer # NoAccount
    BY Assumed DEF IInv, TypeOK, Registry!TypeOK, Registry!CanDispatch, Facts!RegistryAssumption
  <2>3. IsRuling(final)
    BY PluralityRules DEF IsRuling, Rulings
  <2>4. Registry!CanResolve(Escalation, i, final)
    BY <2>1, <2>2, <2>3, SameGuards
       DEF Registry!CanResolve, Registry!CanFinalise, Registry!IsRuling, IsRuling
  <2>5. Judges!CanRecord(VotersFor(i, {final}), VotersFor(i, Rulings \ {final}),
                         Overturned(i, final))
    <3>1. \A t \in DOMAIN appeal[i].votes : Judges!Exists(t)
      BY DEF IInv, AppealOK, OpenOK
    <3>2. QED
      BY <3>1 DEF Judges!CanRecord, VotersFor, Overturned
  <2>6. QED
    BY <2>4, <2>5 DEF CanClose
<1>4. QED
  BY <1>1, <1>2, <1>3, Invariant, RegistrySolvent, PTL DEF Spec
-----------------------------------------------------------------------------
(* The scoreboard.  Nothing that a closed appeal is counted by changes.    *)
LEMMA ClosedStays ==
  ASSUME IInv, [Next]_vars, NEW i \in Ids, ~CloseAppeal(i)
  PROVE  /\ appeal'[i].closed = appeal[i].closed
         /\ appeal[i].closed => appeal'[i] = appeal[i] /\ assertion'[i] = assertion[i]
<1>1. /\ appeal \in [Ids -> Appeal] /\ appeal[i] \in Appeal /\ Registry!TypeOK
      /\ appeal[i].closed => appeal[i].opened /\ assertion[i].status = "RESOLVED"
      /\ ~appeal[i].opened => ~appeal[i].closed
  BY DEF IInv, TypeOK, AppealOK, ClosedOK
<1>2. CASE RegistryStep \/ Mint \/ UNCHANGED vars
           \/ \E j \in Ids, o \in Calls, t \in JudgeTokens : SubmitVerdict(j, o, t)
  <2>1. appeal' = appeal
    BY <1>2 DEF RegistryStep, Mint, vars, SubmitVerdict
  <2>2. Effect(i)
    BY <1>1, <1>2, StepEffect DEF Mint, vars
  <2>3. QED
    BY <1>1, <2>1, <2>2 DEF Effect
<1>3. ASSUME NEW j \in Ids, OpenAppeal(j)
      PROVE  /\ appeal'[i].closed = appeal[i].closed
             /\ appeal[i].closed => appeal'[i] = appeal[i] /\ assertion'[i] = assertion[i]
  <2>1. /\ ~appeal[j].opened /\ UNCHANGED registryVars
        /\ appeal' = [appeal EXCEPT ![j] =
             [NoAppeal EXCEPT !.opened = TRUE, !.judge = judge[j],
                              !.original = assertion[j].originalOutcome]]
    BY <1>3 DEF OpenAppeal
  <2>2. CASE i = j
    <3>1. appeal'[i].closed = FALSE
      BY <1>1, <2>1, <2>2 DEF NoAppeal
    <3>2. QED
      BY <1>1, <2>1, <2>2, <3>1 DEF Appeal
  <2>3. CASE i # j
    BY <1>1, <2>1, <2>3 DEF registryVars
  <2>4. QED
    BY <2>2, <2>3
<1>4. ASSUME NEW j \in Ids, NEW t \in Tokens, NEW o \in Calls, RecordPanelVote(j, t, o)
      PROVE  /\ appeal'[i].closed = appeal[i].closed
             /\ appeal[i].closed => appeal'[i] = appeal[i] /\ assertion'[i] = assertion[i]
  <2>1. /\ ~appeal[j].closed /\ UNCHANGED registryVars
        /\ appeal' = [appeal EXCEPT ![j] = WithVote(appeal[j], t, o)]
    BY <1>1, <1>4 DEF RecordPanelVote
  <2>2. CASE i = j
    <3>1. appeal'[i].closed = appeal[i].closed
      BY <1>1, <2>1, <2>2 DEF WithVote, Appeal
    <3>2. QED
      BY <2>1, <2>2, <3>1
  <2>3. CASE i # j
    BY <1>1, <2>1, <2>3 DEF registryVars
  <2>4. QED
    BY <2>2, <2>3
<1>5. ASSUME NEW j \in Ids, CloseAppeal(j)
      PROVE  appeal'[i] = appeal[i] /\ assertion'[i] = assertion[i]
  <2>1. i # j
    BY <1>5
  <2>2. QED
    BY <1>1, <1>5, <2>1
       DEF CloseAppeal, Registry!ResolveChallenged, Registry!Finalise, Registry!TypeOK
<1>6. QED
  BY <1>2, <1>3, <1>4, <1>5 DEF Next

(* What appeal i counts token t for, once it is closed.                    *)
AgreesIn(i, t) == t \in VotersFor(i, {assertion[i].outcome})
DefeatedIn(i, t) == t \in Overturned(i, assertion[i].outcome)

LEMMA CountsStay ==
  ASSUME IInv, [Next]_vars, NEW i \in Ids, ~CloseAppeal(i), appeal[i].closed, NEW t
  PROVE  /\ AgreesIn(i, t)' <=> AgreesIn(i, t)
         /\ HasVoted(i, t)' <=> HasVoted(i, t)
         /\ DefeatedIn(i, t)' <=> DefeatedIn(i, t)
<1>1. appeal'[i] = appeal[i] /\ assertion'[i] = assertion[i]
  BY ClosedStays
<1>2. QED
  BY <1>1 DEF AgreesIn, VotersFor, HasVoted, DefeatedIn, Overturned

(* Only judges are counted.                                                *)
OnlyJudges(t) ==
  \A i \in Ids : appeal[i].closed /\ ~Judges!Exists(t) => ~HasVoted(i, t) /\ ~DefeatedIn(i, t)

ScoredAs(t) ==
  /\ totalVerdicts[t] = Ballots(t)
  /\ appealsLost[t] = Defeats(t)
  /\ reputation[t] = 1000 + 3 * Agreements(t) - 2 * Ballots(t) - 10 * Defeats(t)

ScoresOK == \A t \in Tokens : OnlyJudges(t) /\ (Judges!Exists(t) => ScoredAs(t))

LEMMA Counted ==
  ASSUME NEW t
  PROVE  /\ Agreements(t) = Cardinality({i \in Ids : appeal[i].closed /\ AgreesIn(i, t)})
         /\ Ballots(t) = Cardinality({i \in Ids : appeal[i].closed /\ HasVoted(i, t)})
         /\ Defeats(t) = Cardinality({i \in Ids : appeal[i].closed /\ DefeatedIn(i, t)})
<1>1. /\ {i \in ClosedAppeals : t \in VotersFor(i, {assertion[i].outcome})}
           = {i \in Ids : appeal[i].closed /\ AgreesIn(i, t)}
      /\ {i \in ClosedAppeals : HasVoted(i, t)}
           = {i \in Ids : appeal[i].closed /\ HasVoted(i, t)}
      /\ {i \in ClosedAppeals : t \in Overturned(i, assertion[i].outcome)}
           = {i \in Ids : appeal[i].closed /\ DefeatedIn(i, t)}
  BY DEF ClosedAppeals, AgreesIn, DefeatedIn
<1>2. QED
  BY <1>1 DEF Agreements, Ballots, Defeats

LEMMA CountedNext ==
  ASSUME NEW t
  PROVE  /\ Agreements(t)' = Cardinality({i \in Ids : appeal'[i].closed /\ AgreesIn(i, t)'})
         /\ Ballots(t)' = Cardinality({i \in Ids : appeal'[i].closed /\ HasVoted(i, t)'})
         /\ Defeats(t)' = Cardinality({i \in Ids : appeal'[i].closed /\ DefeatedIn(i, t)'})
<1>1. /\ {i \in ClosedAppeals : t \in VotersFor(i, {assertion[i].outcome})}'
           = {i \in Ids : appeal'[i].closed /\ AgreesIn(i, t)'}
      /\ {i \in ClosedAppeals : HasVoted(i, t)}'
           = {i \in Ids : appeal'[i].closed /\ HasVoted(i, t)'}
      /\ {i \in ClosedAppeals : t \in Overturned(i, assertion[i].outcome)}'
           = {i \in Ids : appeal'[i].closed /\ DefeatedIn(i, t)'}
  BY DEF ClosedAppeals, AgreesIn, DefeatedIn
<1>2. QED
  BY <1>1 DEF Agreements, Ballots, Defeats

LEMMA CountedIn ==
  ASSUME NEW S \in SUBSET Ids
  PROVE  IsFiniteSet(S) /\ Cardinality(S) \in Nat
<1>1. IsFiniteSet(Ids)
  BY EscalationAssumption DEF Registry!RegistryAssumption, Registry!IsFiniteSet, IsFiniteSet
<1>2. QED
  BY <1>1, FS_Subset, FS_CardinalityType

(* A step that closes nothing counts nothing.                              *)
LEMMA NothingCounted ==
  ASSUME IInv, [Next]_vars, \A i \in Ids : ~CloseAppeal(i), NEW t
  PROVE  /\ Agreements(t)' = Agreements(t) /\ Ballots(t)' = Ballots(t)
         /\ Defeats(t)' = Defeats(t)
<1>1. \A i \in Ids :
        /\ appeal'[i].closed = appeal[i].closed
        /\ appeal[i].closed =>
             /\ AgreesIn(i, t)' <=> AgreesIn(i, t)
             /\ HasVoted(i, t)' <=> HasVoted(i, t)
             /\ DefeatedIn(i, t)' <=> DefeatedIn(i, t)
  BY ClosedStays, CountsStay
<1>2. /\ {i \in Ids : appeal'[i].closed /\ AgreesIn(i, t)'}
           = {i \in Ids : appeal[i].closed /\ AgreesIn(i, t)}
      /\ {i \in Ids : appeal'[i].closed /\ HasVoted(i, t)'}
           = {i \in Ids : appeal[i].closed /\ HasVoted(i, t)}
      /\ {i \in Ids : appeal'[i].closed /\ DefeatedIn(i, t)'}
           = {i \in Ids : appeal[i].closed /\ DefeatedIn(i, t)}
  BY <1>1
<1>3. /\ Agreements(t)' = Cardinality({i \in Ids : appeal'[i].closed /\ AgreesIn(i, t)'})
      /\ Ballots(t)' = Cardinality({i \in Ids : appeal'[i].closed /\ HasVoted(i, t)'})
      /\ Defeats(t)' = Cardinality({i \in Ids : appeal'[i].closed /\ DefeatedIn(i, t)'})
  BY CountedNext
<1>4. QED
  BY <1>2, <1>3, Counted

One(condition) == IF condition THEN 1 ELSE 0

(* The members of a set that grows by at most j.                           *)
LEMMA GrowsByOne ==
  ASSUME NEW S \in SUBSET Ids, NEW T \in SUBSET Ids, NEW j \in Ids, j \notin S,
         \A i \in Ids \ {j} : i \in T <=> i \in S
  PROVE  Cardinality(T) = Cardinality(S) + One(j \in T)
<1>1. CASE j \in T
  <2>1. T = S \cup {j}
    BY <1>1
  <2>2. Cardinality(S \cup {j}) = Cardinality(S) + 1
    BY CountedIn, FS_AddElement
  <2>3. QED
    BY <1>1, <2>1, <2>2 DEF One
<1>2. CASE j \notin T
  <2>1. T = S
    BY <1>2
  <2>2. QED
    BY <1>2, <2>1, CountedIn DEF One
<1>3. QED
  BY <1>1, <1>2

(* The closing of appeal j counts it once for each of its judges.          *)
LEMMA ClosingCounts ==
  ASSUME IInv, NEW j \in Ids, CloseAppeal(j), NEW t
  PROVE  LET final == Plurality(j) IN
         /\ Agreements(t)' = Agreements(t) + One(t \in VotersFor(j, {final}))
         /\ Ballots(t)' = Ballots(t) + One(HasVoted(j, t))
         /\ Defeats(t)' = Defeats(t) + One(t \in Overturned(j, final))
<1> DEFINE final == Plurality(j)
<1>1. /\ appeal \in [Ids -> Appeal] /\ appeal[j] \in Appeal
      /\ assertion \in [Ids -> Registry!Assertion]
      /\ ~appeal[j].closed /\ appeal' = [appeal EXCEPT ![j].closed = TRUE]
      /\ assertion' = [assertion EXCEPT ![j] = Registry!Resolved(assertion[j], final)]
  BY DEF IInv, TypeOK, Registry!TypeOK, CloseAppeal, CanClose, Registry!ResolveChallenged,
         Registry!Finalise
<1>2. /\ appeal'[j].closed /\ appeal'[j].votes = appeal[j].votes
      /\ appeal'[j].judge = appeal[j].judge /\ appeal'[j].original = appeal[j].original
      /\ assertion'[j].outcome = final
  BY <1>1 DEF Appeal, Registry!Resolved, Registry!Assertion
<1>3. /\ AgreesIn(j, t)' <=> t \in VotersFor(j, {final})
      /\ HasVoted(j, t)' <=> HasVoted(j, t)
      /\ DefeatedIn(j, t)' <=> t \in Overturned(j, final)
  BY <1>2 DEF AgreesIn, VotersFor, HasVoted, DefeatedIn, Overturned
<1>4. ASSUME NEW i \in Ids \ {j}
      PROVE  /\ appeal'[i].closed = appeal[i].closed
             /\ AgreesIn(i, t)' <=> AgreesIn(i, t)
             /\ HasVoted(i, t)' <=> HasVoted(i, t)
             /\ DefeatedIn(i, t)' <=> DefeatedIn(i, t)
  <2>1. appeal'[i] = appeal[i] /\ assertion'[i] = assertion[i]
    BY <1>1
  <2>2. QED
    BY <2>1 DEF AgreesIn, VotersFor, HasVoted, DefeatedIn, Overturned
<1> DEFINE A == {i \in Ids : appeal[i].closed /\ AgreesIn(i, t)}
           B == {i \in Ids : appeal[i].closed /\ HasVoted(i, t)}
           D == {i \in Ids : appeal[i].closed /\ DefeatedIn(i, t)}
           AA == {i \in Ids : appeal'[i].closed /\ AgreesIn(i, t)'}
           BB == {i \in Ids : appeal'[i].closed /\ HasVoted(i, t)'}
           DD == {i \in Ids : appeal'[i].closed /\ DefeatedIn(i, t)'}
<1>5. /\ Agreements(t)' = Cardinality(AA) /\ Ballots(t)' = Cardinality(BB)
      /\ Defeats(t)' = Cardinality(DD)
  BY CountedNext
<1>6. /\ Agreements(t) = Cardinality(A) /\ Ballots(t) = Cardinality(B)
      /\ Defeats(t) = Cardinality(D)
  BY Counted
<1>7. /\ A \in SUBSET Ids /\ AA \in SUBSET Ids /\ j \notin A
      /\ \A i \in Ids \ {j} : i \in AA <=> i \in A
      /\ j \in AA <=> t \in VotersFor(j, {final})
  BY <1>1, <1>2, <1>3, <1>4
<1>8. /\ B \in SUBSET Ids /\ BB \in SUBSET Ids /\ j \notin B
      /\ \A i \in Ids \ {j} : i \in BB <=> i \in B
      /\ j \in BB <=> HasVoted(j, t)
  BY <1>1, <1>2, <1>3, <1>4
<1>9. /\ D \in SUBSET Ids /\ DD \in SUBSET Ids /\ j \notin D
      /\ \A i \in Ids \ {j} : i \in DD <=> i \in D
      /\ j \in DD <=> t \in Overturned(j, final)
  BY <1>1, <1>2, <1>3, <1>4
<1> HIDE DEF A, B, D, AA, BB, DD, final
<1>10. /\ Cardinality(AA) = Cardinality(A) + One(j \in AA)
       /\ Cardinality(BB) = Cardinality(B) + One(j \in BB)
       /\ Cardinality(DD) = Cardinality(D) + One(j \in DD)
  BY <1>7, <1>8, <1>9, GrowsByOne
<1>11. QED
  BY <1>5, <1>6, <1>7, <1>8, <1>9, <1>10 DEF One, final

LEMMA CountsTyped ==
  ASSUME NEW t
  PROVE  Agreements(t) \in Nat /\ Ballots(t) \in Nat /\ Defeats(t) \in Nat
BY Counted, CountedIn

LEMMA OnlyJudgesKept ==
  ASSUME IInv, [Next]_vars, \A i \in Ids : ~CloseAppeal(i), NEW t, OnlyJudges(t),
         Judges!Exists(t) => Judges!Exists(t)'
  PROVE  OnlyJudges(t)'
<1> SUFFICES ASSUME NEW i \in Ids, appeal'[i].closed, ~Judges!Exists(t)'
             PROVE  ~HasVoted(i, t)' /\ ~DefeatedIn(i, t)'
  BY DEF OnlyJudges
<1>1. appeal[i].closed
  BY ClosedStays
<1>2. QED
  BY <1>1, CountsStay DEF OnlyJudges

(* A judge is minted without a score, and was counted for nothing before.  *)
LEMMA MintScores ==
  ASSUME IInv, ScoresOK, Mint, NEW t \in Tokens
  PROVE  OnlyJudges(t)' /\ (Judges!Exists(t)' => ScoredAs(t)')
<1>1. /\ [Next]_vars /\ Judges!Tokens = Tokens /\ nextTokenId \in Nat
      /\ reputation \in [Tokens -> Int] /\ totalVerdicts \in [Tokens -> Nat]
      /\ appealsLost \in [Tokens -> Nat] /\ nextTokenId \in Tokens
      /\ t \in Nat /\ 0 < t
  BY EscalationAssumption
     DEF Next, IInv, TypeOK, Tokens, Judges!Tokens, Mint, Judges!Mint
<1>2. ASSUME NEW i \in Ids PROVE ~CloseAppeal(i)
  BY <1>1 DEF Mint, Judges!Mint, CloseAppeal, Judges!Record
<1>3. /\ Agreements(t)' = Agreements(t) /\ Ballots(t)' = Ballots(t)
      /\ Defeats(t)' = Defeats(t)
  BY <1>1, <1>2, NothingCounted
<1>4. /\ Judges!Exists(t)' <=> Judges!Exists(t) \/ t = nextTokenId
      /\ Judges!Exists(t) => t # nextTokenId
  BY <1>1 DEF Mint, Judges!Mint, Judges!Exists
<1>5. OnlyJudges(t) /\ OnlyJudges(t)'
  BY <1>1, <1>2, <1>4, OnlyJudgesKept DEF ScoresOK
<1>6. CASE t # nextTokenId
  <2>1. /\ totalVerdicts'[t] = totalVerdicts[t] /\ appealsLost'[t] = appealsLost[t]
        /\ reputation'[t] = reputation[t]
    BY <1>1, <1>6 DEF Mint, Judges!Mint
  <2>2. QED
    BY <1>3, <1>4, <1>5, <1>6, <2>1 DEF ScoresOK, ScoredAs
<1>7. CASE t = nextTokenId
  <2>1. /\ totalVerdicts'[t] = 0 /\ appealsLost'[t] = 0 /\ reputation'[t] = 1000
    BY <1>1, <1>7 DEF Mint, Judges!Mint, Judges!INITIAL_REPUTATION
  <2>2. ~Judges!Exists(t)
    BY <1>4, <1>7
  <2>3. \A i \in Ids : appeal[i].closed => ~HasVoted(i, t) /\ ~DefeatedIn(i, t)
    BY <1>5, <2>2 DEF OnlyJudges
  <2>4. \A i \in Ids : AgreesIn(i, t) => HasVoted(i, t)
    BY DEF AgreesIn, VotersFor, HasVoted
  <2>5. /\ {i \in Ids : appeal[i].closed /\ AgreesIn(i, t)} = {}
        /\ {i \in Ids : appeal[i].closed /\ HasVoted(i, t)} = {}
        /\ {i \in Ids : appeal[i].closed /\ DefeatedIn(i, t)} = {}
    BY <2>3, <2>4
  <2>6. Agreements(t) = 0 /\ Ballots(t) = 0 /\ Defeats(t) = 0
    BY <2>5, Counted, FS_EmptySet
  <2>7. QED
    BY <1>3, <1>5, <2>1, <2>6 DEF ScoredAs
<1>8. QED
  BY <1>6, <1>7

(* Closing writes for every panellist what the appeal counts it for.       *)
LEMMA ClosingScores ==
  ASSUME IInv, ScoresOK, NEW j \in Ids, CloseAppeal(j), NEW t \in Tokens
  PROVE  OnlyJudges(t)' /\ (Judges!Exists(t)' => ScoredAs(t)')
<1> DEFINE final == Plurality(j)
           agreed == VotersFor(j, {final})
           dissented == VotersFor(j, Rulings \ {final})
           lost == Overturned(j, final)
<1>1. /\ appeal[j] \in Appeal /\ final \in Rulings /\ OpenOK(j)
      /\ reputation \in [Tokens -> Int] /\ totalVerdicts \in [Tokens -> Nat]
      /\ appealsLost \in [Tokens -> Nat]
      /\ Judges!Record(agreed, dissented, lost) /\ Judges!Tokens = Tokens
  BY PluralityRules DEF IInv, TypeOK, AppealOK, CloseAppeal, CanClose, Tokens
<1>2. /\ t \in agreed \cup dissented <=> HasVoted(j, t)
      /\ t \in agreed => HasVoted(j, t)
      /\ HasVoted(j, t) => Judges!Exists(t)
      /\ t \in lost => Judges!Exists(t)
  <2>1. \A x \in DOMAIN appeal[j].votes : appeal[j].votes[x] \in Rulings
    BY <1>1 DEF Appeal
  <2>2. QED
    BY <1>1, <2>1 DEF VotersFor, HasVoted, OpenOK, Judges!Record, Judges!CanRecord
<1>3. Judges!Exists(t)' <=> Judges!Exists(t)
  BY <1>1 DEF Judges!Record, Judges!Exists
<1>4. /\ totalVerdicts'[t] = totalVerdicts[t] + One(HasVoted(j, t))
      /\ appealsLost'[t] = appealsLost[t] + One(t \in lost)
      /\ reputation'[t] = reputation[t] + 3 * One(t \in agreed) - 2 * One(HasVoted(j, t))
                            - 10 * One(t \in lost)
  <2> HIDE DEF agreed, dissented, lost
  <2>1. /\ totalVerdicts'[t] = totalVerdicts[t]
                                 + (IF t \in agreed \cup dissented THEN 1 ELSE 0)
        /\ appealsLost'[t] = appealsLost[t] + (IF t \in lost THEN 1 ELSE 0)
        /\ reputation'[t] = reputation[t]
             + (IF t \in agreed \cup dissented THEN (IF t \in agreed THEN 1 ELSE -2) ELSE 0)
             - (IF t \in lost THEN 10 ELSE 0)
    BY <1>1 DEF Judges!Record, Judges!Delta, Judges!REPUTATION_REWARD,
                Judges!REPUTATION_PENALTY_MINORITY, Judges!REPUTATION_PENALTY_APPEAL_LOST
  <2>2. QED
    BY <1>1, <1>2, <2>1 DEF One
<1>5. /\ Agreements(t)' = Agreements(t) + One(t \in agreed)
      /\ Ballots(t)' = Ballots(t) + One(HasVoted(j, t))
      /\ Defeats(t)' = Defeats(t) + One(t \in lost)
  BY ClosingCounts
<1>6. OnlyJudges(t)'
  <2> SUFFICES ASSUME NEW i \in Ids, appeal'[i].closed, ~Judges!Exists(t)'
               PROVE  ~HasVoted(i, t)' /\ ~DefeatedIn(i, t)'
    BY DEF OnlyJudges
  <2>1. ~Judges!Exists(t) /\ [Next]_vars
    BY <1>3 DEF Next
  <2>2. CASE ~CloseAppeal(i)
    BY <2>1, <2>2, ClosedStays, CountsStay DEF ScoresOK, OnlyJudges
  <2>3. CASE CloseAppeal(i)
    <3>1. /\ appeal[i] \in Appeal /\ appeal \in [Ids -> Appeal] /\ OpenOK(i)
          /\ assertion \in [Ids -> Registry!Assertion]
          /\ appeal' = [appeal EXCEPT ![i].closed = TRUE]
          /\ assertion' = [assertion EXCEPT ![i] =
                             Registry!Resolved(assertion[i], Plurality(i))]
          /\ \A x \in Overturned(i, Plurality(i)) : Judges!Exists(x)
      BY <2>3 DEF IInv, TypeOK, Registry!TypeOK, AppealOK, CloseAppeal, CanClose,
                  Registry!ResolveChallenged, Registry!Finalise, Judges!Record, Judges!CanRecord
    <3>2. /\ appeal'[i].votes = appeal[i].votes /\ appeal'[i].judge = appeal[i].judge
          /\ appeal'[i].original = appeal[i].original
          /\ assertion'[i].outcome = Plurality(i)
      BY <3>1 DEF Appeal, Registry!Resolved, Registry!Assertion
    <3>3. QED
      BY <2>1, <3>1, <3>2 DEF HasVoted, DefeatedIn, Overturned, OpenOK
  <2>4. QED
    BY <2>2, <2>3
<1>7. ASSUME Judges!Exists(t)' PROVE ScoredAs(t)'
  <2>1. ScoredAs(t)
    BY <1>3, <1>7 DEF ScoresOK
  <2>2. /\ Agreements(t) \in Nat /\ Ballots(t) \in Nat /\ Defeats(t) \in Nat
        /\ One(t \in agreed) \in Nat /\ One(HasVoted(j, t)) \in Nat /\ One(t \in lost) \in Nat
    BY CountsTyped DEF One
  <2> HIDE DEF agreed, lost
  <2>3. QED
    BY <1>4, <1>5, <2>1, <2>2 DEF ScoredAs
<1>8. QED
  BY <1>6, <1>7

LEMMA ScoresNext == IInv /\ ScoresOK /\ [Next]_vars => ScoresOK'
<1> SUFFICES ASSUME IInv, ScoresOK, [Next]_vars, NEW t \in Tokens
             PROVE  OnlyJudges(t)' /\ (Judges!Exists(t)' => ScoredAs(t)')
  BY DEF ScoresOK, Tokens, Judges!Tokens
<1>1. CASE Mint
  BY <1>1, MintScores
<1>2. CASE \E j \in Ids : CloseAppeal(j)
  BY <1>2, ClosingScores
<1>3. CASE ~Mint /\ \A j \in Ids : ~CloseAppeal(j)
  <2>1. UNCHANGED judgesVars
    BY <1>3 DEF Next, RegistryStep, SubmitVerdict, OpenAppeal, RecordPanelVote, vars
  <2>2. Judges!Exists(t)' <=> Judges!Exists(t)
    BY <2>1 DEF judgesVars, Judges!Exists
  <2>3. /\ Agreements(t)' = Agreements(t) /\ Ballots(t)' = Ballots(t)
        /\ Defeats(t)' = Defeats(t)
    BY <1>3, NothingCounted
  <2>4. OnlyJudges(t)'
    BY <1>3, <2>2, OnlyJudgesKept DEF ScoresOK
  <2>5. QED
    BY <2>1, <2>2, <2>3, <2>4 DEF ScoresOK, ScoredAs, judgesVars
<1>4. QED
  BY <1>1, <1>2, <1>3

(* The scoreboard is the sum of the closed appeals: no appeal is counted   *)
(* twice, none that is open, and none for a judge minted after it.         *)
THEOREM ScoresAreExact == Spec => []ScoresAddUp
<1>1. Init => ScoresOK
  <2> SUFFICES ASSUME Init, NEW t \in Tokens PROVE OnlyJudges(t) /\ ~Judges!Exists(t)
    BY DEF ScoresOK
  <2>1. \A i \in Ids : ~appeal[i].closed
    BY DEF Init, NothingAsked, NoAppeal
  <2>2. ~Judges!Exists(t)
    BY EscalationAssumption DEF Init, Judges!Init, Judges!Exists, Tokens, Judges!Tokens
  <2>3. QED
    BY <2>1, <2>2 DEF OnlyJudges
<1>2. ScoresOK => ScoresAddUp
  BY DEF ScoresOK, ScoredAs, ScoresAddUp
<1>3. QED
  BY <1>1, <1>2, ScoresNext, Invariant, PTL DEF Spec
-----------------------------------------------------------------------------
(* What the owners of the tokens may do is a mint to the protocol, or      *)
(* nothing.                                                                *)
LEMMA PanelStepIs == [PanelNext]_panelVars => [Next]_vars
<1> SUFFICES ASSUME [PanelNext]_panelVars PROVE [Next]_vars
  OBVIOUS
<1>1. CASE UNCHANGED panelVars
  BY <1>1 DEF panelVars
<1>2. CASE ProtocolStep
  BY <1>2 DEF ProtocolStep
<1>3. CASE OwnerStep
  <2>1. ASSUME NEW a, NEW d, NEW n, Ownership!Create(a, d, n) PROVE Mint
    BY <1>3, <2>1 DEF OwnerStep, Ownership!Create, Mint, Ownership!Scores!Mint, Judges!Mint,
         Ownership!Scores!INITIAL_REPUTATION, Judges!INITIAL_REPUTATION
  <2>2. ASSUME Ownership!scoreVars' = Ownership!scoreVars PROVE UNCHANGED vars
    BY <1>3, <2>2 DEF OwnerStep, Ownership!scoreVars, vars, judgesVars
  <2>3. QED
    BY <1>3, <2>1, <2>2
       DEF OwnerStep, Next, Ownership!Next, Ownership!Mint, Ownership!Clone,
           Ownership!VerifyTransferValidity, Ownership!UpdateVerifier,
           Ownership!SetApprovalForAll, Ownership!Transfer, Ownership!TransferFrom,
           Ownership!Move, Ownership!Update, Ownership!AuthorizeUsage, Ownership!Approve
<1>4. QED
  BY <1>1, <1>2, <1>3 DEF PanelNext

(* Tokens that change hands disturb no appeal: with "appeals" and          *)
(* "ownership" both in the scope, the steps of the owners come between     *)
(* those of the protocol in any order, and what is proved of the appeals   *)
(* still holds, whoever owns, moves, clones and lends the judges.          *)
THEOREM OwnersDisturbNothing == PanelSpec => Spec
<1>1. PanelInit => Init
  BY DEF PanelInit, Init, Ownership!Init, Ownership!Scores!Init, Judges!Init,
         Ownership!Scores!Tokens, Judges!Tokens
<1>2. QED
  BY <1>1, PanelStepIs, PTL DEF PanelSpec, Spec
-----------------------------------------------------------------------------
(* The tokens as their owners know them.                                   *)
HashLists ==
  {<<>>} \cup DataLists \cup {Ownership!NewDataHashes(p) : p \in Ownership!Bundles}

Held ==
  [owner : Holders \cup {Nobody}, dataHashes : HashLists, descriptions : 0..MaxSlots,
   authorizedUsers : SUBSET Holders, approvedUser : Holders \cup {Nobody}]

(* The types that the proofs need: every token is a record, every nonce    *)
(* has a count.                                                            *)
HeldTypes ==
  /\ nextTokenId \in 1..(MaxTokens + 1)
  /\ verifier \in Verifiers
  /\ operators \subseteq Holders \X Holders
  /\ token \in [Tokens -> Held]
  /\ approver \in [Tokens -> Holders \cup {Nobody}]

ProofTypes ==
  /\ usedProofs \in [Verifiers -> SUBSET Ownership!Nonces]
  /\ accepted \in [Verifiers -> [Ownership!Nonces -> Nat]]

OwnersOK == \A t \in Tokens : Ownership!OwnedOnceMinted(t) /\ Ownership!ApprovedByOwner(t)

ProofsOK == \A v \in Verifiers, n \in Ownership!Nonces : Ownership!SpentOnce(v, n)

HeldInv == HeldTypes /\ OwnersOK /\ ProofTypes /\ ProofsOK

LEMMA TokenFacts ==
  /\ Nobody \notin Holders /\ Users \subseteq Holders /\ Minter \in Holders
  /\ FirstVerifier \in Verifiers /\ MaxSlots \in Nat /\ MaxTokens \in Nat
  /\ Ownership!Tokens = Tokens /\ Tokens = 1..MaxTokens
  BY PanelAssumption, EscalationAssumption
     DEF Ownership!TokenAssumption, Ownership!Tokens, Ownership!Scores!Tokens, Tokens,
         Judges!Tokens

LEMMA SameExists == \A t : Ownership!Scores!Exists(t) <=> 0 < t /\ t < nextTokenId
  BY DEF Ownership!Scores!Exists

LEMMA BundleIs ==
  ASSUME NEW p \in Ownership!Bundles
  PROVE  \E n \in 0..MaxSlots : p \in [1..n -> Proofs]
  BY DEF Ownership!Bundles

LEMMA ListsFit == \A h \in HashLists : Len(h) \in 0..MaxSlots
<1> SUFFICES ASSUME NEW h \in HashLists PROVE Len(h) \in 0..MaxSlots
  OBVIOUS
<1>1. CASE h = <<>>
  BY <1>1, TokenFacts
<1>2. CASE h \in DataLists
  BY <1>2, PanelAssumption DEF Ownership!TokenAssumption
<1>3. ASSUME NEW p \in Ownership!Bundles, h = Ownership!NewDataHashes(p)
      PROVE  Len(h) \in 0..MaxSlots
  <2>1. PICK n \in 0..MaxSlots : p \in [1..n -> Proofs]
    BY BundleIs
  <2>2. n \in Nat /\ DOMAIN p = 1..n
    BY <2>1, TokenFacts
  <2>3. h = [i \in 1..n |-> p[i].newDataHash]
    BY <1>3, <2>2 DEF Ownership!NewDataHashes
  <2>4. Len([i \in 1..n |-> p[i].newDataHash]) = n
    BY <2>2
  <2>5. Len(h) = n
    BY <2>3, <2>4
  <2>6. QED
    BY <2>1, <2>5
<1>4. QED
  BY <1>1, <1>2, <1>3 DEF HashLists

LEMMA SameCardinality == \A S : Ownership!Cardinality(S) = Cardinality(S)
  BY Zenon DEF Ownership!Cardinality, Cardinality

(* A bundle that passes uses every nonce in it up, once.                   *)
LEMMA VerifyKeeps ==
  ASSUME ProofTypes, ProofsOK, NEW v \in Verifiers, NEW p \in Ownership!Bundles,
         Ownership!Verify(v, p)
  PROVE  ProofTypes' /\ ProofsOK'
<1> DEFINE N == Ownership!Nonces
           Spent(m) == {i \in DOMAIN p : p[i].nonce = m}
           used == {p[i].nonce : i \in DOMAIN p}
<1>1. PICK n \in 0..MaxSlots : p \in [1..n -> Proofs]
  BY BundleIs
<1>2. DOMAIN p = 1..n /\ \A i \in 1..n : p[i] \in Proofs
  BY <1>1
<1>3. used \subseteq N
  BY <1>2 DEF Ownership!Nonces
<1>4. ASSUME NEW m \in N
      PROVE  Cardinality(Spent(m)) = IF m \in used THEN 1 ELSE 0
  <2>1. CASE m \in used
    <3>1. PICK i \in DOMAIN p : p[i].nonce = m
      BY <2>1
    <3>2. \A h \in DOMAIN p : p[h].nonce = m => h = i
      BY <3>1 DEF Ownership!Verify, Ownership!Fresh, Ownership!IsInjective
    <3>3. Spent(m) = {i}
      BY <3>1, <3>2
    <3>4. QED
      BY <2>1, <3>3, FS_Singleton
  <2>2. CASE m \notin used
    <3>1. Spent(m) = {}
      BY <2>2
    <3>2. QED
      BY <2>2, <3>1, FS_EmptySet
  <2>3. QED
    BY <2>1, <2>2
<1>5. \A m \in used : m \notin usedProofs[v]
  BY DEF Ownership!Verify, Ownership!Fresh
<1>6. usedProofs' = [usedProofs EXCEPT ![v] = usedProofs[v] \cup used]
  BY DEF Ownership!Verify
<1>7. accepted' = [accepted EXCEPT ![v] =
                     [m \in N |-> accepted[v][m] + Cardinality(Spent(m))]]
  BY SameCardinality DEF Ownership!Verify
<1> HIDE DEF N, Spent, used
<1>8. \A m \in N : accepted[v][m] \in Nat /\ Cardinality(Spent(m)) \in {0, 1}
  BY <1>4 DEF ProofTypes, N
<1>9. [m \in N |-> accepted[v][m] + Cardinality(Spent(m))] \in [N -> Nat]
  BY <1>8
<1>10. ProofTypes'
  BY <1>3, <1>6, <1>7, <1>9 DEF ProofTypes, N
<1>11. ASSUME NEW w \in Verifiers, NEW m \in N
       PROVE  accepted'[w][m] = IF m \in usedProofs'[w] THEN 1 ELSE 0
  <2>1. accepted[w][m] = IF m \in usedProofs[w] THEN 1 ELSE 0
    BY DEF ProofsOK, Ownership!SpentOnce, N
  <2>2. CASE w # v
    BY <1>6, <1>7, <2>1, <2>2 DEF ProofTypes
  <2>3. CASE w = v
    <3>1. /\ accepted'[w][m] = accepted[v][m] + Cardinality(Spent(m))
          /\ usedProofs'[w] = usedProofs[v] \cup used
      BY <1>6, <1>7, <2>3 DEF ProofTypes
    <3>2. QED
      BY <1>4, <1>5, <2>1, <2>3, <3>1
  <2>4. QED
    BY <2>2, <2>3
<1>12. QED
  BY <1>10, <1>11 DEF ProofsOK, Ownership!SpentOnce, N

(* One token of a known judge changes, and its new approval is its owner's. *)
LEMMA TokenChanges ==
  ASSUME HeldTypes, OwnersOK, NEW t \in Tokens, token[t].owner # Nobody, NEW r \in Held,
         token' = [token EXCEPT ![t] = r], nextTokenId' = nextTokenId,
         verifier' = verifier, operators' = operators,
         approver' \in [Tokens -> Holders \cup {Nobody}],
         \A h \in Tokens \ {t} : approver'[h] = approver[h],
         r.owner # Nobody,
         r.approvedUser # Nobody => approver'[t] = r.owner
  PROVE  HeldTypes' /\ OwnersOK'
<1>1. HeldTypes'
  BY DEF HeldTypes
<1>2. ASSUME NEW h \in Tokens
      PROVE  Ownership!OwnedOnceMinted(h)' /\ Ownership!ApprovedByOwner(h)'
  <2>1. token'[h] = IF h = t THEN r ELSE token[h]
    BY DEF HeldTypes
  <2>2. Ownership!OwnedOnceMinted(h) /\ Ownership!ApprovedByOwner(h)
    BY DEF OwnersOK
  <2>3. QED
    BY <2>1, <2>2, SameExists
       DEF Ownership!OwnedOnceMinted, Ownership!ApprovedByOwner, Ownership!Scores!Exists
<1>3. QED
  BY <1>1, <1>2 DEF OwnersOK

LEMMA TokenCreated ==
  ASSUME HeldTypes, OwnersOK, NEW a \in Holders, NEW d \in HashLists, NEW k \in 0..MaxSlots,
         Ownership!Create(a, d, k)
  PROVE  HeldTypes' /\ OwnersOK'
<1> DEFINE r == [Ownership!NoToken EXCEPT !.owner = a, !.dataHashes = d, !.descriptions = k]
<1>1. /\ nextTokenId \in Tokens /\ nextTokenId' = nextTokenId + 1
      /\ token' = [token EXCEPT ![nextTokenId] = r]
      /\ operators' = operators /\ verifier' = verifier /\ approver' = approver
  BY TokenFacts DEF Ownership!Create, Ownership!Scores!Mint, HeldTypes
<1>2. r \in Held /\ r.owner = a /\ r.approvedUser = Nobody /\ a # Nobody
  BY TokenFacts DEF Ownership!NoToken, Held
<1> HIDE DEF r
<1>3. HeldTypes'
  BY <1>1, <1>2, TokenFacts DEF HeldTypes
<1>4. ASSUME NEW h \in Tokens
      PROVE  Ownership!OwnedOnceMinted(h)' /\ Ownership!ApprovedByOwner(h)'
  <2>1. token'[h] = IF h = nextTokenId THEN r ELSE token[h]
    BY <1>1 DEF HeldTypes
  <2>2. Ownership!OwnedOnceMinted(h) /\ Ownership!ApprovedByOwner(h)
    BY DEF OwnersOK
  <2>3. h \in Nat \ {0} /\ nextTokenId \in Nat
    BY TokenFacts DEF HeldTypes
  <2>4. QED
    BY <1>1, <1>2, <2>1, <2>2, <2>3, SameExists
       DEF Ownership!OwnedOnceMinted, Ownership!ApprovedByOwner, Ownership!Scores!Exists,
           Ownership!NoToken
<1>5. QED
  BY <1>3, <1>4 DEF OwnersOK

LEMMA TokenMinted ==
  ASSUME HeldInv, NEW a \in Holders, NEW d \in DataLists, Ownership!Mint(a, d)
  PROVE  HeldInv'
<1>1. d \in HashLists /\ Len(d) \in 0..MaxSlots
  BY PanelAssumption DEF HashLists, Ownership!TokenAssumption
<1>2. HeldTypes' /\ OwnersOK'
  BY <1>1, TokenCreated DEF HeldInv, Ownership!Mint
<1>3. ProofTypes' /\ ProofsOK'
  BY DEF HeldInv, Ownership!Mint, Ownership!proofVars, ProofTypes, ProofsOK, Ownership!SpentOnce
<1>4. QED
  BY <1>2, <1>3 DEF HeldInv

(* Who may act for a token acts for one that has an owner.                 *)
LEMMA ActsForOwner ==
  ASSUME HeldInv, NEW t \in Tokens, NEW a \in Holders, Ownership!MayAct(a, t)
  PROVE  token[t].owner # Nobody
<1>1. token[t].owner = Nobody => token[t] = Ownership!NoToken
  BY DEF HeldInv, OwnersOK, Ownership!OwnedOnceMinted
<1>2. Ownership!NoToken.approvedUser = Nobody
  BY DEF Ownership!NoToken
<1>3. QED
  BY <1>1, <1>2, TokenFacts DEF HeldInv, HeldTypes, Ownership!MayAct

LEMMA TokenMoved ==
  ASSUME HeldInv, NEW t \in Tokens, token[t].owner # Nobody, NEW to \in Holders \cup {Nobody},
         NEW p \in Ownership!Bundles, Ownership!Move(t, to, p)
  PROVE  HeldInv'
<1> DEFINE r == [token[t] EXCEPT !.owner = to, !.dataHashes = Ownership!NewDataHashes(p),
                                 !.approvedUser = Nobody]
<1>1. token[t] \in Held
  BY DEF HeldInv, HeldTypes
<1>2. Ownership!NewDataHashes(p) \in HashLists
  BY DEF HashLists
<1>3. r \in Held /\ r.owner = to /\ r.approvedUser = Nobody
  BY <1>1, <1>2 DEF Held
<1>4. token' = [token EXCEPT ![t] = r]
  BY <1>1 DEF HeldInv, HeldTypes, Ownership!Move, Ownership!HandOver
<1> HIDE DEF r
<1>5. /\ to # Nobody /\ nextTokenId' = nextTokenId /\ verifier' = verifier
      /\ operators' = operators /\ approver' = approver
      /\ Ownership!Verify(verifier, p)
  BY DEF Ownership!Move, Ownership!scoreVars
<1>6. HeldTypes' /\ OwnersOK'
  BY <1>3, <1>4, <1>5, TokenChanges DEF HeldInv, HeldTypes
<1>7. ProofTypes' /\ ProofsOK'
  BY <1>5, VerifyKeeps DEF HeldInv, HeldTypes
<1>8. QED
  BY <1>6, <1>7 DEF HeldInv

LEMMA TokenCloned ==
  ASSUME HeldInv, NEW t \in Tokens, NEW a \in Holders, NEW to \in Holders \cup {Nobody},
         NEW p \in Ownership!Bundles, Ownership!Clone(a, to, t, p)
  PROVE  HeldInv'
<1>1. Ownership!NewDataHashes(p) \in HashLists /\ token[t].descriptions \in 0..MaxSlots
  BY DEF HashLists, HeldInv, HeldTypes, Held
<1>2. /\ to \in Holders
      /\ Ownership!Create(to, Ownership!NewDataHashes(p), token[t].descriptions)
      /\ Ownership!Verify(verifier, p)
  BY DEF Ownership!Clone
<1>3. HeldTypes' /\ OwnersOK'
  BY <1>1, <1>2, TokenCreated DEF HeldInv
<1>4. ProofTypes' /\ ProofsOK'
  BY <1>2, VerifyKeeps DEF HeldInv, HeldTypes
<1>5. QED
  BY <1>3, <1>4 DEF HeldInv

(* The owner changes his token in place.                                   *)
LEMMA TokenChanged ==
  ASSUME HeldInv, NEW t \in Tokens, NEW a \in Holders,
         \/ \E d \in DataLists : Ownership!Update(a, t, d)
         \/ \E b \in Users \ {a} : Ownership!AuthorizeUsage(a, t, b)
         \/ \E b \in (Users \ {a}) \cup {Nobody} : Ownership!Approve(a, t, b)
  PROVE  HeldInv'
<1>1. token[t] \in Held /\ DOMAIN token = Tokens /\ approver \in [Tokens -> Holders \cup {Nobody}]
  BY DEF HeldInv, HeldTypes
<1>2. token[t].approvedUser # Nobody => approver[t] = token[t].owner
  BY DEF HeldInv, OwnersOK, Ownership!ApprovedByOwner
<1>3. \E r \in Held :
        /\ token' = [token EXCEPT ![t] = r]
        /\ r.owner = a
        /\ r.approvedUser # Nobody => approver'[t] = a
  <2>1. ASSUME NEW d \in DataLists, Ownership!Update(a, t, d)
        PROVE  \E r \in Held : /\ token' = [token EXCEPT ![t] = r] /\ r.owner = a
                               /\ r.approvedUser # Nobody => approver'[t] = a
    <3> DEFINE r == [token[t] EXCEPT !.dataHashes = d]
    <3>1. r \in Held /\ r.owner = token[t].owner /\ r.approvedUser = token[t].approvedUser
      BY <1>1 DEF Held, HashLists
    <3>2. token' = [token EXCEPT ![t] = r] /\ approver' = approver /\ a = token[t].owner
      BY <1>1, <2>1 DEF Ownership!Update
    <3> HIDE DEF r
    <3>3. QED
      BY <1>2, <3>1, <3>2
  <2>2. ASSUME NEW b \in Users, Ownership!AuthorizeUsage(a, t, b)
        PROVE  \E r \in Held : /\ token' = [token EXCEPT ![t] = r] /\ r.owner = a
                               /\ r.approvedUser # Nobody => approver'[t] = a
    <3> DEFINE r == [token[t] EXCEPT !.authorizedUsers = token[t].authorizedUsers \cup {b}]
    <3>1. r \in Held /\ r.owner = token[t].owner /\ r.approvedUser = token[t].approvedUser
      BY <1>1, TokenFacts DEF Held
    <3>2. token' = [token EXCEPT ![t] = r] /\ approver' = approver /\ a = token[t].owner
      BY <1>1, <2>2 DEF Ownership!AuthorizeUsage
    <3> HIDE DEF r
    <3>3. QED
      BY <1>2, <3>1, <3>2
  <2>3. ASSUME NEW b \in Users \cup {Nobody}, Ownership!Approve(a, t, b)
        PROVE  \E r \in Held : /\ token' = [token EXCEPT ![t] = r] /\ r.owner = a
                               /\ r.approvedUser # Nobody => approver'[t] = a
    <3> DEFINE r == [token[t] EXCEPT !.approvedUser = b]
    <3>1. r \in Held /\ r.owner = token[t].owner
      BY <1>1, TokenFacts DEF Held
    <3>2. token' = [token EXCEPT ![t] = r] /\ approver'[t] = a /\ a = token[t].owner
      BY <1>1, <2>3 DEF Ownership!Approve
    <3> HIDE DEF r
    <3>3. QED
      BY <3>1, <3>2
  <2>4. QED
    BY <2>1, <2>2, <2>3
<1>4. /\ token[t].owner # Nobody /\ nextTokenId' = nextTokenId /\ verifier' = verifier
      /\ operators' = operators /\ UNCHANGED Ownership!proofVars
      /\ approver' \in [Tokens -> Holders \cup {Nobody}]
      /\ \A h \in Tokens \ {t} : approver'[h] = approver[h]
  BY <1>1, TokenFacts
     DEF Ownership!Update, Ownership!AuthorizeUsage, Ownership!Approve, Ownership!scoreVars
<1>5. HeldTypes' /\ OwnersOK'
  BY <1>3, <1>4, TokenFacts, TokenChanges DEF HeldInv
<1>6. ProofTypes' /\ ProofsOK'
  BY <1>4 DEF HeldInv, Ownership!proofVars, ProofTypes, ProofsOK, Ownership!SpentOnce
<1>7. QED
  BY <1>5, <1>6 DEF HeldInv

(* Tokens, counter and verifier are left alone.                            *)
LEMMA TokensKept ==
  ASSUME HeldInv, UNCHANGED <<nextTokenId, token, approver>>,
         operators' \subseteq Holders \X Holders, verifier' \in Verifiers
  PROVE  HeldTypes' /\ OwnersOK'
  BY DEF HeldInv, HeldTypes, OwnersOK, Ownership!OwnedOnceMinted, Ownership!ApprovedByOwner,
         Ownership!Scores!Exists

LEMMA OwnershipNext == HeldInv /\ Ownership!Next => HeldInv'
<1> SUFFICES ASSUME HeldInv, Ownership!Next PROVE HeldInv'
  OBVIOUS
<1>1. ASSUME NEW a \in Holders, NEW d \in DataLists, Ownership!Mint(a, d) PROVE HeldInv'
  BY <1>1, TokenMinted
<1>2. ASSUME NEW v \in Verifiers, NEW p \in Ownership!Bundles,
             Ownership!VerifyTransferValidity(v, p)
      PROVE  HeldInv'
  <2>1. Ownership!Verify(v, p) /\ UNCHANGED <<nextTokenId, token, operators, verifier, approver>>
    BY <1>2 DEF Ownership!VerifyTransferValidity, Ownership!scoreVars
  <2>2. QED
    BY <2>1, VerifyKeeps, TokensKept DEF HeldInv, HeldTypes
<1>3. ASSUME NEW v \in Verifiers, Ownership!UpdateVerifier(v) PROVE HeldInv'
  <2>1. /\ verifier' = v /\ UNCHANGED Ownership!proofVars
        /\ UNCHANGED <<nextTokenId, token, operators, approver>>
    BY <1>3 DEF Ownership!UpdateVerifier, Ownership!scoreVars
  <2>2. ProofTypes' /\ ProofsOK'
    BY <2>1 DEF HeldInv, Ownership!proofVars, ProofTypes, ProofsOK, Ownership!SpentOnce
  <2>3. QED
    BY <2>1, <2>2, TokensKept DEF HeldInv, HeldTypes
<1>4. ASSUME NEW a \in Holders, NEW on \in BOOLEAN, NEW b \in Users \ {a},
             Ownership!SetApprovalForAll(a, b, on)
      PROVE  HeldInv'
  <2>1. /\ operators' \subseteq operators \cup {<<a, b>>} /\ UNCHANGED Ownership!proofVars
        /\ UNCHANGED <<nextTokenId, token, verifier, approver>>
    BY <1>4 DEF Ownership!SetApprovalForAll, Ownership!scoreVars
  <2>2. ProofTypes' /\ ProofsOK'
    BY <2>1 DEF HeldInv, Ownership!proofVars, ProofTypes, ProofsOK, Ownership!SpentOnce
  <2>3. operators' \subseteq Holders \X Holders
    BY <2>1, TokenFacts DEF HeldInv, HeldTypes
  <2>4. QED
    BY <2>1, <2>2, <2>3, TokensKept DEF HeldInv, HeldTypes
<1>5. ASSUME NEW t \in Tokens, NEW a \in Holders, NEW to \in Holders \cup {Nobody},
             NEW p \in Ownership!Bundles,
             Ownership!Transfer(a, to, t, p) \/ Ownership!TransferFrom(a, to, t, p)
      PROVE  HeldInv'
  <2>1. Ownership!Move(t, to, p) /\ Ownership!MayAct(a, t)
    BY <1>5 DEF Ownership!Transfer, Ownership!TransferFrom, Ownership!MayAct
  <2>2. QED
    BY <2>1, ActsForOwner, TokenMoved
<1>6. ASSUME NEW t \in Tokens, NEW a \in Holders, NEW to \in Holders \cup {Nobody},
             NEW p \in Ownership!Bundles, Ownership!Clone(a, to, t, p)
      PROVE  HeldInv'
  BY <1>6, TokenCloned
<1>7. ASSUME NEW t \in Tokens, NEW a \in Holders,
             \/ \E d \in DataLists : Ownership!Update(a, t, d)
             \/ \E b \in Users \ {a} : Ownership!AuthorizeUsage(a, t, b)
             \/ \E b \in (Users \ {a}) \cup {Nobody} : Ownership!Approve(a, t, b)
      PROVE  HeldInv'
  BY <1>7, TokenChanged
<1>8. QED
  BY <1>1, <1>2, <1>3, <1>4, <1>5, <1>6, <1>7, TokenFacts DEF Ownership!Next

(* The protocol hands out ids and touches no token otherwise.              *)
LEMMA ProtocolKeepsTokens == HeldInv /\ ProtocolStep => HeldInv'
<1> SUFFICES ASSUME HeldInv, ProtocolStep PROVE HeldInv'
  OBVIOUS
<1>1. CASE nextTokenId' = nextTokenId /\ UNCHANGED heldVars
  <2>1. HeldTypes' /\ OwnersOK'
    BY <1>1, TokensKept DEF heldVars, HeldInv, HeldTypes
  <2>2. ProofTypes' /\ ProofsOK'
    BY <1>1 DEF heldVars, HeldInv, ProofTypes, ProofsOK, Ownership!SpentOnce
  <2>3. QED
    BY <2>1, <2>2 DEF HeldInv
<1>2. QED
  BY <1>1, TokenMinted, TokenFacts DEF ProtocolStep

LEMMA HeldInit == PanelInit => HeldInv
<1> SUFFICES ASSUME PanelInit PROVE HeldInv
  OBVIOUS
<1>1. /\ nextTokenId = 1 /\ token = [t \in Tokens |-> Ownership!NoToken]
      /\ operators = {} /\ verifier = FirstVerifier
      /\ usedProofs = [v \in Verifiers |-> {}]
      /\ accepted = [v \in Verifiers |-> [n \in Ownership!Nonces |-> 0]]
      /\ approver = [t \in Tokens |-> Nobody]
  BY TokenFacts DEF PanelInit, Ownership!Init, Ownership!Scores!Init
<1>2. /\ Ownership!NoToken \in Held /\ Ownership!NoToken.owner = Nobody
      /\ Ownership!NoToken.approvedUser = Nobody
  BY TokenFacts DEF Ownership!NoToken, Held, HashLists
<1>3. HeldTypes
  BY <1>1, <1>2, TokenFacts DEF HeldTypes
<1>4. ProofTypes /\ ProofsOK
  BY <1>1 DEF ProofTypes, ProofsOK, Ownership!SpentOnce
<1>5. OwnersOK
  BY <1>1, <1>2, TokenFacts
     DEF OwnersOK, Ownership!OwnedOnceMinted, Ownership!ApprovedByOwner,
         Ownership!Scores!Exists
<1>6. QED
  BY <1>3, <1>4, <1>5 DEF HeldInv

(* A judge that was minted or cloned has an owner for ever after, its      *)
(* approved user was named by that owner, and a verifier accepts a proof   *)
(* once: within one bundle, for any token, and after an exchange of        *)
(* verifiers; in every scope, so also while appeals score the judges.      *)
THEOREM TokensWellHeld == PanelSpec => []TokenInv
<1>1. HeldInv /\ [PanelNext]_panelVars => HeldInv'
  <2> SUFFICES ASSUME HeldInv, [PanelNext]_panelVars PROVE HeldInv'
    OBVIOUS
  <2>1. CASE UNCHANGED panelVars
    <3>1. UNCHANGED <<nextTokenId, heldVars>>
      BY <2>1 DEF panelVars, vars, judgesVars
    <3>2. HeldTypes' /\ OwnersOK'
      BY <3>1, TokensKept DEF heldVars, HeldInv, HeldTypes
    <3>3. ProofTypes' /\ ProofsOK'
      BY <3>1 DEF heldVars, HeldInv, ProofTypes, ProofsOK, Ownership!SpentOnce
    <3>4. QED
      BY <3>2, <3>3 DEF HeldInv
  <2>2. QED
    BY <2>1, OwnershipNext, ProtocolKeepsTokens DEF PanelNext, OwnerStep
<1>2. HeldInv => TokenInv
  <2> SUFFICES ASSUME HeldInv PROVE TokenInv
    OBVIOUS
  <2>1. ASSUME NEW t \in Tokens
        PROVE  /\ {token[t].owner, token[t].approvedUser} \subseteq Holders \cup {Nobody}
               /\ token[t].authorizedUsers \subseteq Holders
               /\ Len(token[t].dataHashes) \in 0..MaxSlots
               /\ token[t].descriptions \in 0..MaxSlots
    <3>1. token[t] \in Held
      BY DEF HeldInv, HeldTypes
    <3>2. QED
      BY <3>1, ListsFit DEF Held
  <2>2. Ownership!TypeOK
    BY <2>1, TokenFacts DEF HeldInv, HeldTypes, ProofTypes, Ownership!TypeOK
  <2>3. QED
    BY <2>2, TokenFacts DEF HeldInv, OwnersOK, ProofsOK, TokenInv, Ownership!TokenInv
<1>3. QED
  BY <1>1, <1>2, HeldInit, PTL DEF PanelSpec
-----------------------------------------------------------------------------
(* The fields of an appeal; what type they have does not matter here.      *)
AppealFields ==
  {"opened", "closed", "judge", "original", "votes", "votesRecorded", "tally"}

Typed ==
  /\ DOMAIN appeal = Ids
  /\ \A i \in Ids : DOMAIN appeal[i] = AppealFields
  /\ job \in [Ids -> Job]
  /\ logs \in [Ids -> Seq(Rulings)]

(* An attempt starts from nothing, and there is another only while         *)
(* attempts are left; past the deliberation it has three decisions.        *)
AttemptOK(i) ==
  LET j == job[i] IN
  /\ j.state \in {"waiting", "active"} => j.attempts < ATTEMPTS
  /\ j.state # "active" => j.step = "prepare"
  /\ i \notin enqueued => j = NoJob
  /\ j.step \in {"prepare", "open"} => j.next = 1
  /\ j.step # "prepare" => j.decisions \in [PANEL -> Rulings] /\ Len(PanelTokens) = 3
  /\ j.step \in {"vote", "log"} => j.next \in PANEL

(* The chain counted the decision of panellist n of this attempt.          *)
Cast(i, n) ==
  /\ PanelTokens[n] \in DOMAIN appeal[i].votes
  /\ appeal[i].votes[PanelTokens[n]] = job[i].decisions[n]

(* Where an attempt stands, its appeal stands too; logs are written for a  *)
(* closed appeal, which takes no further votes.                            *)
BallotOK(i) ==
  LET j == job[i] IN
  /\ appeal[i].closed => appeal[i].opened
  /\ logs[i] # <<>> => appeal[i].closed
  /\ j.step = "vote" =>
       /\ appeal[i].opened /\ logs[i] = <<>>
       /\ appeal[i].votesRecorded = j.next - 1
       /\ \A n \in 1..(j.next - 1) : Cast(i, n)
  /\ j.step = "close" => logs[i] = <<>> /\ \A n \in PANEL : Cast(i, n)
  /\ j.step = "log" =>
       /\ appeal[i].closed /\ Len(logs[i]) = j.next - 1
       /\ \A n \in PANEL : Cast(i, n)

WorkOK(i) == AttemptOK(i) /\ BallotOK(i) /\ LoggedAsVoted(i)

(* The inductive invariant.                                                *)
WorkInv == Typed /\ \A i \in Ids : WorkOK(i)
-----------------------------------------------------------------------------
LEMMA Attempts == ATTEMPTS \in Nat \ {0} /\ PanelTokens \in Seq(Nat)
  BY WorkerAssumption

LEMMA PanelistsAre == \A n \in PANEL : PanelTokens[n] \in Nat
  BY Attempts DEF PANEL

LEMMA JobShape ==
  ASSUME NEW s \in {"none", "waiting", "active", "completed", "failed"},
         NEW k \in 0..ATTEMPTS, NEW t \in Steps, NEW n \in Nat,
         NEW d \in {<<>>} \cup [PANEL -> Rulings]
  PROVE  [state |-> s, attempts |-> k, step |-> t, decisions |-> d, next |-> n] \in Job
  BY DEF Job

LEMMA FreshJob == NoJob \in Job
<1>1. 0 \in 0..ATTEMPTS /\ "prepare" \in Steps
  BY Attempts DEF Steps
<1>2. <<>> \in {<<>>} \cup [PANEL -> Rulings]
  OBVIOUS
<1>3. QED
  BY <1>1, <1>2, JobShape DEF NoJob

LEMMA TwoFields ==
  ASSUME NEW j, DOMAIN j = {"state", "attempts", "step", "decisions", "next"}, NEW k, NEW s
  PROVE  LET r == [j EXCEPT !.attempts = k, !.state = s] IN
         r.attempts = k /\ r.state = s /\ r.step = j.step /\ r.next = j.next
  OBVIOUS

LEMMA ThrownIs ==
  ASSUME NEW j
  PROVE  /\ Thrown(j).state \in {"waiting", "failed"}
         /\ Thrown(j).state = "waiting" => Thrown(j).attempts < ATTEMPTS
         /\ Thrown(j).step = "prepare" /\ Thrown(j).next = 1
<1>1. /\ NoJob.step = "prepare" /\ NoJob.next = 1
      /\ DOMAIN NoJob = {"state", "attempts", "step", "decisions", "next"}
  BY DEF NoJob
<1>2. CASE j.attempts + 1 < ATTEMPTS
  <2>1. Thrown(j) = [NoJob EXCEPT !.attempts = j.attempts + 1, !.state = "waiting"]
    BY <1>2 DEF Thrown
  <2>2. QED
    BY <1>1, <1>2, <2>1, TwoFields
<1>3. CASE ~(j.attempts + 1 < ATTEMPTS)
  <2>1. Thrown(j) = [NoJob EXCEPT !.attempts = j.attempts + 1, !.state = "failed"]
    BY <1>3 DEF Thrown
  <2>2. QED
    BY <1>1, <2>1, TwoFields
<1>4. QED
  BY <1>2, <1>3

LEMMA WorkStart == WorkerInit => WorkInv
<1> SUFFICES ASSUME WorkerInit PROVE WorkInv
  OBVIOUS
<1>1. appeal = [i \in Ids |-> NoAppeal]
  BY DEF WorkerInit, NothingAsked
<1>2. DOMAIN NoAppeal = AppealFields /\ NoAppeal.closed = FALSE
  BY DEF NoAppeal, AppealFields
<1>3. Typed
  BY <1>1, <1>2, FreshJob DEF WorkerInit, Typed
<1>4. ASSUME NEW i \in Ids PROVE WorkOK(i)
  <2>1. job[i] = NoJob /\ logs[i] = <<>> /\ ~appeal[i].closed
    BY <1>1, <1>2 DEF WorkerInit
  <2>2. AttemptOK(i)
    BY <2>1 DEF AttemptOK, NoJob
  <2>3. BallotOK(i) /\ LoggedAsVoted(i)
    BY <2>1 DEF BallotOK, LoggedAsVoted, NoJob
  <2>4. QED
    BY <2>2, <2>3 DEF WorkOK
<1>5. QED
  BY <1>3, <1>4 DEF WorkInv

(* What a step leaves of an assertion it does not touch.                   *)
LEMMA FrameWork ==
  ASSUME NEW i \in Ids, WorkOK(i),
         appeal'[i] = appeal[i], job'[i] = job[i], logs'[i] = logs[i],
         i \in enqueued' <=> i \in enqueued
  PROVE  WorkOK(i)'
  BY DEF WorkOK, AttemptOK, BallotOK, LoggedAsVoted, Cast

(* A step of the job of assertion i.                                       *)
LEMMA JobStep ==
  ASSUME WorkInv, NEW i \in Ids, Typed',
         \A h \in Ids : h # i =>
           /\ appeal'[h] = appeal[h] /\ job'[h] = job[h] /\ logs'[h] = logs[h]
           /\ h \in enqueued' <=> h \in enqueued,
         WorkOK(i)'
  PROVE  WorkInv'
<1>1. ASSUME NEW h \in Ids PROVE WorkOK(h)'
  BY <1>1, FrameWork DEF WorkInv
<1>2. QED
  BY <1>1 DEF WorkInv

(* An attempt that fails leaves the appeal as it is; the next one starts   *)
(* from nothing and cannot open it again.                                  *)
LEMMA ThrownOK ==
  ASSUME WorkInv, NEW i \in Ids, job[i].state = "active", Typed',
         job' = [job EXCEPT ![i] = Thrown(job[i])], UNCHANGED <<logs, enqueued>>,
         \A h \in Ids : h # i => appeal'[h] = appeal[h],
         appeal'[i].closed => appeal'[i].opened,
         logs[i] # <<>> => appeal'[i].closed,
         LoggedAsVoted(i)'
  PROVE  WorkInv'
<1>1. Typed /\ WorkOK(i) /\ job[i] \in Job
  BY DEF WorkInv, Typed
<1>2. job'[i] = Thrown(job[i]) /\ \A h \in Ids : h # i => job'[h] = job[h]
  BY <1>1 DEF Typed
<1>3. /\ job'[i].state \in {"waiting", "failed"} /\ job'[i].step = "prepare"
      /\ job'[i].next = 1
      /\ job'[i].state = "waiting" => job'[i].attempts < ATTEMPTS
  BY <1>2, ThrownIs
<1>4. AttemptOK(i)'
  <2>1. i \in enqueued
    BY <1>1 DEF WorkOK, AttemptOK, NoJob
  <2>2. QED
    BY <1>3, <2>1 DEF AttemptOK
<1>5. BallotOK(i)'
  BY <1>3 DEF BallotOK
<1>6. QED
  BY <1>2, <1>4, <1>5, JobStep DEF WorkOK

LEMMA ThrownTyped ==
  ASSUME WorkInv, NEW i \in Ids, job[i].state = "active"
  PROVE  [job EXCEPT ![i] = Thrown(job[i])] \in [Ids -> Job]
<1>1. job[i] \in Job /\ job[i].attempts < ATTEMPTS /\ job \in [Ids -> Job]
  BY DEF WorkInv, Typed, WorkOK, AttemptOK
<1>2. job[i].attempts + 1 \in 0..ATTEMPTS
  BY <1>1, Attempts DEF Job
<1>3. Thrown(job[i]) \in Job
  BY <1>2, FreshJob DEF Thrown, Job
<1>4. QED
  BY <1>1, <1>3
-----------------------------------------------------------------------------
(* Users, the judge, the administrator, the pages.                         *)
LEMMA AsideOK ==
  ASSUME WorkInv,
         \/ Elsewhere
         \/ \E i \in Ids : OpenPanel(i) \/ LeavePanel(i) \/ PollDetail(i)
         \/ UNCHANGED workerVars
  PROVE  WorkInv'
<1>1. UNCHANGED <<appeal, job, logs, enqueued>>
  BY DEF Elsewhere, RegistryStep, SubmitVerdict, jobVars, vars, registryVars, judgesVars,
         OpenPanel, LeavePanel, PollDetail, workerVars
<1>2. Typed'
  BY <1>1 DEF WorkInv, Typed
<1>3. QED
  BY <1>1, <1>2, FrameWork DEF WorkInv

(* The job moves on while the appeal and the logs of i stand still.        *)
LEMMA EnqueueOK ==
  ASSUME WorkInv, NEW i \in Ids, Enqueue(i)
  PROVE  WorkInv'
<1>1. Typed /\ WorkOK(i) /\ job[i] = NoJob
  BY DEF WorkInv, Enqueue, WorkOK, AttemptOK
<1>2. /\ UNCHANGED <<appeal, logs>> /\ enqueued' = enqueued \cup {i}
      /\ job' = [job EXCEPT ![i].state = "waiting"]
  BY DEF Enqueue, vars, registryVars, judgesVars
<1>3. job' = [job EXCEPT ![i] = [NoJob EXCEPT !.state = "waiting"]]
  BY <1>1, <1>2
<1>4. [NoJob EXCEPT !.state = "waiting"] =
        [state |-> "waiting", attempts |-> 0, step |-> "prepare", decisions |-> <<>>,
         next |-> 1]
  BY DEF NoJob
<1>5. [NoJob EXCEPT !.state = "waiting"] \in Job
  <2>1. 0 \in 0..ATTEMPTS /\ "prepare" \in Steps /\ <<>> \in {<<>>} \cup [PANEL -> Rulings]
    BY Attempts DEF Steps
  <2>2. QED
    BY <1>4, <2>1, JobShape
<1>6. Typed'
  BY <1>1, <1>2, <1>3, <1>5 DEF Typed
<1>7. /\ job'[i].state = "waiting" /\ job'[i].attempts = 0 /\ job'[i].step = "prepare"
      /\ job'[i].next = 1
  BY <1>1, <1>3, <1>4 DEF Typed
<1>8. AttemptOK(i)'
  BY <1>2, <1>7, Attempts DEF AttemptOK
<1>9. BallotOK(i)' /\ LoggedAsVoted(i)'
  BY <1>1, <1>2, <1>7 DEF WorkOK, BallotOK, LoggedAsVoted
<1>10. QED
  BY <1>1, <1>2, <1>3, <1>6, <1>8, <1>9, JobStep DEF Typed, WorkOK

LEMMA StartOK ==
  ASSUME WorkInv, NEW i \in Ids, Start(i)
  PROVE  WorkInv'
<1>1. Typed /\ WorkOK(i) /\ job[i] \in Job /\ job[i].state = "waiting"
  BY DEF WorkInv, Typed, Start
<1>2. /\ UNCHANGED <<appeal, logs, enqueued>>
      /\ job' = [job EXCEPT ![i].state = "active"]
  BY DEF Start, vars, registryVars, judgesVars
<1>3. /\ job'[i] \in Job /\ job'[i].state = "active" /\ job'[i].attempts = job[i].attempts
      /\ job'[i].step = job[i].step /\ job'[i].next = job[i].next
      /\ job[i].step = "prepare" /\ job[i].attempts < ATTEMPTS /\ i \in enqueued
      /\ job[i].next = 1
  <2>1. job'[i] = [job[i] EXCEPT !.state = "active"]
    BY <1>1, <1>2 DEF Typed
  <2>2. /\ job'[i] \in Job /\ job'[i].state = "active" /\ job'[i].attempts = job[i].attempts
        /\ job'[i].step = job[i].step /\ job'[i].next = job[i].next
    BY <1>1, <2>1 DEF Job
  <2>3. NoJob.state # job[i].state
    BY <1>1 DEF NoJob
  <2>4. QED
    BY <1>1, <2>2, <2>3 DEF WorkOK, AttemptOK
<1>4. Typed'
  BY <1>1, <1>2, <1>3 DEF Typed
<1>5. AttemptOK(i)' /\ BallotOK(i)' /\ LoggedAsVoted(i)'
  BY <1>1, <1>2, <1>3 DEF WorkOK, AttemptOK, BallotOK, LoggedAsVoted
<1>6. QED
  BY <1>1, <1>2, <1>4, <1>5, JobStep DEF Typed, WorkOK

LEMMA PrepareOK ==
  ASSUME WorkInv, NEW i \in Ids, Prepare(i)
  PROVE  WorkInv'
<1>1. Typed /\ WorkOK(i) /\ job[i] \in Job /\ job[i].state = "active"
      /\ job[i].step = "prepare" /\ Len(PanelTokens) = 3
  BY DEF WorkInv, Typed, Prepare, At
<1>2. PICK d \in [PANEL -> Rulings] :
        job' = [job EXCEPT ![i].step = "open", ![i].decisions = d]
  BY DEF Prepare
<1>3. UNCHANGED <<appeal, logs, enqueued>>
  BY DEF Prepare, vars, registryVars, judgesVars
<1>4. job' = [job EXCEPT ![i] = [job[i] EXCEPT !.step = "open", !.decisions = d]]
  BY <1>1, <1>2 DEF Typed
<1>5. /\ job'[i] \in Job /\ job'[i].state = "active" /\ job'[i].attempts = job[i].attempts
      /\ job'[i].step = "open" /\ job'[i].decisions = d /\ job'[i].next = job[i].next
      /\ job[i].attempts < ATTEMPTS /\ i \in enqueued /\ job[i].next = 1
  <2>1. job'[i] = [job[i] EXCEPT !.step = "open", !.decisions = d]
    BY <1>1, <1>4 DEF Typed
  <2>2. /\ job'[i] \in Job /\ job'[i].state = "active" /\ job'[i].attempts = job[i].attempts
        /\ job'[i].step = "open" /\ job'[i].decisions = d /\ job'[i].next = job[i].next
    BY <1>1, <2>1 DEF Job, Steps
  <2>3. NoJob.state # job[i].state
    BY <1>1 DEF NoJob
  <2>4. QED
    BY <1>1, <2>2, <2>3 DEF WorkOK, AttemptOK
<1>6. Typed'
  BY <1>1, <1>3, <1>4, <1>5 DEF Typed
<1>7. AttemptOK(i)' /\ BallotOK(i)' /\ LoggedAsVoted(i)'
  BY <1>1, <1>3, <1>5 DEF WorkOK, AttemptOK, BallotOK, LoggedAsVoted
<1>8. QED
  BY <1>1, <1>3, <1>4, <1>6, <1>7, JobStep DEF Typed, WorkOK

LEMMA ThrowOK ==
  ASSUME WorkInv, NEW i \in Ids, Throw(i) \/ Revert(i)
  PROVE  WorkInv'
<1>1. /\ job[i].state = "active" /\ job' = [job EXCEPT ![i] = Thrown(job[i])]
      /\ UNCHANGED <<appeal, logs, enqueued>>
  BY DEF Throw, Revert, vars, registryVars, judgesVars
<1>2. Typed'
  BY <1>1, ThrownTyped DEF WorkInv, Typed
<1>3. BallotOK(i) /\ LoggedAsVoted(i)'
  BY <1>1 DEF WorkInv, WorkOK, LoggedAsVoted
<1>4. QED
  BY <1>1, <1>2, <1>3, ThrownOK DEF BallotOK

(* A transaction of the attempt is mined: the attempt goes on to `after`,  *)
(* or it fails although the appeal has changed.                            *)
LEMMA MinedOK ==
  ASSUME WorkInv, NEW i \in Ids, NEW after \in Job, job[i].state = "active",
         MinedThen(i, after),
         DOMAIN appeal' = Ids,
         DOMAIN appeal'[i] = AppealFields,
         \A h \in Ids : h # i => appeal'[h] = appeal[h],
         appeal'[i].closed => appeal'[i].opened,
         logs[i] # <<>> => appeal'[i].closed,
         LoggedAsVoted(i)',
         job'[i] = after => AttemptOK(i)' /\ BallotOK(i)'
  PROVE  WorkInv'
<1>1. UNCHANGED <<logs, enqueued>> /\ Typed
  BY DEF MinedThen, WorkInv
<1>2. CASE job' = [job EXCEPT ![i] = after]
  <2>1. Typed' /\ job'[i] = after /\ \A h \in Ids : h # i => job'[h] = job[h]
    BY <1>1, <1>2 DEF Typed
  <2>2. QED
    BY <1>1, <2>1, JobStep DEF WorkOK
<1>3. CASE job' = [job EXCEPT ![i] = Thrown(job[i])]
  <2>1. Typed'
    BY <1>1, <1>3, ThrownTyped DEF Typed
  <2>2. QED
    BY <1>1, <1>3, <2>1, ThrownOK
<1>4. QED
  BY <1>2, <1>3 DEF MinedThen
-----------------------------------------------------------------------------
LEMMA OpenedFields ==
  ASSUME NEW a, DOMAIN a = AppealFields, NEW x, NEW y
  PROVE  LET r == [a EXCEPT !.opened = TRUE, !.judge = x, !.original = y] IN
         /\ DOMAIN r = AppealFields /\ r.opened /\ r.closed = a.closed
         /\ r.votes = a.votes /\ r.votesRecorded = a.votesRecorded
  BY DEF AppealFields

LEMMA OpeningOK ==
  ASSUME WorkInv, NEW i \in Ids, Open(i)
  PROVE  WorkInv'
<1> DEFINE j == [job[i] EXCEPT !.step = "vote"]
<1>1. /\ Typed /\ WorkOK(i) /\ job[i] \in Job /\ job[i].state = "active"
      /\ job[i].step = "open" /\ ~appeal[i].opened /\ MinedThen(i, j)
  BY DEF WorkInv, Typed, Open, At, OpenAppeal
<1>2. PICK r : /\ appeal' = [appeal EXCEPT ![i] = r]
               /\ DOMAIN r = AppealFields /\ r.opened /\ r.closed = FALSE
               /\ r.votes = <<>> /\ r.votesRecorded = 0
  <2>1. /\ DOMAIN NoAppeal = AppealFields /\ NoAppeal.closed = FALSE
        /\ NoAppeal.votes = <<>> /\ NoAppeal.votesRecorded = 0
    BY DEF NoAppeal, AppealFields
  <2> DEFINE r == [NoAppeal EXCEPT !.opened = TRUE, !.judge = judge[i],
                                         !.original = assertion[i].originalOutcome]
  <2>2. appeal' = [appeal EXCEPT ![i] = r]
    BY DEF Open, OpenAppeal
  <2>3. /\ DOMAIN r = AppealFields /\ r.opened /\ r.closed = FALSE
        /\ r.votes = <<>> /\ r.votesRecorded = 0
    BY <2>1, OpenedFields
  <2> HIDE DEF r
  <2>4. QED
    BY <2>2, <2>3
<1>3. /\ appeal'[i] = r /\ DOMAIN appeal' = Ids
      /\ \A h \in Ids : h # i => appeal'[h] = appeal[h]
  BY <1>1, <1>2 DEF Typed
<1>4. logs[i] = <<>> /\ UNCHANGED <<logs, enqueued>>
  BY <1>1 DEF WorkOK, BallotOK, MinedThen
<1>5. LoggedAsVoted(i)'
  BY <1>4 DEF LoggedAsVoted
<1>6. /\ j \in Job /\ j.state = "active" /\ j.attempts = job[i].attempts /\ j.step = "vote"
      /\ j.decisions = job[i].decisions /\ j.next = job[i].next
  BY <1>1 DEF Job, Steps
<1>7. /\ job[i].next = 1 /\ job[i].attempts < ATTEMPTS /\ i \in enqueued
      /\ job[i].decisions \in [PANEL -> Rulings] /\ Len(PanelTokens) = 3
  BY <1>1 DEF WorkOK, AttemptOK, NoJob
<1> HIDE DEF j
<1>8. ASSUME job'[i] = j PROVE AttemptOK(i)' /\ BallotOK(i)'
  <2>1. 1 \in PANEL /\ 1..(1 - 1) = {}
    BY <1>7 DEF PANEL
  <2>2. AttemptOK(i)'
    BY <1>4, <1>6, <1>7, <1>8, <2>1 DEF AttemptOK
  <2>3. BallotOK(i)'
    BY <1>2, <1>3, <1>4, <1>6, <1>7, <1>8, <2>1 DEF BallotOK
  <2>4. QED
    BY <2>2, <2>3
<1>9. QED
  BY <1>1, <1>2, <1>3, <1>4, <1>5, <1>6, <1>8, MinedOK

(* One more vote is counted, for a panellist that had none.                *)
LEMMA VotedFields ==
  ASSUME NEW a, DOMAIN a = AppealFields, NEW t, NEW o, t \notin DOMAIN a.votes
  PROVE  LET r == WithVote(a, t, o) IN
         /\ DOMAIN r = AppealFields /\ r.opened = a.opened /\ r.closed = a.closed
         /\ r.votesRecorded = a.votesRecorded + 1
         /\ DOMAIN r.votes = DOMAIN a.votes \cup {t} /\ r.votes[t] = o
         /\ \A u \in DOMAIN a.votes : r.votes[u] = a.votes[u]
<1> DEFINE votes == [x \in DOMAIN a.votes \cup {t} |-> IF x = t THEN o ELSE a.votes[x]]
           tally == [a.tally EXCEPT ![o] = a.tally[o] + 1]
<1>1. WithVote(a, t, o) =
        [a EXCEPT !.votes = votes, !.votesRecorded = a.votesRecorded + 1, !.tally = tally]
  BY DEF WithVote, AppealFields
<1>2. ASSUME NEW x, NEW y, NEW z
      PROVE  LET r == [a EXCEPT !.votes = x, !.votesRecorded = y, !.tally = z] IN
             /\ DOMAIN r = AppealFields /\ r.opened = a.opened /\ r.closed = a.closed
             /\ r.votes = x /\ r.votesRecorded = y
  BY DEF AppealFields
<1>3. /\ DOMAIN votes = DOMAIN a.votes \cup {t} /\ votes[t] = o
      /\ \A u \in DOMAIN a.votes : votes[u] = a.votes[u]
  OBVIOUS
<1> HIDE DEF votes, tally
<1>4. QED
  BY <1>1, <1>2, <1>3

LEMMA VoteOK ==
  ASSUME WorkInv, NEW i \in Ids, Vote(i)
  PROVE  WorkInv'
<1> DEFINE n == job[i].next
           t == PanelTokens[n]
           o == job[i].decisions[n]
           step == IF n = Len(PanelTokens) THEN "close" ELSE "vote"
           j == [job[i] EXCEPT !.next = n + 1, !.step = step]
           r == WithVote(appeal[i], t, o)
<1>1. /\ Typed /\ WorkOK(i) /\ job[i] \in Job /\ job[i].state = "active"
      /\ job[i].step = "vote" /\ MinedThen(i, j)
      /\ ~appeal[i].closed /\ t \notin DOMAIN appeal[i].votes
      /\ appeal' = [appeal EXCEPT ![i] = r]
  BY DEF WorkInv, Typed, Vote, At, RecordPanelVote, HasVoted
<1>2. /\ n \in PANEL /\ n \in Nat /\ job[i].attempts < ATTEMPTS /\ i \in enqueued
      /\ job[i].decisions \in [PANEL -> Rulings] /\ Len(PanelTokens) = 3
  <2>1. NoJob.state # job[i].state
    BY <1>1 DEF NoJob
  <2>2. QED
    BY <1>1, <2>1 DEF WorkOK, AttemptOK, Job
<1>3. /\ appeal[i].opened /\ logs[i] = <<>> /\ appeal[i].votesRecorded = n - 1
      /\ \A k \in 1..(n - 1) : Cast(i, k)
  BY <1>1 DEF WorkOK, BallotOK
<1>4. /\ DOMAIN r = AppealFields /\ r.opened = appeal[i].opened /\ r.closed = appeal[i].closed
      /\ r.votesRecorded = appeal[i].votesRecorded + 1
      /\ DOMAIN r.votes = DOMAIN appeal[i].votes \cup {t} /\ r.votes[t] = o
      /\ \A u \in DOMAIN appeal[i].votes : r.votes[u] = appeal[i].votes[u]
  <2>1. DOMAIN appeal[i] = AppealFields
    BY <1>1 DEF Typed
  <2> HIDE DEF t, o
  <2>2. QED
    BY <1>1, <2>1, VotedFields
<1>5. /\ j \in Job /\ j.state = "active" /\ j.attempts = job[i].attempts /\ j.step = step
      /\ j.decisions = job[i].decisions /\ j.next = n + 1
  <2>1. n + 1 \in Nat /\ step \in Steps
    BY <1>2 DEF Steps
  <2> HIDE DEF n, step
  <2>2. QED
    BY <1>1, <2>1 DEF Job
<1> HIDE DEF j, r
<1>6. /\ appeal'[i] = r /\ DOMAIN appeal' = Ids
      /\ \A h \in Ids : h # i => appeal'[h] = appeal[h]
  BY <1>1 DEF Typed
<1>7. UNCHANGED <<logs, enqueued>> /\ LoggedAsVoted(i)'
  BY <1>1, <1>3 DEF MinedThen, LoggedAsVoted
<1>8. ASSUME job'[i] = j PROVE AttemptOK(i)' /\ BallotOK(i)'
  <2>1. ASSUME NEW k \in 1..n PROVE Cast(i, k)'
    <3>1. CASE k = n
      BY <1>4, <1>5, <1>6, <1>8, <3>1 DEF Cast
    <3>2. CASE k # n
      <4>1. k \in 1..(n - 1)
        BY <1>2, <3>2
      <4>2. Cast(i, k)
        BY <1>3, <4>1
      <4>3. QED
        BY <1>4, <1>5, <1>6, <1>8, <4>2 DEF Cast
    <3>3. QED
      BY <3>1, <3>2
  <2>2. r.votesRecorded = n /\ (n + 1) - 1 = n
    BY <1>2, <1>3, <1>4
  <2>3. CASE n = Len(PanelTokens)
    <3>1. step = "close" /\ PANEL = 1..n
      BY <2>3 DEF PANEL
    <3>2. QED
      BY <1>2, <1>3, <1>4, <1>5, <1>6, <1>7, <1>8, <2>1, <3>1 DEF AttemptOK, BallotOK
  <2>4. CASE n # Len(PanelTokens)
    <3>1. step = "vote" /\ n + 1 \in PANEL
      BY <1>2, <2>4 DEF PANEL
    <3>2. AttemptOK(i)'
      BY <1>2, <1>5, <1>7, <1>8, <3>1 DEF AttemptOK
    <3>3. BallotOK(i)'
      BY <1>2, <1>3, <1>4, <1>5, <1>6, <1>7, <1>8, <2>1, <2>2, <3>1 DEF BallotOK
    <3>4. QED
      BY <3>2, <3>3
  <2>5. QED
    BY <2>3, <2>4
<1>9. QED
  BY <1>1, <1>3, <1>4, <1>5, <1>6, <1>7, <1>8, MinedOK
-----------------------------------------------------------------------------
LEMMA CloseOK ==
  ASSUME WorkInv, NEW i \in Ids, Close(i)
  PROVE  WorkInv'
<1> DEFINE j == [job[i] EXCEPT !.step = "log", !.next = 1]
<1>1. /\ Typed /\ WorkOK(i) /\ job[i] \in Job /\ job[i].state = "active"
      /\ job[i].step = "close" /\ MinedThen(i, j) /\ appeal[i].opened
      /\ appeal' = [appeal EXCEPT ![i].closed = TRUE]
  BY DEF WorkInv, Typed, Close, At, CloseAppeal, CanClose
<1>2. /\ job[i].attempts < ATTEMPTS /\ i \in enqueued
      /\ job[i].decisions \in [PANEL -> Rulings] /\ Len(PanelTokens) = 3
  <2>1. NoJob.state # job[i].state
    BY <1>1 DEF NoJob
  <2>2. QED
    BY <1>1, <2>1 DEF WorkOK, AttemptOK
<1>3. logs[i] = <<>> /\ \A k \in PANEL : Cast(i, k)
  BY <1>1 DEF WorkOK, BallotOK
<1>4. /\ j \in Job /\ j.state = "active" /\ j.attempts = job[i].attempts /\ j.step = "log"
      /\ j.decisions = job[i].decisions /\ j.next = 1
  BY <1>1 DEF Job, Steps
<1> HIDE DEF j
<1>5. /\ DOMAIN appeal'[i] = AppealFields /\ appeal'[i].closed /\ appeal'[i].opened
      /\ appeal'[i].votes = appeal[i].votes /\ DOMAIN appeal' = Ids
      /\ \A h \in Ids : h # i => appeal'[h] = appeal[h]
  BY <1>1 DEF Typed, AppealFields
<1>6. UNCHANGED <<logs, enqueued>> /\ LoggedAsVoted(i)'
  BY <1>1, <1>3 DEF MinedThen, LoggedAsVoted
<1>7. ASSUME job'[i] = j PROVE AttemptOK(i)' /\ BallotOK(i)'
  <2>1. \A k \in PANEL : Cast(i, k)'
    BY <1>3, <1>4, <1>5, <1>7 DEF Cast
  <2>2. 1 \in PANEL /\ Len(logs'[i]) = 1 - 1
    BY <1>2, <1>3, <1>6 DEF PANEL
  <2>3. AttemptOK(i)'
    BY <1>2, <1>4, <1>6, <1>7, <2>2 DEF AttemptOK
  <2>4. BallotOK(i)'
    BY <1>4, <1>5, <1>7, <2>1, <2>2 DEF BallotOK
  <2>5. QED
    BY <2>3, <2>4
<1>8. QED
  BY <1>1, <1>4, <1>5, <1>6, <1>7, MinedOK

LEMMA InsertLogOK ==
  ASSUME WorkInv, NEW i \in Ids, InsertLog(i)
  PROVE  WorkInv'
<1> DEFINE n == job[i].next
           o == job[i].decisions[n]
           step == IF n = Len(PanelTokens) THEN "done" ELSE "log"
           j == [job[i] EXCEPT !.next = n + 1, !.step = step]
<1>1. /\ Typed /\ WorkOK(i) /\ job[i] \in Job /\ job[i].state = "active"
      /\ job[i].step = "log" /\ UNCHANGED <<appeal, enqueued>>
      /\ logs' = [logs EXCEPT ![i] = Append(logs[i], o)]
  BY DEF WorkInv, Typed, InsertLog, At, vars, registryVars, judgesVars
<1>2. job' = [job EXCEPT ![i] = j]
  BY <1>1 DEF InsertLog, Typed
<1>3. /\ n \in PANEL /\ n \in Nat /\ job[i].attempts < ATTEMPTS /\ i \in enqueued
      /\ job[i].decisions \in [PANEL -> Rulings] /\ Len(PanelTokens) = 3
  <2>1. NoJob.state # job[i].state
    BY <1>1 DEF NoJob
  <2>2. QED
    BY <1>1, <2>1 DEF WorkOK, AttemptOK, Job
<1>4. /\ appeal[i].closed /\ appeal[i].opened /\ Len(logs[i]) = n - 1
      /\ \A k \in PANEL : Cast(i, k)
  BY <1>1 DEF WorkOK, BallotOK
<1>5. /\ j \in Job /\ j.state = "active" /\ j.attempts = job[i].attempts /\ j.step = step
      /\ j.decisions = job[i].decisions /\ j.next = n + 1
  <2>1. n + 1 \in Nat /\ step \in Steps
    BY <1>3 DEF Steps
  <2> HIDE DEF n, step
  <2>2. QED
    BY <1>1, <2>1 DEF Job
<1> HIDE DEF j
<1>6. job'[i] = j /\ \A h \in Ids : h # i => job'[h] = job[h] /\ logs'[h] = logs[h]
  BY <1>1, <1>2 DEF Typed
<1>7. logs[i] \in Seq(Rulings) /\ o \in Rulings /\ logs'[i] = Append(logs[i], o)
  BY <1>1, <1>3 DEF Typed
<1>8. /\ logs'[i] \in Seq(Rulings) /\ Len(logs'[i]) = n /\ logs'[i][n] = o
      /\ DOMAIN logs'[i] = 1..n
      /\ \A k \in 1..(n - 1) : k \in DOMAIN logs[i] /\ logs'[i][k] = logs[i][k]
  BY <1>3, <1>4, <1>7
<1>9. Typed'
  BY <1>1, <1>2, <1>5, <1>8 DEF Typed
<1>10. LoggedAsVoted(i)'
  <2> SUFFICES ASSUME NEW k \in 1..n
               PROVE  /\ k \in PANEL /\ PanelTokens[k] \in DOMAIN appeal[i].votes
                      /\ logs'[i][k] = appeal[i].votes[PanelTokens[k]]
    BY <1>1, <1>8 DEF LoggedAsVoted
  <2>1. CASE k = n
    BY <1>3, <1>4, <1>8, <2>1 DEF Cast
  <2>2. CASE k # n
    <3>1. k \in 1..(n - 1)
      BY <1>3, <2>2
    <3>2. QED
      BY <1>1, <1>8, <3>1 DEF WorkOK, LoggedAsVoted
  <2>3. QED
    BY <2>1, <2>2
<1>11. AttemptOK(i)' /\ BallotOK(i)'
  <2>1. \A k \in PANEL : Cast(i, k)'
    BY <1>1, <1>4, <1>5, <1>6 DEF Cast
  <2>2. (n + 1) - 1 = n
    BY <1>3
  <2>3. CASE n = Len(PanelTokens)
    <3>1. step = "done"
      BY <2>3
    <3>2. QED
      BY <1>1, <1>3, <1>4, <1>5, <1>6, <3>1 DEF AttemptOK, BallotOK
  <2>4. CASE n # Len(PanelTokens)
    <3>1. step = "log" /\ n + 1 \in PANEL
      BY <1>3, <2>4 DEF PANEL
    <3>2. AttemptOK(i)'
      BY <1>1, <1>3, <1>5, <1>6, <3>1 DEF AttemptOK
    <3>3. BallotOK(i)'
      BY <1>1, <1>4, <1>5, <1>6, <1>8, <2>1, <2>2, <3>1 DEF BallotOK
    <3>4. QED
      BY <3>2, <3>3
  <2>5. QED
    BY <2>3, <2>4
<1>12. QED
  BY <1>1, <1>6, <1>9, <1>10, <1>11, JobStep DEF WorkOK

LEMMA AnnounceOK ==
  ASSUME WorkInv, NEW i \in Ids, Announce(i)
  PROVE  WorkInv'
<1> DEFINE j == [NoJob EXCEPT !.state = "completed"]
<1>1. /\ Typed /\ WorkOK(i) /\ job[i].state = "active" /\ UNCHANGED <<appeal, logs, enqueued>>
      /\ job' = [job EXCEPT ![i] = j]
  BY DEF WorkInv, Announce, At, vars, registryVars, judgesVars
<1>2. j \in Job /\ j.state = "completed" /\ j.step = "prepare" /\ j.next = 1
  <2>1. NoJob.step = "prepare" /\ NoJob.next = 1
    BY DEF NoJob
  <2>2. QED
    BY <2>1, FreshJob DEF Job
<1> HIDE DEF j
<1>3. Typed' /\ job'[i] = j /\ \A h \in Ids : h # i => job'[h] = job[h]
  BY <1>1, <1>2 DEF Typed
<1>4. i \in enqueued
  BY <1>1 DEF WorkOK, AttemptOK, NoJob
<1>5. AttemptOK(i)' /\ BallotOK(i)' /\ LoggedAsVoted(i)'
  BY <1>1, <1>2, <1>3, <1>4 DEF WorkOK, AttemptOK, BallotOK, LoggedAsVoted
<1>6. QED
  BY <1>1, <1>3, <1>5, JobStep DEF WorkOK
-----------------------------------------------------------------------------
LEMMA WorkStep == WorkInv /\ [WorkerNext]_workerVars => WorkInv'
  BY AsideOK, EnqueueOK, StartOK, PrepareOK, ThrowOK, OpeningOK, VoteOK, CloseOK,
     InsertLogOK, AnnounceOK
     DEF WorkerNext, Work

LEMMA WorkInvariant == WorkerSpec => []WorkInv
<1>1. WorkerInit => WorkInv
  BY WorkStart
<1>2. WorkInv /\ [WorkerNext]_workerVars => WorkInv'
  BY WorkStep
<1>3. QED
  BY <1>1, <1>2, PTL DEF WorkerSpec

(* The votes an appeal has counted while an attempt votes are those of     *)
(* this attempt: none of an earlier one that failed half way is mixed in.  *)
THEOREM OneAttemptVotes == WorkerSpec => [](\A i \in Ids : VotesOfOneAttempt(i))
<1>1. WorkInv => \A i \in Ids : VotesOfOneAttempt(i)
  BY DEF WorkInv, WorkOK, BallotOK, Cast, At, VotesOfOneAttempt
<1>2. QED
  BY <1>1, WorkInvariant, PTL

(* The logs of a panel are the votes the chain counted, in order, through  *)
(* throws at any point and any number of attempts.                         *)
THEOREM LogsAreVotes == WorkerSpec => [](\A i \in Ids : LoggedAsVoted(i))
<1>1. WorkInv => \A i \in Ids : LoggedAsVoted(i)
  BY DEF WorkInv, WorkOK
<1>2. QED
  BY <1>1, WorkInvariant, PTL

(* A log is written for a closed appeal only: the reasoning of a panel     *)
(* that did not get to a ruling stays unpublished.                         *)
THEOREM LogsAfterRuling == WorkerSpec => [](\A i \in Ids : logs[i] # <<>> => appeal[i].closed)
<1>1. WorkInv => \A i \in Ids : logs[i] # <<>> => appeal[i].closed
  BY DEF WorkInv, WorkOK, BallotOK
<1>2. QED
  BY <1>1, WorkInvariant, PTL

(* However it fails, a job makes no more attempts than the queue allows.   *)
THEOREM AttemptsBounded == WorkerSpec => [](\A i \in Ids : job[i].attempts <= ATTEMPTS)
<1>1. WorkInv => \A i \in Ids : job[i].attempts <= ATTEMPTS
  BY Attempts DEF WorkInv, Typed, Job
<1>2. QED
  BY <1>1, WorkInvariant, PTL
-----------------------------------------------------------------------------
(* What the worker does to the chain is what the protocol allows.          *)
LEMMA ChainStep ==
  ASSUME RegistryStep \/ UNCHANGED vars
         \/ \E i \in Ids :
              \/ \E o \in Calls, t \in JudgeTokens : SubmitVerdict(i, o, t)
              \/ OpenAppeal(i)
              \/ \E t \in Tokens, o \in Calls : RecordPanelVote(i, t, o)
              \/ CloseAppeal(i)
  PROVE  [Next]_vars
  BY DEF Next
-----------------------------------------------------------------------------
(* How many of the first n of f are o.                                     *)
CountOf(f, n, o) == Cardinality({k \in 1..n : f[k] = o})

(* The appeal counted, for every ruling, those of the first n of f.        *)
Tallied(i, f, n) ==
  \A o \in Rulings : appeal[i].tally[o] = CountOf(f, n, o)

(* The chain has counted what the attempt decided, as far as it voted.     *)
CountedSoFar(i) ==
  LET j == job[i] IN
  /\ j.step # "prepare" => \A n \in PANEL : j.decisions[n] \in Calls
  /\ j.step = "vote" => Tallied(i, j.decisions, j.next - 1)
  /\ j.step \in {"close", "log", "done"} => Tallied(i, j.decisions, Len(PanelTokens))
  /\ j.step = "done" => appeal[i].closed

(* What is public is of the appeal that ruled, whatever the page read and  *)
(* when.                                                                   *)
PublicOK(i) ==
  /\ logs[i] # <<>> =>
       /\ Len(PanelTokens) = 3
       /\ Tallied(i, [n \in PANEL |-> appeal[i].votes[PanelTokens[n]]], 3)
  /\ announced[i] # "PENDING" => appeal[i].closed /\ announced[i] = Plurality(i)
  /\ screen[i].status = "RESOLVED" =>
       /\ assertion[i].status = "RESOLVED"
       /\ screen[i].outcome = assertion[i].outcome
       /\ screen[i].originalOutcome = assertion[i].originalOutcome
  /\ screen[i].votes \in 0..Len(logs[i])

PageTypes ==
  /\ enqueued \subseteq Ids
  /\ announced \in [Ids -> Rulings \cup {"PENDING"}]
  /\ screen \in [Ids -> Screen]
  /\ cutShort \subseteq Ids

(* The inductive invariant of chain, worker and page.                      *)
ToldInv ==
  /\ IInv
  /\ WorkInv
  /\ PageTypes
  /\ \A i \in Ids : CountedSoFar(i) /\ PublicOK(i)
-----------------------------------------------------------------------------
LEMMA CountSteps ==
  ASSUME NEW f, NEW n \in Nat \ {0}, NEW o
  PROVE  CountOf(f, n, o) = CountOf(f, n - 1, o) + IF f[n] = o THEN 1 ELSE 0
<1> DEFINE S == {k \in 1..(n - 1) : f[k] = o}
           T == {k \in 1..n : f[k] = o}
<1>1. n \notin S /\ IsFiniteSet(S) /\ Cardinality(S) \in Nat
  <2>1. S \subseteq 1..(n - 1) /\ n \notin S
    OBVIOUS
  <2>2. IsFiniteSet(1..(n - 1))
    BY FS_Interval
  <2> HIDE DEF S
  <2>3. QED
    BY <2>1, <2>2, FS_Subset, FS_CardinalityType
<1>2. T = IF f[n] = o THEN S \cup {n} ELSE S
  OBVIOUS
<1> HIDE DEF S, T
<1>3. Cardinality(T) = Cardinality(S) + IF f[n] = o THEN 1 ELSE 0
  <2>1. CASE f[n] = o
    <3>1. T = S \cup {n}
      BY <1>2, <2>1
    <3>2. Cardinality(S \cup {n}) = Cardinality(S) + 1
      BY <1>1, FS_AddElement
    <3>3. QED
      BY <2>1, <3>1, <3>2
  <2>2. CASE f[n] # o
    BY <1>1, <1>2, <2>2
  <2>3. QED
    BY <2>1, <2>2
<1>4. QED
  BY <1>3 DEF S, T, CountOf

(* Worker and chain count alike.                                           *)
LEMMA PluralityAgrees ==
  ASSUME NEW i \in Ids, NEW d, DOMAIN d = 1..3, Tallied(i, d, 3),
         \A o \in Rulings : appeal[i].tally[o] \in Nat
  PROVE  PluralityOf(d) = Plurality(i)
<1> DEFINE t(o) == appeal[i].tally[o]
           count(o) == Quantify(DOMAIN d, LAMBDA n : d[n] = o)
           ahead(o) == \A x \in Rulings \ {o} : count(o) > count(x)
<1>1. \A o \in Rulings : count(o) = t(o) /\ t(o) \in Nat
  BY DEF Tallied, CountOf, Quantify
<1>2. PluralityOf(d) = IF ahead("TRUE") THEN "TRUE"
                     ELSE IF ahead("FALSE") THEN "FALSE" ELSE "INVALID"
  BY DEF PluralityOf
<1> HIDE DEF count, t
<1>3. /\ ahead("TRUE") <=> t("TRUE") > t("FALSE") /\ t("TRUE") > t("INVALID")
      /\ ahead("FALSE") <=> t("FALSE") > t("TRUE") /\ t("FALSE") > t("INVALID")
  BY <1>1 DEF Rulings
<1> HIDE DEF ahead
<1>4. QED
  BY <1>2, <1>3 DEF Plurality, t

LEMMA TallyNat ==
  ASSUME TypeOK, NEW i \in Ids
  PROVE  \A o \in Rulings : appeal[i].tally[o] \in Nat
<1>1. appeal[i].tally \in [Rulings -> 0..PANEL_SIZE]
  BY DEF TypeOK, Appeal
<1>2. QED
  BY <1>1 DEF Rulings, Rulings, PANEL_SIZE

(* What a step leaves of an assertion it does not touch.                   *)
LEMMA FrameTold ==
  ASSUME NEW i \in Ids, CountedSoFar(i), PublicOK(i),
         appeal'[i] = appeal[i], job'[i] = job[i], logs'[i] = logs[i],
         announced'[i] = announced[i], screen'[i] = screen[i],
         assertion[i].status = "RESOLVED" => assertion'[i] = assertion[i]
  PROVE  CountedSoFar(i)' /\ PublicOK(i)'
<1>1. Plurality(i)' = Plurality(i)
  BY DEF Plurality
<1>2. CountedSoFar(i)'
  BY DEF CountedSoFar, Tallied
<1>3. PublicOK(i)'
  BY <1>1 DEF PublicOK, Tallied
<1>4. QED
  BY <1>2, <1>3

(* The page's part does not depend on the job.                             *)
LEMMA FramePublic ==
  ASSUME NEW i \in Ids, PublicOK(i),
         appeal'[i] = appeal[i], logs'[i] = logs[i],
         announced'[i] = announced[i], screen'[i] = screen[i],
         assertion[i].status = "RESOLVED" => assertion'[i] = assertion[i]
  PROVE  PublicOK(i)'
<1>1. Plurality(i)' = Plurality(i)
  BY DEF Plurality
<1>2. QED
  BY <1>1 DEF PublicOK, Tallied

(* A step of assertion i that keeps the rest.                              *)
LEMMA ToldStep ==
  ASSUME ToldInv, NEW i \in Ids, [WorkerNext]_workerVars, [Next]_vars, PageTypes',
         \A h \in Ids : h # i =>
           /\ appeal'[h] = appeal[h] /\ job'[h] = job[h] /\ logs'[h] = logs[h]
           /\ announced'[h] = announced[h] /\ screen'[h] = screen[h],
         CountedSoFar(i)', PublicOK(i)'
  PROVE  ToldInv'
<1>1. IInv'
  BY NextInv DEF ToldInv
<1>2. WorkInv'
  BY WorkStep DEF ToldInv
<1>3. ASSUME NEW h \in Ids PROVE CountedSoFar(h)' /\ PublicOK(h)'
  <2>1. assertion[h].status = "RESOLVED" => assertion'[h] = assertion[h]
    BY ResolvedKept DEF ToldInv
  <2>2. CASE h = i
    BY <2>2
  <2>3. CASE h # i
    BY <2>1, <2>3, FrameTold DEF ToldInv
  <2>4. QED
    BY <2>2, <2>3
<1>4. QED
  BY <1>1, <1>2, <1>3 DEF ToldInv

(* The transaction of an attempt is mined before anything is public.       *)
LEMMA ToldMined ==
  ASSUME ToldInv, NEW i \in Ids, [WorkerNext]_workerVars, [Next]_vars,
         NEW after, MinedThen(i, after),
         \A h \in Ids : h # i => appeal'[h] = appeal[h],
         logs[i] = <<>>, ~appeal[i].closed,
         job'[i] = after => CountedSoFar(i)'
  PROVE  ToldInv'
<1>1. /\ UNCHANGED <<enqueued, logs, announced, screen>>
      /\ cutShort' \subseteq cutShort \cup {i}
  BY DEF MinedThen
<1>2. PageTypes'
  BY <1>1 DEF ToldInv, PageTypes
<1>3. DOMAIN job = Ids
  BY DEF ToldInv, WorkInv, Typed
<1>4. PublicOK(i)'
  <2>1. assertion[i].status = "RESOLVED" => assertion'[i] = assertion[i]
    BY ResolvedKept DEF ToldInv
  <2>2. QED
    BY <1>1, <2>1 DEF ToldInv, PublicOK
<1>5. CountedSoFar(i)' /\ \A h \in Ids : h # i => job'[h] = job[h]
  <2>1. CASE job' = [job EXCEPT ![i] = after]
    BY <1>3, <2>1
  <2>2. CASE job' = [job EXCEPT ![i] = Thrown(job[i])]
    BY <1>3, <2>2, ThrownIs DEF CountedSoFar
  <2>3. QED
    BY <2>1, <2>2 DEF MinedThen
<1>6. QED
  BY <1>1, <1>2, <1>4, <1>5, ToldStep

(* The job of i moves and nothing else does.                               *)
LEMMA ToldJob ==
  ASSUME ToldInv, NEW i \in Ids, [WorkerNext]_workerVars, NEW j, job' = [job EXCEPT ![i] = j],
         UNCHANGED <<vars, logs, announced, screen>>,
         enqueued' \subseteq Ids, cutShort' \subseteq Ids,
         job'[i] = j => CountedSoFar(i)'
  PROVE  ToldInv'
<1>1. [Next]_vars
  BY ChainStep
<1>2. UNCHANGED <<assertion, appeal>>
  BY DEF vars, registryVars, judgesVars
<1>3. PageTypes'
  BY DEF ToldInv, PageTypes
<1>4. job'[i] = j /\ \A h \in Ids : h # i => job'[h] = job[h]
  BY DEF ToldInv, WorkInv, Typed
<1>5. PublicOK(i)'
  BY <1>2, FramePublic DEF ToldInv
<1>6. QED
  BY <1>1, <1>2, <1>3, <1>4, <1>5, ToldStep

LEMMA ToldAside ==
  ASSUME ToldInv, Elsewhere \/ UNCHANGED workerVars
  PROVE  ToldInv'
<1>1. [WorkerNext]_workerVars /\ UNCHANGED jobVars
  BY DEF WorkerNext, Elsewhere, workerVars
<1>2. [Next]_vars
  BY ChainStep DEF Elsewhere, workerVars
<1>3. UNCHANGED <<appeal, job, logs, announced, screen>> /\ PageTypes'
  BY <1>1
     DEF Elsewhere, RegistryStep, SubmitVerdict, jobVars, workerVars,
         vars, registryVars, judgesVars, ToldInv, PageTypes
<1>4. ASSUME NEW i \in Ids PROVE CountedSoFar(i)' /\ PublicOK(i)'
  <2>1. assertion[i].status = "RESOLVED" => assertion'[i] = assertion[i]
    BY <1>2, ResolvedKept DEF ToldInv
  <2>2. QED
    BY <1>3, <2>1, FrameTold DEF ToldInv
<1>5. IInv' /\ WorkInv'
  BY <1>1, <1>2, NextInv, WorkStep DEF ToldInv
<1>6. QED
  BY <1>3, <1>4, <1>5 DEF ToldInv

(* Before an attempt has decided nothing is counted.                       *)
LEMMA ToldBefore ==
  ASSUME ToldInv, NEW i \in Ids, Enqueue(i) \/ Start(i) \/ Throw(i) \/ Revert(i)
  PROVE  ToldInv'
<1>1. [WorkerNext]_workerVars
  BY DEF WorkerNext, Work
<1>2. /\ UNCHANGED <<vars, logs, announced, screen>>
      /\ enqueued' \subseteq Ids /\ cutShort' \subseteq Ids
  BY DEF ToldInv, PageTypes, Enqueue, Start, Throw, Revert
<1>3. /\ Typed /\ job[i] \in Job
      /\ job[i].state # "active" => job[i].step = "prepare"
      /\ i \notin enqueued => job[i] = NoJob
  BY DEF ToldInv, WorkInv, Typed, WorkOK, AttemptOK
<1>4. CASE Enqueue(i) \/ Start(i)
  <2>1. job[i].step = "prepare"
    BY <1>3, <1>4 DEF Enqueue, Start, NoJob
  <2>2. PICK s : job' = [job EXCEPT ![i].state = s]
    BY <1>4 DEF Enqueue, Start
  <2> DEFINE j == [job[i] EXCEPT !.state = s]
  <2>3. job' = [job EXCEPT ![i] = j]
    BY <1>3, <2>2 DEF Typed
  <2>4. j.step = "prepare"
    BY <1>3, <2>1 DEF Job
  <2> HIDE DEF j
  <2>5. job'[i] = j => CountedSoFar(i)'
    BY <2>4 DEF CountedSoFar
  <2>6. QED
    BY <1>1, <1>2, <2>3, <2>5, ToldJob
<1>5. CASE Throw(i) \/ Revert(i)
  <2>1. job' = [job EXCEPT ![i] = Thrown(job[i])]
    BY <1>5 DEF Throw, Revert
  <2>2. job'[i] = Thrown(job[i]) => CountedSoFar(i)'
    BY ThrownIs DEF CountedSoFar
  <2>3. QED
    BY <1>1, <1>2, <2>1, <2>2, ToldJob
<1>6. QED
  BY <1>4, <1>5

LEMMA ToldPrepare ==
  ASSUME ToldInv, NEW i \in Ids, Prepare(i)
  PROVE  ToldInv'
<1>1. [WorkerNext]_workerVars
  BY DEF WorkerNext, Work
<1>2. /\ UNCHANGED <<vars, logs, announced, screen>>
      /\ enqueued' \subseteq Ids /\ cutShort' \subseteq Ids
      /\ Typed /\ job[i] \in Job
  BY DEF ToldInv, PageTypes, Prepare, WorkInv, Typed
<1>3. PICK d \in [PANEL -> Calls \cap Rulings] :
        job' = [job EXCEPT ![i].step = "open", ![i].decisions = d]
  BY DEF Prepare
<1> DEFINE j == [job[i] EXCEPT !.step = "open", !.decisions = d]
<1>4. job' = [job EXCEPT ![i] = j]
  BY <1>2, <1>3 DEF Typed
<1>5. j.step = "open" /\ j.decisions = d
  BY <1>2 DEF Job
<1> HIDE DEF j
<1>6. job'[i] = j => CountedSoFar(i)'
  BY <1>5 DEF CountedSoFar
<1>7. QED
  BY <1>1, <1>2, <1>4, <1>6, ToldJob

(* A new appeal has no votes, and no earlier attempt has left any.         *)
LEMMA ToldOpen ==
  ASSUME ToldInv, NEW i \in Ids, Open(i)
  PROVE  ToldInv'
<1> DEFINE j == [job[i] EXCEPT !.step = "vote"]
<1>1. [WorkerNext]_workerVars /\ [Next]_vars
  BY ChainStep DEF WorkerNext, Work, Open
<1>2. /\ Typed /\ WorkOK(i) /\ job[i] \in Job /\ job[i].step = "open"
      /\ ~appeal[i].opened /\ MinedThen(i, j)
  BY DEF ToldInv, WorkInv, Typed, Open, At, OpenAppeal
<1>3. ~appeal[i].closed /\ logs[i] = <<>> /\ job[i].next = 1
  BY <1>2 DEF WorkOK, BallotOK, AttemptOK
<1>4. /\ \A h \in Ids : h # i => appeal'[h] = appeal[h]
      /\ \A o \in Rulings : appeal'[i].tally[o] = 0
  <2>1. appeal' = [appeal EXCEPT ![i] =
          [NoAppeal EXCEPT !.opened = TRUE, !.judge = judge[i],
                                 !.original = assertion[i].originalOutcome]]
    BY DEF Open, OpenAppeal
  <2>2. QED
    BY <1>2, <2>1 DEF Typed, NoAppeal, Rulings, Rulings
<1>5. /\ j.step = "vote" /\ j.decisions = job[i].decisions /\ j.next = 1
      /\ \A n \in PANEL : j.decisions[n] \in Calls
  BY <1>2, <1>3 DEF Job, ToldInv, CountedSoFar
<1> HIDE DEF j
<1>6. ASSUME job'[i] = j PROVE CountedSoFar(i)'
  <2>1. ASSUME NEW o \in Rulings
        PROVE  CountOf(j.decisions, j.next - 1, o) = 0
    <3>1. {k \in 1..(j.next - 1) : j.decisions[k] = o} = {}
      BY <1>5
    <3>2. QED
      BY <3>1, FS_EmptySet DEF CountOf
  <2>2. QED
    BY <1>4, <1>5, <1>6, <2>1 DEF CountedSoFar, Tallied
<1>7. QED
  BY <1>1, <1>2, <1>3, <1>4, <1>6, ToldMined

(* One more vote adds one to its ruling.                                   *)
LEMMA VotedTally ==
  ASSUME NEW a, DOMAIN a = AppealFields, a.tally \in [Rulings -> Nat],
         NEW t, NEW o \in Rulings, NEW x \in Rulings
  PROVE  WithVote(a, t, o).tally[x] = a.tally[x] + IF o = x THEN 1 ELSE 0
<1> DEFINE votes == [y \in DOMAIN a.votes \cup {t} |-> IF y = t THEN o ELSE a.votes[y]]
           tally == [a.tally EXCEPT ![o] = a.tally[o] + 1]
<1>1. WithVote(a, t, o) =
        [a EXCEPT !.votes = votes, !.votesRecorded = a.votesRecorded + 1, !.tally = tally]
  BY DEF WithVote, AppealFields
<1>2. ASSUME NEW v, NEW y, NEW z
      PROVE  [a EXCEPT !.votes = v, !.votesRecorded = y, !.tally = z].tally = z
  BY DEF AppealFields
<1>3. tally[x] = a.tally[x] + IF o = x THEN 1 ELSE 0
  OBVIOUS
<1> HIDE DEF votes, tally
<1>4. QED
  BY <1>1, <1>2, <1>3

LEMMA ToldVote ==
  ASSUME ToldInv, NEW i \in Ids, Vote(i)
  PROVE  ToldInv'
<1> DEFINE n == job[i].next
           t == PanelTokens[n]
           d == job[i].decisions
           o == d[n]
           step == IF n = Len(PanelTokens) THEN "close" ELSE "vote"
           j == [job[i] EXCEPT !.next = n + 1, !.step = step]
<1>1. /\ Typed /\ WorkOK(i) /\ job[i] \in Job /\ job[i].step = "vote"
      /\ MinedThen(i, j) /\ RecordPanelVote(i, t, o) /\ CountedSoFar(i)
  BY DEF ToldInv, WorkInv, Typed, Vote, At
<1>2. /\ n \in PANEL /\ Len(PanelTokens) = 3 /\ logs[i] = <<>> /\ d \in [PANEL -> Rulings]
  BY <1>1 DEF WorkOK, AttemptOK, BallotOK
<1>3. /\ Tallied(i, d, n - 1) /\ \A m \in PANEL : d[m] \in Calls
  BY <1>1 DEF CountedSoFar
<1>4. [WorkerNext]_workerVars
  BY DEF WorkerNext, Work
<1>5. j.step = step /\ j.decisions = d /\ j.next = n + 1
  BY <1>1 DEF Job
<1> HIDE DEF j, n, t, d, step
<1>6. n \in Nat \ {0} /\ o \in Rulings /\ o \in Calls /\ t \in Nat
  <2>1. t \in Nat
    BY <1>2, PanelistsAre DEF t
  <2>2. o \in Rulings /\ o \in Calls
    BY <1>2, <1>3
  <2>3. n \in Nat \ {0}
    BY <1>2 DEF PANEL
  <2>4. QED
    BY <2>1, <2>2, <2>3
<1> HIDE DEF o
<1>7. /\ appeal' = [appeal EXCEPT ![i] = WithVote(appeal[i], t, o)]
      /\ ~appeal[i].closed /\ Judges!Exists(t)
  BY <1>1 DEF RecordPanelVote
<1>8. [Next]_vars
  <2>1. nextTokenId \in 1..(MaxTokens + 1) /\ MaxTokens \in Nat
    BY EscalationAssumption
       DEF ToldInv, IInv, TypeOK
  <2>2. t \in Tokens
    BY <1>6, <1>7, <2>1 DEF Judges!Exists, Tokens, Judges!Tokens
  <2>3. QED
    BY <1>1, <1>6, <2>2, ChainStep
<1>9. appeal[i].tally \in [Rulings -> Nat] /\ DOMAIN appeal[i] = AppealFields
  <2>1. appeal[i].tally \in [Rulings -> 0..PANEL_SIZE]
    BY DEF ToldInv, IInv, TypeOK, Appeal
  <2>2. 0..PANEL_SIZE \subseteq Nat /\ Rulings = Rulings
    BY DEF PANEL_SIZE, Rulings, Rulings
  <2>3. QED
    BY <1>1, <2>1, <2>2 DEF Typed
<1>10. /\ \A h \in Ids : h # i => appeal'[h] = appeal[h]
       /\ appeal'[i] = WithVote(appeal[i], t, o)
  BY <1>1, <1>7 DEF Typed
<1>11. ASSUME NEW x \in Rulings
       PROVE  appeal'[i].tally[x] = CountOf(d, n, x)
  <2>1. appeal[i].tally[x] = CountOf(d, n - 1, x)
    BY <1>3 DEF Tallied
  <2>2. appeal'[i].tally[x] = appeal[i].tally[x] + IF o = x THEN 1 ELSE 0
    BY <1>6, <1>9, <1>10, VotedTally
  <2>3. CountOf(d, n, x) = CountOf(d, n - 1, x) + IF d[n] = x THEN 1 ELSE 0
    BY <1>6, CountSteps
  <2>4. QED
    BY <2>1, <2>2, <2>3 DEF o
<1>12. ASSUME job'[i] = j PROVE CountedSoFar(i)'
  <2>1. /\ job'[i].decisions = d /\ job'[i].next - 1 = n
        /\ job'[i].step \in {"vote", "close"}
        /\ job'[i].step = "close" => n = Len(PanelTokens)
    BY <1>5, <1>6, <1>12 DEF step
  <2>2. QED
    BY <1>3, <1>11, <2>1 DEF CountedSoFar, Tallied
<1>13. QED
  BY <1>1, <1>2, <1>4, <1>7, <1>8, <1>10, <1>12, ToldMined

LEMMA ToldClose ==
  ASSUME ToldInv, NEW i \in Ids, Close(i)
  PROVE  ToldInv'
<1> DEFINE j == [job[i] EXCEPT !.step = "log", !.next = 1]
<1>1. [WorkerNext]_workerVars /\ [Next]_vars
  <2>1. CloseAppeal(i)
    BY DEF Close
  <2>2. QED
    BY <2>1, ChainStep DEF WorkerNext, Work
<1>2. /\ Typed /\ WorkOK(i) /\ job[i] \in Job /\ job[i].step = "close" /\ MinedThen(i, j)
      /\ ~appeal[i].closed /\ appeal' = [appeal EXCEPT ![i].closed = TRUE]
  BY DEF ToldInv, WorkInv, Typed, Close, At, CloseAppeal, CanClose
<1>3. /\ logs[i] = <<>> /\ Tallied(i, job[i].decisions, Len(PanelTokens))
      /\ \A n \in PANEL : job[i].decisions[n] \in Calls
  BY <1>2 DEF WorkOK, BallotOK, ToldInv, CountedSoFar
<1>4. /\ \A h \in Ids : h # i => appeal'[h] = appeal[h]
      /\ appeal'[i].tally = appeal[i].tally
  BY <1>2 DEF Typed, AppealFields
<1>5. j.step = "log" /\ j.decisions = job[i].decisions
  BY <1>2 DEF Job
<1> HIDE DEF j
<1>6. ASSUME job'[i] = j PROVE CountedSoFar(i)'
  BY <1>3, <1>4, <1>5, <1>6 DEF CountedSoFar, Tallied
<1>7. QED
  BY <1>1, <1>2, <1>3, <1>4, <1>6, ToldMined

(* The first log comes when the votes of the attempt are all counted.      *)
LEMMA ToldLog ==
  ASSUME ToldInv, NEW i \in Ids, InsertLog(i)
  PROVE  ToldInv'
<1> DEFINE n == job[i].next
           d == job[i].decisions
           step == IF n = Len(PanelTokens) THEN "done" ELSE "log"
           j == [job[i] EXCEPT !.next = n + 1, !.step = step]
           cast == [k \in PANEL |-> appeal[i].votes[PanelTokens[k]]]
<1>1. /\ Typed /\ WorkOK(i) /\ job[i] \in Job /\ job[i].step = "log"
      /\ UNCHANGED <<vars, announced, screen, enqueued, cutShort>>
      /\ logs' = [logs EXCEPT ![i] = Append(logs[i], d[n])]
      /\ CountedSoFar(i) /\ PublicOK(i)
  BY DEF ToldInv, WorkInv, Typed, InsertLog, At
<1>2. job' = [job EXCEPT ![i] = j]
  BY <1>1 DEF InsertLog, Typed
<1>3. /\ n \in PANEL /\ Len(PanelTokens) = 3 /\ d \in [PANEL -> Rulings]
      /\ appeal[i].closed /\ \A k \in PANEL : Cast(i, k)
  BY <1>1 DEF WorkOK, AttemptOK, BallotOK
<1>4. Tallied(i, d, 3) /\ \A k \in PANEL : d[k] \in Calls
  BY <1>1, <1>3 DEF CountedSoFar
<1>5. d = cast
  BY <1>3 DEF Cast
<1>6. j.step \in {"log", "done"} /\ j.decisions = d
  BY <1>1 DEF Job
<1>7. /\ job'[i] = j /\ logs'[i] = Append(logs[i], d[n])
      /\ \A h \in Ids : h # i => job'[h] = job[h] /\ logs'[h] = logs[h]
  BY <1>1, <1>2 DEF Typed
<1> HIDE DEF j, n, d
<1>8. [WorkerNext]_workerVars /\ [Next]_vars /\ UNCHANGED <<assertion, appeal>>
  BY <1>1, ChainStep DEF WorkerNext, Work, vars, registryVars, judgesVars
<1>9. PageTypes'
  BY <1>1 DEF ToldInv, PageTypes
<1>10. CountedSoFar(i)'
  BY <1>3, <1>4, <1>6, <1>7, <1>8 DEF CountedSoFar, Tallied
<1>11. PublicOK(i)'
  <2>1. Len(logs'[i]) = Len(logs[i]) + 1 /\ Len(logs[i]) \in Nat
    <3>1. logs[i] \in Seq(Rulings) /\ d[n] \in Rulings
      BY <1>1, <1>3 DEF Typed
    <3>2. QED
      BY <1>7, <3>1
  <2>2. screen'[i].votes \in 0..Len(logs'[i])
    BY <1>1, <2>1 DEF PublicOK
  <2>3. Tallied(i, [k \in PANEL |-> appeal[i].votes[PanelTokens[k]]], 3)'
    BY <1>4, <1>5, <1>8 DEF Tallied
  <2>4. Plurality(i)' = Plurality(i)
    BY <1>8 DEF Plurality
  <2>5. UNCHANGED <<announced[i], screen[i], appeal[i], assertion[i]>>
    BY <1>1, <1>8
  <2>6. announced'[i] # "PENDING" =>
          appeal'[i].closed /\ announced'[i] = Plurality(i)'
    BY <1>1, <1>3, <2>4, <2>5 DEF PublicOK
  <2>7. screen'[i].status = "RESOLVED" =>
          /\ assertion'[i].status = "RESOLVED"
          /\ screen'[i].outcome = assertion'[i].outcome
          /\ screen'[i].originalOutcome = assertion'[i].originalOutcome
    BY <1>1, <2>5 DEF PublicOK
  <2>8. QED
    BY <1>3, <2>2, <2>3, <2>6, <2>7 DEF PublicOK
<1>12. QED
  BY <1>1, <1>7, <1>8, <1>9, <1>10, <1>11, ToldStep

(* What is announced is what the chain counted: the worker's own tally and *)
(* the contract's agree.                                                   *)
LEMMA ToldAnnounce ==
  ASSUME ToldInv, NEW i \in Ids, Announce(i)
  PROVE  ToldInv'
<1> DEFINE d == job[i].decisions
           j == [NoJob EXCEPT !.state = "completed"]
<1>1. /\ Typed /\ WorkOK(i) /\ job[i].step = "done" /\ CountedSoFar(i) /\ PublicOK(i)
      /\ UNCHANGED <<vars, logs, screen, enqueued, cutShort>>
      /\ announced' = [announced EXCEPT ![i] = PluralityOf(d)]
      /\ job' = [job EXCEPT ![i] = j]
  BY DEF ToldInv, WorkInv, Announce, At
<1>2. d \in [PANEL -> Rulings] /\ Len(PanelTokens) = 3 /\ PANEL = 1..3
  BY <1>1 DEF WorkOK, AttemptOK, PANEL
<1>3. appeal[i].closed /\ Tallied(i, d, 3)
  BY <1>1, <1>2 DEF CountedSoFar
<1>4. j.step = "prepare"
  BY DEF NoJob
<1> HIDE DEF j, d
<1>5. PluralityOf(d) = Plurality(i)
  BY <1>2, <1>3, TallyNat, PluralityAgrees DEF ToldInv, IInv
<1>6. PluralityOf(d) \in Rulings
  BY DEF PluralityOf, Rulings
<1>7. /\ job'[i] = j /\ announced'[i] = PluralityOf(d)
      /\ \A h \in Ids : h # i => job'[h] = job[h] /\ announced'[h] = announced[h]
      /\ announced' \in [Ids -> Rulings \cup {"PENDING"}]
  BY <1>1, <1>6 DEF Typed, ToldInv, PageTypes
<1>8. [WorkerNext]_workerVars /\ [Next]_vars /\ UNCHANGED <<assertion, appeal>>
  BY <1>1, ChainStep DEF WorkerNext, Work, vars, registryVars, judgesVars
<1>9. PageTypes'
  BY <1>1, <1>7 DEF ToldInv, PageTypes
<1>10. CountedSoFar(i)'
  BY <1>4, <1>7 DEF CountedSoFar
<1>11. PublicOK(i)'
  <2>1. Plurality(i)' = Plurality(i)
    BY <1>8 DEF Plurality
  <2>2. QED
    BY <1>1, <1>3, <1>5, <1>7, <1>8, <2>1 DEF PublicOK, Tallied
<1>12. QED
  BY <1>1, <1>7, <1>8, <1>9, <1>10, <1>11, ToldStep

(* The page reads the assertion and the logs, each at a time of its own.   *)
LEMMA ToldPage ==
  ASSUME ToldInv, NEW i \in Ids, OpenPanel(i) \/ LeavePanel(i) \/ PollDetail(i)
  PROVE  ToldInv'
<1>1. UNCHANGED <<vars, enqueued, job, logs, announced, cutShort>>
  BY DEF OpenPanel, LeavePanel, PollDetail
<1>2. [WorkerNext]_workerVars /\ [Next]_vars /\ UNCHANGED <<assertion, appeal>>
  BY <1>1, ChainStep DEF WorkerNext, vars, registryVars, judgesVars
<1>3. /\ Typed /\ WorkOK(i) /\ PublicOK(i) /\ screen \in [Ids -> Screen]
      /\ screen[i] \in Screen
  BY DEF ToldInv, WorkInv, PageTypes
<1>4. Len(logs[i]) \in Nat /\ Len(logs[i]) <= 3
  <2>1. logs[i] \in Seq(Rulings) /\ \A n \in DOMAIN logs[i] : n \in PANEL
    BY <1>3 DEF Typed, WorkOK, LoggedAsVoted
  <2>2. logs[i] # <<>> => PANEL = 1..3
    BY <1>3 DEF PublicOK, PANEL
  <2>3. DOMAIN logs[i] = 1..Len(logs[i]) /\ Len(logs[i]) \in Nat
    BY <2>1
  <2>4. CASE logs[i] = <<>>
    BY <2>4
  <2>5. CASE logs[i] # <<>>
    <3>1. Len(logs[i]) \in 1..Len(logs[i])
      BY <2>1, <2>3, <2>5
    <3>2. QED
      BY <2>1, <2>2, <2>3, <2>5, <3>1
  <2>6. QED
    BY <2>4, <2>5
<1>5. PICK v : /\ screen' = [screen EXCEPT ![i] = v] /\ v \in Screen
               /\ v.votes \in 0..Len(logs[i])
               /\ v.status = "RESOLVED" =>
                    /\ assertion[i].status = "RESOLVED"
                    /\ v.outcome = assertion[i].outcome
                    /\ v.originalOutcome = assertion[i].originalOutcome
  <2>1. CASE OpenPanel(i)
    <3>1. /\ screen' = [screen EXCEPT ![i] = Onchain(i)]
          /\ screen[i].votes \in 0..Len(logs[i])
      BY <1>3, <2>1 DEF OpenPanel, PublicOK
    <3>2. Onchain(i) \in Screen
      <4>1. assertion[i] \in Registry!Assertion
        BY DEF ToldInv, IInv, TypeOK, Registry!TypeOK
      <4>2. /\ assertion[i].status \in Statuses /\ assertion[i].outcome \in Outcomes
            /\ assertion[i].originalOutcome \in Outcomes
        BY <4>1
           DEF Registry!Assertion, Registry!Statuses,
               Registry!Outcomes, Registry!Rulings, Statuses, Outcomes,
               Rulings
      <4>3. screen[i].votes \in 0..3
        BY <1>3 DEF Screen
      <4>4. QED
        BY <4>2, <4>3 DEF Onchain, Screen
    <3>3. /\ Onchain(i).status = assertion[i].status
          /\ Onchain(i).outcome = assertion[i].outcome
          /\ Onchain(i).originalOutcome = assertion[i].originalOutcome
          /\ Onchain(i).votes = screen[i].votes
      BY DEF Onchain
    <3>4. QED
      BY <3>1, <3>2, <3>3
  <2>2. CASE LeavePanel(i)
    <3>1. Loading \in Screen /\ Loading.status = "loading" /\ Loading.votes = 0
      BY DEF Loading, Screen, Outcomes
    <3>2. screen' = [screen EXCEPT ![i] = Loading] /\ 0 \in 0..Len(logs[i])
      BY <1>4, <2>2 DEF LeavePanel
    <3>3. QED
      BY <3>1, <3>2
  <2>3. CASE PollDetail(i)
    <3> DEFINE v == [screen[i] EXCEPT !.votes = Len(logs[i])]
    <3>1. screen' = [screen EXCEPT ![i] = v]
      BY <1>3, <2>3 DEF PollDetail, PanelVotes, Reasonings
    <3>2. /\ v \in Screen /\ v.votes = Len(logs[i]) /\ v.status = screen[i].status
          /\ v.outcome = screen[i].outcome /\ v.originalOutcome = screen[i].originalOutcome
      BY <1>3, <1>4 DEF Screen
    <3> HIDE DEF v
    <3>3. v.votes \in 0..Len(logs[i])
      BY <1>4, <3>2
    <3>4. QED
      BY <1>3, <3>1, <3>2, <3>3 DEF PublicOK
  <2>4. QED
    BY <2>1, <2>2, <2>3
<1>6. /\ screen'[i] = v /\ screen' \in [Ids -> Screen]
      /\ \A h \in Ids : h # i => screen'[h] = screen[h]
  BY <1>3, <1>5
<1>7. PageTypes'
  BY <1>1, <1>6 DEF ToldInv, PageTypes
<1>8. CountedSoFar(i)'
  BY <1>1, <1>2 DEF ToldInv, CountedSoFar, Tallied
<1>9. PublicOK(i)'
  <2>1. Plurality(i)' = Plurality(i)
    BY <1>2 DEF Plurality
  <2>2. QED
    BY <1>1, <1>2, <1>3, <1>5, <1>6, <2>1 DEF PublicOK, Tallied
<1>10. QED
  BY <1>1, <1>2, <1>6, <1>7, <1>8, <1>9, ToldStep
-----------------------------------------------------------------------------
LEMMA ToldInit == WorkerInit => ToldInv
<1> SUFFICES ASSUME WorkerInit PROVE ToldInv
  OBVIOUS
<1>1. IInv
  <2>1. ScoreTypes
    BY EscalationAssumption
       DEF WorkerInit, Judges!AllMinted, Judges!INITIAL_REPUTATION, Judges!Tokens, ScoreTypes,
           Tokens
  <2>2. QED
    BY <2>1, StartInv DEF WorkerInit
<1>2. WorkInv
  BY WorkStart
<1>3. PageTypes
  <2>1. Loading \in Screen
    BY DEF Loading, Screen, Outcomes
  <2>2. QED
    BY <2>1 DEF WorkerInit, PageTypes
<1>4. ASSUME NEW i \in Ids PROVE CountedSoFar(i) /\ PublicOK(i)
  <2>1. /\ job[i].step = "prepare" /\ logs[i] = <<>> /\ announced[i] = "PENDING"
        /\ screen[i].status = "loading" /\ screen[i].votes = 0
    BY DEF WorkerInit, NoJob, Loading
  <2>2. QED
    BY <2>1 DEF CountedSoFar, PublicOK
<1>5. QED
  BY <1>1, <1>2, <1>3, <1>4 DEF ToldInv

LEMMA ToldNext == ToldInv /\ [WorkerNext]_workerVars => ToldInv'
  BY ToldAside, ToldBefore, ToldPrepare, ToldOpen, ToldVote, ToldClose, ToldLog,
     ToldAnnounce, ToldPage
     DEF WorkerNext, Work

LEMMA ToldInvariant == WorkerSpec => []ToldInv
<1>1. WorkerInit => ToldInv
  BY ToldInit
<1>2. ToldInv /\ [WorkerNext]_workerVars => ToldInv'
  BY ToldNext
<1>3. QED
  BY <1>1, <1>2, PTL DEF WorkerSpec

(* Chain, worker and page keep their types, and the worker never votes on  *)
(* behalf of an attempt that is gone.                                      *)
THEOREM WorkerCorrect == WorkerSpec => []WorkerInv
<1>1. ToldInv => WorkerInv
  <2> SUFFICES ASSUME ToldInv PROVE WorkerInv
    OBVIOUS
  <2>1. WorkerTypeOK
    BY DEF ToldInv, IInv, WorkInv, Typed, PageTypes, WorkerTypeOK
  <2>2. \A i \in Ids : VotesOfOneAttempt(i)
    BY DEF ToldInv, WorkInv, WorkOK, BallotOK, Cast, At, VotesOfOneAttempt
  <2>3. QED
    BY <2>1, <2>2 DEF WorkerInv
<1>2. QED
  BY <1>1, ToldInvariant, PTL

LEMMA ThreeLong ==
  ASSUME NEW n \in Nat, 3 <= n, \A k \in 1..n : k \in 1..3
  PROVE  n = 3
<1>1. n \in 1..n
  OBVIOUS
<1>2. QED
  BY <1>1

(* The headline that three votes make is the ruling of the panel.          *)
LEMMA HeadlineIs ==
  ASSUME ToldInv, NEW i \in Ids, screen[i].status = "RESOLVED", screen[i].votes = 3
  PROVE  PluralityOf(logs[i]) = screen[i].outcome
<1> DEFINE cast == [k \in PANEL |-> appeal[i].votes[PanelTokens[k]]]
<1>1. /\ Typed /\ WorkOK(i) /\ PublicOK(i) /\ TypeOK
  BY DEF ToldInv, WorkInv, IInv
<1>2. logs[i] \in Seq(Rulings) /\ 3 \in 0..Len(logs[i])
  BY <1>1 DEF Typed, PublicOK
<1>3. logs[i] # <<>>
  BY <1>2
<1>4. PANEL = 1..3 /\ Tallied(i, cast, 3) /\ appeal[i].closed
  BY <1>1, <1>3 DEF PublicOK, PANEL, WorkOK, BallotOK
<1>5. logs[i] = cast
  <2>1. \A n \in DOMAIN logs[i] : n \in 1..3 /\ logs[i][n] = cast[n]
    BY <1>1, <1>4 DEF WorkOK, LoggedAsVoted
  <2>2. DOMAIN logs[i] = 1..Len(logs[i]) /\ Len(logs[i]) \in Nat
    BY <1>2
  <2>3. 3 <= Len(logs[i])
    BY <1>2, <2>2
  <2>4. DOMAIN logs[i] = 1..3
    <3>1. \A n \in 1..Len(logs[i]) : n \in 1..3
      BY <2>1, <2>2, Zenon
    <3>2. Len(logs[i]) = 3
      BY <2>2, <2>3, <3>1, ThreeLong
    <3>3. QED
      BY <2>2, <3>2
  <2>5. logs[i] = [k \in 1..3 |-> logs[i][k]]
    BY <1>2, <2>4
  <2>6. QED
    BY <1>4, <2>1, <2>4, <2>5
<1> HIDE DEF cast
<1>6. PluralityOf(logs[i]) = Plurality(i)
  <2>1. DOMAIN cast = 1..3
    BY <1>4 DEF cast
  <2>2. QED
    BY <1>1, <1>4, <1>5, <2>1, TallyNat, PluralityAgrees
<1>7. assertion[i].outcome = Plurality(i)
  BY <1>4 DEF ToldInv, IInv, AppealOK, ClosedOK
<1>8. QED
  BY <1>1, <1>6, <1>7 DEF PublicOK

(* The logs are the votes the chain counted; what is announced and what a  *)
(* page shows with three votes is what the registry recorded.              *)
THEOREM RulingPublished == WorkerSpec => []RulingAsTold
<1>1. ToldInv => RulingAsTold
  <2> SUFFICES ASSUME ToldInv, NEW i \in Ids
               PROVE  /\ LoggedAsVoted(i)
                      /\ announced[i] # "PENDING" =>
                           /\ assertion[i].status = "RESOLVED"
                           /\ assertion[i].outcome = announced[i]
                      /\ screen[i].status = "RESOLVED" /\ screen[i].votes = 3 =>
                           Upheld(i) <=> PluralityOf(logs[i]) = screen[i].originalOutcome
    BY DEF RulingAsTold
  <2>1. LoggedAsVoted(i)
    BY DEF ToldInv, WorkInv, WorkOK
  <2>2. announced[i] # "PENDING" =>
          assertion[i].status = "RESOLVED" /\ assertion[i].outcome = announced[i]
    BY DEF ToldInv, IInv, AppealOK, ClosedOK, PublicOK
  <2>3. screen[i].status = "RESOLVED" /\ screen[i].votes = 3 =>
          Upheld(i) <=> PluralityOf(logs[i]) = screen[i].originalOutcome
    BY HeadlineIs DEF Upheld
  <2>4. QED
    BY <2>1, <2>2, <2>3
<1>2. QED
  BY <1>1, ToldInvariant, PTL
===============================================================================
