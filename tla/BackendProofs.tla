---------------------------- MODULE BackendProofs ----------------------------
(***************************************************************************)
(* Theorems of Backend, for any number of assertions, attempts, throws and *)
(* restarts: the table never claims what the chain does not say, the       *)
(* record of a judgment is of the verdict that counted, nothing that the   *)
(* checkpoint left behind was skipped, and the table settles.              *)
(***************************************************************************)
EXTENDS Backend, TLAPS

(* The registry's theorems, over the registry's variables.                 *)
Facts == INSTANCE AssertionRegistryProofs

LEMMA Assumed == Facts!RegistryAssumption
  BY BackendAssumption
     DEF Facts!RegistryAssumption, Registry!RegistryAssumption,
         Facts!IsFiniteSet, Registry!IsFiniteSet
-----------------------------------------------------------------------------
(* The two instances of AssertionRegistry say the same.                    *)
LEMMA SameGuards ==
  \A i, a, o :
    /\ Registry!CanSettle(i, a, o) <=> Facts!CanSettle(i, a, o)
    /\ Registry!CanDispatch(i) <=> Facts!CanDispatch(i)
    /\ Registry!CanFinalise(i, a, o) <=> Facts!CanFinalise(i, a, o)
  BY DEF Registry!CanFinalise, Registry!CanSettle, Registry!CanDispatch, Registry!CanPay,
         Registry!Settlement, Registry!Total, Registry!Pay,
         Facts!CanFinalise, Facts!CanSettle, Facts!CanDispatch, Facts!CanPay,
         Facts!Settlement, Facts!Total, Facts!Pay

LEMMA SameFinalise ==
  ASSUME NEW i, NEW a, NEW final, Registry!Finalise(i, a, final)
  PROVE  Facts!Finalise(i, a, final)
  BY SameGuards
     DEF Registry!Finalise, Registry!SettleBonds, Registry!Settlement, Registry!Total,
         Registry!Pay, Registry!Dispatch, Registry!Resolved,
         Facts!Finalise, Facts!SettleBonds, Facts!Settlement, Facts!Total,
         Facts!Pay, Facts!Dispatch, Facts!Resolved

LEMMA SameForceResolve ==
  ASSUME NEW i, NEW o, Registry!ForceResolve(i, o)
  PROVE  Facts!ForceResolve(i, o)
  BY SameGuards
     DEF Registry!ForceResolve, Registry!CanForce, Registry!SettleBonds, Registry!Settlement,
         Registry!Total, Registry!Pay, Registry!Resolved, Registry!Live, Registry!IsRuling,
         Registry!wiring,
         Facts!ForceResolve, Facts!CanForce, Facts!SettleBonds, Facts!Settlement,
         Facts!Total, Facts!Pay, Facts!Resolved, Facts!Live, Facts!IsRuling, Facts!wiring

LEMMA SameSubmitVerdict ==
  ASSUME NEW i, NEW o, Registry!SubmitVerdict(i, o)
  PROVE  Facts!SubmitVerdict(i, o)
  BY SameFinalise, SameGuards
     DEF Registry!SubmitVerdict, Registry!CanSubmit, Registry!Judged, Registry!IsRuling,
         Registry!wiring,
         Facts!SubmitVerdict, Facts!CanSubmit, Facts!Judged, Facts!IsRuling, Facts!wiring

LEMMA SameResolve ==
  ASSUME NEW i
  PROVE  /\ Registry!ResolveUnchallenged(i) => Facts!ResolveUnchallenged(i)
         /\ \A c, o : Registry!ResolveChallenged(c, i, o) => Facts!ResolveChallenged(c, i, o)
  BY SameFinalise, SameGuards
     DEF Registry!CanResolve, Facts!CanResolve,
         Registry!ResolveUnchallenged, Registry!CanResolveUnchallenged,
         Registry!ResolveChallenged, Registry!IsRuling,
         Registry!wiring, Facts!ResolveUnchallenged, Facts!CanResolveUnchallenged,
         Facts!ResolveChallenged,
         Facts!IsRuling, Facts!wiring

LEMMA SameOpening ==
  ASSUME NEW i, NEW who, NEW m, NEW b, NEW p
  PROVE  /\ Registry!CreateAssertion(i, who, m, b, p) => Facts!CreateAssertion(i, who, m, b, p)
         /\ Registry!ChallengeAssertion(i, who) => Facts!ChallengeAssertion(i, who)
  BY DEF Registry!CreateAssertion, Registry!Exists, Registry!Opened, Registry!wiring,
         Registry!ChallengeAssertion, Registry!CanChallenge, Facts!CreateAssertion, Facts!Exists,
         Facts!Opened,
         Facts!wiring, Facts!ChallengeAssertion, Facts!CanChallenge

LEMMA SameTick == Registry!Tick => Facts!Tick
  BY DEF Registry!Tick, Registry!Aging, Registry!wiring,
         Facts!Tick, Facts!Aging, Facts!wiring

LEMMA SameInit == Registry!EmptyBooks /\ Registry!Deployed => Facts!Init
  BY DEF Registry!EmptyBooks, Registry!Deployed, Registry!Absent, Registry!NoPayout,
         Registry!Pay, Facts!Init, Facts!EmptyBooks, Facts!Deployed, Facts!Absent,
         Facts!NoPayout, Facts!Pay

LEMMA SameTypes == Facts!TypeOK => Registry!TypeOK
  BY DEF Facts!TypeOK, Facts!Assertion, Facts!Payout, Facts!Statuses, Facts!Modes,
         Facts!Outcomes, Facts!Rulings,
         Registry!TypeOK, Registry!Assertion, Registry!Payout, Registry!Statuses,
         Registry!Modes, Registry!Outcomes, Registry!Rulings
-----------------------------------------------------------------------------
(* Every step is one of the registry's or leaves the registry alone.       *)
LEMMA ElsewhereIs ==
  ASSUME Elsewhere
  PROVE  Facts!Next
<1> USE DEF Facts!Next, Facts!NextUnappealed
<1>1. CASE Registry!Tick
  BY <1>1, SameTick
<1>2. ASSUME NEW i \in Ids, NEW who \in Accounts, NEW m \in Modes, NEW b \in Bonds,
             NEW p \in Periods, Registry!CreateAssertion(i, who, m, b, p)
      PROVE  Facts!Next
  BY <1>2, SameOpening DEF Modes, Facts!Modes
<1>3. ASSUME NEW i \in Ids, NEW who \in Accounts, Registry!ChallengeAssertion(i, who)
      PROVE  Facts!Next
  BY <1>3, SameOpening
<1>4. ASSUME NEW i \in Ids, Registry!ResolveUnchallenged(i) PROVE Facts!Next
  BY <1>4, SameResolve
<1>5. ASSUME NEW i \in Ids, NEW o \in Rulings,
             Registry!ResolveChallenged(Escalation, i, o) \/ Registry!ForceResolve(i, o)
      PROVE  Facts!Next
  <2>1. o \in Facts!Outcomes /\ Escalation \in Enforcers \cup {Escalation}
    BY DEF Rulings, Facts!Outcomes
  <2>2. QED
    BY <1>5, <2>1, SameResolve, SameForceResolve
<1>6. QED
  BY <1>1, <1>2, <1>3, <1>4, <1>5 DEF Elsewhere

LEMMA VerdictIs ==
  ASSUME NEW i \in Ids, NEW o \in Outcomes, SendVerdict(i, o)
  PROVE  Facts!Next
<1>1. o \in Facts!Outcomes /\ Facts!SubmitVerdict(i, o)
  BY SameSubmitVerdict DEF SendVerdict, Outcomes, Facts!Outcomes
<1>2. QED
  BY <1>1 DEF Facts!Next, Facts!NextUnappealed

LEMMA RegistryStepIs ==
  ASSUME job \in [Ids -> Job], [Next]_vars
  PROVE  [Facts!Next]_(Facts!vars)
<1>1. CASE Elsewhere
  BY <1>1, ElsewhereIs
<1>2. ASSUME NEW i \in Ids, Submit(i) \/ SubmitUnheard(i) PROVE Facts!Next
  <2>1. job[i].decision \in Outcomes
    BY DEF Job
  <2>2. QED
    BY <1>2, <2>1, VerdictIs DEF Submit, SubmitUnheard
<1>3. ASSUME NEW i \in Ids, FinaliseDue(i) PROVE Facts!Next
  BY <1>3, SameResolve DEF FinaliseDue, Facts!Next, Facts!NextUnappealed
<1>4. CASE UNCHANGED registryVars
  BY <1>4 DEF registryVars, Facts!vars, Facts!books, Facts!wiring
<1>5. CASE Indexing \/ TickRejects \/ Restart \/ UNCHANGED vars
  BY <1>4, <1>5 DEF Indexing, StartPass, InsertRow, HandleEvent, SaveCheckpoint, TickRejects,
                    Restart, vars
<1>6. ASSUME NEW i \in Ids,
             \/ Start(i) \/ Load(i) \/ InsertLog(i) \/ UpdateOutcome(i)
             \/ \E o \in Rulings : DecideOutcome(i, o)
             \/ JudgeThrows(i) \/ Enqueue(i) \/ Forget(i)
      PROVE  UNCHANGED registryVars
  BY <1>6 DEF Start, Load, InsertLog, UpdateOutcome, DecideOutcome, JudgeThrows, Enqueue,
              Forget
<1>7. QED
  BY <1>1, <1>2, <1>3, <1>4, <1>5, <1>6 DEF Next, Judging
-----------------------------------------------------------------------------
(* The inductive invariant.                                                *)

(* An event says what is still true of its assertion.                      *)
EventOK(e, a) ==
  /\ a.status # "NONE" /\ e.mode = a.mode
  /\ e.kind = "Verdict" => e.outcome = a.originalOutcome /\ e.outcome \in Rulings
  /\ e.kind = "Resolved" =>
       a.status = "RESOLVED" /\ e.outcome = a.outcome /\ e.outcome \in Rulings

Tells(l, n, i, kind) == l[n].id = i /\ l[n].kind = kind

(* The log begins an assertion with its creation, has whatever happened to *)
(* it, and has no verdict after its end.                                   *)
LogOf(l, records) ==
  /\ \A n \in 1..Len(l) :
       EventOK(l[n], records[l[n].id]) /\ \E m \in 1..n : Tells(l, m, l[n].id, "Created")
  /\ \A i \in Ids :
       /\ records[i].status # "NONE" => \E n \in 1..Len(l) : Tells(l, n, i, "Created")
       /\ records[i].originalOutcome # "PENDING" =>
            \E n \in 1..Len(l) : Tells(l, n, i, "Verdict")
       /\ records[i].status = "RESOLVED" => \E n \in 1..Len(l) : Tells(l, n, i, "Resolved")
  /\ \A i \in Ids, n, m \in 1..Len(l) :
       Tells(l, n, i, "Verdict") /\ Tells(l, m, i, "Resolved") => n < m

LogOK == LogOf(log, assertion)

RowOK(i) ==
  row[i] # NoRow => assertion[i].status # "NONE" /\ row[i].mode = assertion[i].mode

NoPass == Indexer!NoPass

(* Event n lies behind the checkpoint, or a pass under way handled it.     *)
Handled(n) == n <= checkpoint \/ \E p \in Passes : n <= pass[p].at

(* What a pass made of event n.                                            *)
HandledOK(n) ==
  LET e == log[n]
      r == row[e.id]
      a == assertion[e.id] IN
  /\ r # NoRow
  /\ e.kind = "Created" => job[e.id].state # "none"
  /\ e.kind \in {"Verdict", "Resolved"} => r.outcome # "PENDING"
  /\ e.kind = "Resolved" =>
       /\ r.resolved
       /\ \/ r.outcome = a.outcome
          \/ r.outcome = a.originalOutcome /\ logged[e.id] # <<>>
          \/ straggled

(* Until two passes were under way at once, there is one at most, and it   *)
(* is ahead of the checkpoint.                                             *)
Alone ==
  ~straggled =>
    /\ \A p \in Passes : Running(p) => checkpoint <= pass[p].at
    /\ \A p, q \in Passes : Running(p) /\ Running(q) => p = q

(* A judgment that was sent is the one on record, and is logged once.      *)
JobOK(i) ==
  LET j == job[i]
      call == assertion[i].originalOutcome IN
  /\ j.state \in {"waiting", "active"} => j.attempts < ATTEMPTS
  /\ j.state # "active" => j.step = "load"
  /\ j.step # "load" => row[i] # NoRow
  /\ j.step \in {"submit", "log", "update"} => j.decision \in Rulings
  /\ j.step \in {"log", "update"} => j.decision = call
  /\ logged[i] = <<>> \/ (logged[i] = <<call>> /\ call \in Rulings)
  /\ j.step = "log" => logged[i] = <<>>
  /\ j.step = "update" => logged[i] # <<>>

(* The types, but for those of the registry.                               *)
BackendTyped ==
  /\ log \in Seq(Event)
  /\ row \in [Ids -> Row]
  /\ checkpoint \in 0..Len(log)
  /\ pass \in [Passes -> [at : Nat, to : 0..Len(log)]]
  /\ \A p \in Passes : pass[p].at <= pass[p].to
  /\ awaited \subseteq Passes /\ straggled \in BOOLEAN
  /\ job \in [Ids -> Job]
  /\ logged \in [Ids -> Seq(Rulings)]
  /\ faults \in 0..MaxFaults
  /\ badReads \in 0..MaxBadReads

ChainInv == Facts!RegistryInv /\ \A i \in Ids : Facts!RecordOK(i)

MirrorIInv ==
  /\ BackendTyped
  /\ LogOK
  /\ \A i \in Ids : RowOK(i) /\ NeverInvents(i) /\ JobOK(i)
  /\ Alone
  /\ \A n \in 1..Len(log) : Handled(n) => HandledOK(n)
-----------------------------------------------------------------------------
(* The chain.                                                              *)

LEMMA RecordTyped ==
  ASSUME ChainInv, NEW i \in Ids
  PROVE  /\ assertion \in [Ids -> Facts!Assertion]
         /\ assertion[i].mode \in Modes /\ assertion[i].outcome \in Outcomes
  BY DEF ChainInv, Facts!RegistryInv, Facts!TypeOK, Facts!Assertion, Facts!Modes, Modes,
         Facts!Outcomes, Outcomes

LEMMA RecordTypedNext ==
  ASSUME ChainInv', NEW i \in Ids
  PROVE  /\ assertion' \in [Ids -> Facts!Assertion]
         /\ assertion'[i].mode \in Modes /\ assertion'[i].outcome \in Outcomes
         /\ assertion'[i].status = "OPEN" => assertion'[i].originalOutcome = "PENDING"
  BY DEF ChainInv, Facts!RegistryInv, Facts!TypeOK, Facts!Assertion, Facts!Modes, Modes,
         Facts!Outcomes, Outcomes, Facts!RecordOK

LEMMA RecordFacts ==
  ASSUME ChainInv, NEW i \in Ids
  PROVE  LET a == assertion[i] IN
         /\ a.originalOutcome \in Rulings \cup {"PENDING"}
         /\ a.status \in {"NONE", "OPEN"} => a.originalOutcome = "PENDING"
         /\ a.status # "RESOLVED" => a.outcome = a.originalOutcome
         /\ a.mode = "INSTANT" /\ a.originalOutcome # "PENDING" => a.status = "RESOLVED"
  BY DEF ChainInv, Facts!RecordOK, Facts!Rulings, Rulings

LEMMA ChainInit == Init => ChainInv
<1> SUFFICES ASSUME Init PROVE ChainInv
  OBVIOUS
<1>1. Facts!Init
  BY SameInit DEF Init
<1>2. Facts!RegistryInv
  BY <1>1, Assumed, Facts!InitInv
<1>3. \A i \in Ids : Facts!RecordOK(i)
  BY <1>1, Assumed, Facts!RecordInit
<1>4. QED
  BY <1>2, <1>3 DEF ChainInv

LEMMA ChainNext ==
  ASSUME ChainInv, job \in [Ids -> Job], [Next]_vars
  PROVE  ChainInv' /\ \A i \in Ids : Facts!Advances(i)
<1>1. [Facts!Next]_(Facts!vars)
  BY RegistryStepIs
<1>2. Facts!RegistryInv'
  BY <1>1, Assumed, Facts!NextInv DEF ChainInv
<1>3. Facts!TypeOK
  BY DEF ChainInv, Facts!RegistryInv
<1>4. \A i \in Ids : Facts!RecordOK(i)' /\ Facts!Advances(i)
  BY <1>1, <1>3, Assumed, Facts!RecordNext DEF ChainInv
<1>5. QED
  BY <1>2, <1>4 DEF ChainInv

(* What a transaction does to the record of assertion i and which events   *)
(* it emits; every other record stays.                                     *)
Transacts(i, kinds) ==
  LET a == assertion[i]
      b == assertion'[i] IN
  /\ Emit(i, kinds)
  /\ \A j \in Ids \ {i} : assertion'[j] = assertion[j]
  /\ \/ kinds = <<"Created">> /\ a.status = "NONE" /\ b.status = "OPEN"
     \/ /\ kinds = <<"Challenged">>
        /\ a.status = "VERDICTED" /\ b.status = "CHALLENGED"
        /\ b.originalOutcome = a.originalOutcome
     \/ /\ kinds = <<"Resolved">>
        /\ a.status \in {"OPEN", "VERDICTED", "CHALLENGED"} /\ b.status = "RESOLVED"
        /\ b.originalOutcome = a.originalOutcome /\ b.outcome \in Rulings
     \/ /\ kinds \in {<<"Verdict">>, <<"Verdict", "Resolved">>}
        /\ a.status = "OPEN"
        /\ b.status = IF kinds = <<"Verdict">> THEN "VERDICTED" ELSE "RESOLVED"
        /\ b.originalOutcome \in Rulings /\ b.outcome = b.originalOutcome

Transaction == UNCHANGED <<assertion, log>> \/ \E i \in Ids : \E kinds : Transacts(i, kinds)

LEMMA ResolveTransacts ==
  ASSUME ChainInv, NEW i \in Ids, NEW o \in Rulings, Emit(i, <<"Resolved">>),
         assertion[i].status \in {"OPEN", "VERDICTED", "CHALLENGED"},
         assertion' = [assertion EXCEPT ![i] = Registry!Resolved(assertion[i], o)]
  PROVE  Transaction
<1>1. assertion \in [Ids -> Facts!Assertion]
  BY RecordTyped
<1>2. /\ assertion'[i].status = "RESOLVED" /\ assertion'[i].outcome = o
      /\ assertion'[i].originalOutcome = assertion[i].originalOutcome
      /\ \A j \in Ids \ {i} : assertion'[j] = assertion[j]
  BY <1>1 DEF Registry!Resolved, Facts!Assertion
<1>3. Transacts(i, <<"Resolved">>)
  BY <1>2 DEF Transacts
<1>4. QED
  BY <1>3 DEF Transaction

LEMMA UnchallengedTransacts ==
  ASSUME ChainInv, NEW i \in Ids, Registry!ResolveUnchallenged(i), Emit(i, <<"Resolved">>)
  PROVE  Transaction
<1>1. assertion[i].originalOutcome \in Rulings
  BY DEF Registry!ResolveUnchallenged, Registry!CanResolveUnchallenged, ChainInv,
         Facts!RegistryInv, Facts!Unsettled,
         Facts!Rulings, Rulings
<1>2. QED
  BY <1>1, ResolveTransacts DEF Registry!ResolveUnchallenged, Registry!CanResolveUnchallenged,
                                Registry!Finalise

LEMMA ElsewhereTransacts == ASSUME ChainInv, Elsewhere PROVE Transaction
<1>1. assertion \in [Ids -> Facts!Assertion]
  BY DEF ChainInv, Facts!RegistryInv, Facts!TypeOK
<1>2. CASE Registry!Tick /\ UNCHANGED log
  BY <1>2 DEF Registry!Tick, Transaction
<1>3. ASSUME NEW i \in Ids, NEW who \in Accounts, NEW m \in Modes, NEW b \in Bonds,
             NEW p \in Periods, Registry!CreateAssertion(i, who, m, b, p),
             Emit(i, <<"Created">>)
      PROVE  Transaction
  <2>1. Transacts(i, <<"Created">>)
    BY <1>1, <1>3 DEF Transacts, Registry!CreateAssertion, Registry!Exists, Registry!Opened
  <2>2. QED
    BY <2>1 DEF Transaction
<1>4. ASSUME NEW i \in Ids, NEW who \in Accounts, Registry!ChallengeAssertion(i, who),
             Emit(i, <<"Challenged">>)
      PROVE  Transaction
  <2>1. Transacts(i, <<"Challenged">>)
    BY <1>1, <1>4 DEF Transacts, Registry!ChallengeAssertion, Registry!CanChallenge, Facts!Assertion
  <2>2. QED
    BY <2>1 DEF Transaction
<1>5. ASSUME NEW i \in Ids, NEW o \in Rulings, Emit(i, <<"Resolved">>),
             Registry!ResolveChallenged(Escalation, i, o) \/ Registry!ForceResolve(i, o)
      PROVE  Transaction
  BY <1>5, ResolveTransacts
     DEF Registry!ResolveChallenged, Registry!CanResolve, Registry!Finalise,
         Registry!ForceResolve, Registry!CanForce, Registry!Live
<1>6. QED
  BY <1>2, <1>3, <1>4, <1>5, UnchallengedTransacts DEF Elsewhere

(* A verdict is recorded for a question without one.                       *)
LEMMA VerdictTransacts ==
  ASSUME ChainInv, NEW i \in Ids, NEW o \in Rulings, SendVerdict(i, o)
  PROVE  /\ Transaction
         /\ assertion[i].status = "OPEN" /\ assertion'[i].originalOutcome = o
<1> DEFINE a == Registry!Judged(assertion[i], o)
<1>1. assertion \in [Ids -> Facts!Assertion] /\ assertion[i] \in Facts!Assertion
  BY RecordTyped
<1>2. /\ a.status = "VERDICTED" /\ a.originalOutcome = o /\ a.outcome = o
      /\ a.mode = assertion[i].mode
  BY <1>1 DEF Registry!Judged, Facts!Assertion
<1>3. /\ assertion[i].status = "OPEN"
      /\ \/ assertion[i].mode = "INSTANT"
              /\ assertion' = [assertion EXCEPT ![i] = Registry!Resolved(a, o)]
         \/ assertion[i].mode = "AUDITED" /\ assertion' = [assertion EXCEPT ![i] = a]
  BY <1>2 DEF SendVerdict, Registry!SubmitVerdict, Registry!CanSubmit, Registry!Finalise
<1>4. a \in Facts!Assertion
  BY <1>1 DEF Registry!Judged, Facts!Assertion, Facts!Statuses, Facts!Outcomes, Rulings
<1>5. CASE assertion[i].mode = "INSTANT"
  <2>1. Transacts(i, <<"Verdict", "Resolved">>) /\ assertion'[i].originalOutcome = o
    <3>1. Emit(i, <<"Verdict", "Resolved">>)
      BY <1>5 DEF SendVerdict
    <3>2. assertion' = [assertion EXCEPT ![i] = Registry!Resolved(a, o)]
      BY <1>3, <1>5
    <3>3. /\ assertion'[i].status = "RESOLVED"
          /\ assertion'[i].originalOutcome = o /\ assertion'[i].outcome = o
          /\ \A j \in Ids \ {i} : assertion'[j] = assertion[j]
      <4> HIDE DEF a
      <4>1. QED
        BY <1>1, <1>2, <1>4, <3>2 DEF Registry!Resolved, Facts!Assertion
    <3>4. <<"Verdict", "Resolved">> # <<"Verdict">>
      OBVIOUS
    <3>5. QED
      BY <1>3, <3>1, <3>3, <3>4 DEF Transacts
  <2>2. QED
    BY <1>3, <2>1 DEF Transaction
<1>6. CASE assertion[i].mode = "AUDITED"
  <2>1. Transacts(i, <<"Verdict">>) /\ assertion'[i].originalOutcome = o
    BY <1>1, <1>2, <1>3, <1>6 DEF Transacts, SendVerdict
  <2>2. QED
    BY <1>3, <2>1 DEF Transaction
<1>7. QED
  BY <1>3, <1>5, <1>6
-----------------------------------------------------------------------------
(* The log.                                                                *)

Kinds == {"Created", "Verdict", "Challenged", "Resolved"}

(* Emitted events come after the others, in order.                         *)
LEMMA Emitted ==
  ASSUME log \in Seq(Event), NEW i \in Ids, NEW kinds \in Seq(Kinds), Emit(i, kinds),
         assertion'[i].mode \in Modes, assertion'[i].outcome \in Outcomes
  PROVE  /\ log' \in Seq(Event)
         /\ Len(log') = Len(log) + Len(kinds)
         /\ \A n \in 1..Len(log) : log'[n] = log[n]
         /\ \A k \in 1..Len(kinds) :
              LET e == log'[Len(log) + k] IN
              /\ e.kind = kinds[k] /\ e.id = i
              /\ e.mode = assertion'[i].mode /\ e.outcome = assertion'[i].outcome
<1> DEFINE new == [n \in 1..Len(kinds) |->
             [tx |-> NextTx, kind |-> kinds[n], id |-> i,
              mode |-> assertion'[i].mode, outcome |-> assertion'[i].outcome]]
<1>1. log' = log \o new
  BY DEF Emit
<1>2. NextTx \in Nat
  <2>1. CASE log = <<>>
    BY <2>1 DEF NextTx
  <2>2. CASE log # <<>>
    <3>1. log[Len(log)] \in Event
      BY <2>2
    <3>2. QED
      BY <2>2, <3>1 DEF NextTx, Event
  <2>3. QED
    BY <2>1, <2>2
<1>3. \A n \in 1..Len(kinds) : new[n] \in Event
  BY <1>2 DEF Event, Kinds
<1>4. new \in Seq(Event) /\ Len(new) = Len(kinds)
  <2>1. Len(kinds) \in Nat
    OBVIOUS
  <2>2. new \in [1..Len(kinds) -> Event]
    BY <1>3
  <2>3. QED
    BY <2>1, <2>2
<1>5. /\ log' \in Seq(Event) /\ Len(log') = Len(log) + Len(kinds)
      /\ \A n \in 1..Len(log) : log'[n] = log[n]
      /\ \A k \in 1..Len(kinds) : log'[Len(log) + k] = new[k]
  <2> HIDE DEF new
  <2>1. QED
    BY <1>1, <1>4
<1>6. \A k \in 1..Len(kinds) :
        LET e == new[k] IN
        /\ e.kind = kinds[k] /\ e.id = i
        /\ e.mode = assertion'[i].mode /\ e.outcome = assertion'[i].outcome
  OBVIOUS
<1> HIDE DEF new
<1>7. QED
  BY <1>5, <1>6

(* The same of a transaction, kind by kind.                                *)
LEMMA KindsEmitted ==
  ASSUME NEW i \in Ids, NEW kinds, Transacts(i, kinds)
  PROVE  LET a == assertion[i]
             b == assertion'[i] IN
         /\ kinds \in Seq(Kinds)
         /\ \A k \in 1..Len(kinds) : kinds[k] \in Kinds
         /\ \/ /\ Len(kinds) = 1 /\ kinds[1] = "Created"
               /\ a.status = "NONE" /\ b.status = "OPEN"
            \/ /\ Len(kinds) = 1 /\ kinds[1] = "Challenged"
               /\ a.status = "VERDICTED" /\ b.status = "CHALLENGED"
               /\ b.originalOutcome = a.originalOutcome
            \/ /\ Len(kinds) = 1 /\ kinds[1] = "Resolved"
               /\ a.status \in {"OPEN", "VERDICTED", "CHALLENGED"} /\ b.status = "RESOLVED"
               /\ b.originalOutcome = a.originalOutcome /\ b.outcome \in Rulings
            \/ /\ Len(kinds) = 1 /\ kinds[1] = "Verdict"
               /\ a.status = "OPEN" /\ b.status = "VERDICTED"
               /\ b.originalOutcome \in Rulings /\ b.outcome = b.originalOutcome
            \/ /\ Len(kinds) = 2 /\ kinds[1] = "Verdict" /\ kinds[2] = "Resolved"
               /\ a.status = "OPEN" /\ b.status = "RESOLVED"
               /\ b.originalOutcome \in Rulings /\ b.outcome = b.originalOutcome
<1> USE DEF Transacts, Kinds
<1>1. CASE kinds = <<"Created">>
  BY <1>1
<1>2. CASE kinds = <<"Challenged">>
  BY <1>2
<1>3. CASE kinds = <<"Resolved">>
  BY <1>3
<1>4. CASE kinds = <<"Verdict">>
  BY <1>4
<1>5. CASE kinds = <<"Verdict", "Resolved">>
  BY <1>5
<1>6. QED
  BY <1>1, <1>2, <1>3, <1>4, <1>5

(* What an event of the log said stays said.                               *)
LEMMA EventStays ==
  ASSUME NEW e \in Event, EventOK(e, assertion[e.id]), Facts!Advances(e.id)
  PROVE  EventOK(e, assertion'[e.id])
  BY DEF EventOK, Facts!Advances, Rulings

LEMMA LogAside ==
  ASSUME LogOK, UNCHANGED <<assertion, log>> PROVE LogOK'
  BY DEF LogOK

(* A transaction appends to the log what it did.                           *)
LEMMA LogNext ==
  ASSUME ChainInv, ChainInv', log \in Seq(Event), LogOK, Transaction,
         \A i \in Ids : Facts!Advances(i)
  PROVE  /\ log' \in Seq(Event) /\ LogOK'
         /\ Len(log) <= Len(log') /\ \A n \in 1..Len(log) : log'[n] = log[n]
<1>1. CASE UNCHANGED <<assertion, log>>
  BY <1>1, LogAside
<1>2. ASSUME NEW i \in Ids, NEW kinds, Transacts(i, kinds)
      PROVE  /\ log' \in Seq(Event) /\ LogOK'
             /\ Len(log) <= Len(log') /\ \A n \in 1..Len(log) : log'[n] = log[n]
  <2> DEFINE a == assertion[i]
             b == assertion'[i]
             New(k) == Len(log) + k
  <2>1. /\ kinds \in Seq(Kinds) /\ Len(kinds) \in {1, 2}
        /\ \A k \in 1..Len(kinds) : kinds[k] \in Kinds
    BY <1>2, KindsEmitted
  <2>2. b.mode \in Modes /\ b.outcome \in Outcomes
    BY RecordTypedNext
  <2>3. Emit(i, kinds)
    BY <1>2 DEF Transacts
  <2>4. /\ log' \in Seq(Event)
        /\ Len(log') = Len(log) + Len(kinds)
        /\ \A n \in 1..Len(log) : log'[n] = log[n]
        /\ \A k \in 1..Len(kinds) :
             LET e == log'[New(k)] IN
             e.kind = kinds[k] /\ e.id = i /\ e.mode = b.mode /\ e.outcome = b.outcome
    BY <2>1, <2>2, <2>3, Emitted
  <2>5. Len(log) \in Nat /\ Len(log') \in Nat
    BY <2>4
  <2>6. \A n \in 1..Len(log') : n \in 1..Len(log) \/ \E k \in 1..Len(kinds) : n = New(k)
    <3> SUFFICES ASSUME NEW n \in 1..Len(log'), n \notin 1..Len(log)
                 PROVE  \E k \in 1..Len(kinds) : n = New(k)
      OBVIOUS
    <3>1. n - Len(log) \in 1..Len(kinds) /\ n = New(n - Len(log))
      BY <2>1, <2>4, <2>5
    <3>2. QED
      BY <3>1
  <2>7. \A k \in 1..Len(kinds) : New(k) \in 1..Len(log') /\ New(k) > Len(log)
    BY <2>1, <2>4, <2>5
  <2>8. /\ b.status # "NONE"
        /\ \A k \in 1..Len(kinds) :
             /\ kinds[k] = "Created" => a.status = "NONE"
             /\ kinds[k] # "Created" => a.status # "NONE"
             /\ kinds[k] = "Verdict" =>
                  /\ a.status = "OPEN" /\ k = 1
                  /\ b.outcome = b.originalOutcome /\ b.outcome \in Rulings
             /\ kinds[k] = "Resolved" => b.status = "RESOLVED" /\ b.outcome \in Rulings
        /\ a.status = "NONE" => kinds[1] = "Created"
        /\ a.originalOutcome = "PENDING" /\ b.originalOutcome # "PENDING" =>
             kinds[1] = "Verdict"
        /\ a.status # "RESOLVED" /\ b.status = "RESOLVED" =>
             \E k \in 1..Len(kinds) : kinds[k] = "Resolved"
    <3>1. /\ a.status = "NONE" => a.originalOutcome = "PENDING"
          /\ b.status = "OPEN" => b.originalOutcome = "PENDING"
      BY RecordFacts, RecordTypedNext
    <3>2. CASE Len(kinds) = 1
      BY <1>2, <3>1, <3>2, KindsEmitted
    <3>3. CASE Len(kinds) = 2
      <4>1. 2 \in 1..Len(kinds) /\ \A k \in 1..Len(kinds) : k = 1 \/ k = 2
        BY <3>3
      <4>2. QED
        BY <1>2, <3>1, <3>3, <4>1, KindsEmitted
    <3>4. QED
      BY <2>1, <3>2, <3>3
  <2>9. \A j \in Ids \ {i} : assertion'[j] = assertion[j]
    BY <1>2 DEF Transacts
  <2>10. \A n \in 1..Len(log) : log[n] \in Event /\ log[n].id \in Ids
    <3>1. \A n \in 1..Len(log) : log[n] \in Event
      OBVIOUS
    <3>2. QED
      BY <3>1 DEF Event
  <2>11. \A n \in 1..Len(log) : \A j, kind :
            Tells(log', n, j, kind) <=> Tells(log, n, j, kind)
    BY <2>4 DEF Tells
  <2>12. \A k \in 1..Len(kinds) : \A j, kind :
            Tells(log', New(k), j, kind) <=> j = i /\ kind = kinds[k]
    BY <2>4 DEF Tells
  <2> HIDE DEF a, b, New
  <2>13. ASSUME NEW n \in 1..Len(log')
         PROVE  /\ EventOK(log'[n], assertion'[log'[n].id])
                /\ \E m \in 1..n : Tells(log', m, log'[n].id, "Created")
    <3>1. CASE n \in 1..Len(log)
      <4>1. EventOK(log[n], assertion'[log[n].id])
        BY <2>10, <3>1, EventStays DEF LogOK, LogOf
      <4>2. PICK m \in 1..n : Tells(log, m, log[n].id, "Created")
        BY <3>1 DEF LogOK, LogOf
      <4>3. m \in 1..Len(log)
        BY <2>5, <3>1
      <4>4. Tells(log', m, log[n].id, "Created")
        BY <2>11, <4>2, <4>3
      <4>5. QED
        BY <2>4, <3>1, <4>1, <4>4
    <3>2. ASSUME NEW k \in 1..Len(kinds), n = New(k)
          PROVE  /\ EventOK(log'[n], assertion'[log'[n].id])
                /\ \E m \in 1..n : Tells(log', m, log'[n].id, "Created")
      <4>1. log'[n].id = i /\ log'[n].kind = kinds[k] /\ log'[n].mode = b.mode
            /\ log'[n].outcome = b.outcome
        BY <2>4, <3>2
      <4>2. EventOK(log'[n], assertion'[log'[n].id])
        BY <2>8, <4>1 DEF EventOK, b
      <4>3. CASE kinds[k] = "Created"
        <5>1. Tells(log', n, i, "Created")
          BY <2>12, <3>2, <4>3
        <5>2. n \in 1..n
          BY <2>5
        <5>3. QED
          BY <4>1, <4>2, <5>1, <5>2
      <4>4. CASE kinds[k] # "Created"
        <5>1. PICK m \in 1..Len(log) : Tells(log, m, i, "Created")
          BY <2>8, <4>4 DEF LogOK, LogOf, a
        <5>2. m \in 1..n /\ Tells(log', m, i, "Created")
          BY <2>5, <2>7, <2>11, <3>2, <5>1
        <5>3. QED
          BY <4>1, <4>2, <5>2
      <4>5. QED
        BY <4>3, <4>4
    <3>3. QED
      BY <2>6, <3>1, <3>2
  <2>14. ASSUME NEW j \in Ids, NEW kind, \E n \in 1..Len(log) : Tells(log, n, j, kind)
         PROVE  \E n \in 1..Len(log') : Tells(log', n, j, kind)
    <3>1. PICK n \in 1..Len(log) : Tells(log, n, j, kind)
      BY <2>14
    <3>2. n \in 1..Len(log') /\ Tells(log', n, j, kind)
      BY <2>1, <2>4, <2>5, <2>11, <3>1
    <3>3. QED
      BY <3>2
  <2>15. ASSUME NEW k \in 1..Len(kinds)
         PROVE  \E n \in 1..Len(log') : Tells(log', n, i, kinds[k])
    BY <2>7, <2>12
  <2>16. 1 \in 1..Len(kinds)
    BY <2>1
  <2>17. ASSUME NEW j \in Ids
         PROVE  /\ assertion'[j].status # "NONE" =>
                     \E n \in 1..Len(log') : Tells(log', n, j, "Created")
                /\ assertion'[j].originalOutcome # "PENDING" =>
                     \E n \in 1..Len(log') : Tells(log', n, j, "Verdict")
                /\ assertion'[j].status = "RESOLVED" =>
                     \E n \in 1..Len(log') : Tells(log', n, j, "Resolved")
    <3>1. CASE j # i
      BY <2>9, <2>14, <3>1 DEF LogOK, LogOf
    <3>2. CASE j = i
      <4>1. \E n \in 1..Len(log') : Tells(log', n, j, "Created")
        BY <2>8, <2>14, <2>15, <2>16, <3>2 DEF LogOK, LogOf, a
      <4>2. b.originalOutcome # "PENDING" => \E n \in 1..Len(log') : Tells(log', n, j, "Verdict")
        BY <2>8, <2>14, <2>15, <2>16, <3>2 DEF LogOK, LogOf, a
      <4>3. b.status = "RESOLVED" => \E n \in 1..Len(log') : Tells(log', n, j, "Resolved")
        BY <2>8, <2>14, <2>15, <3>2 DEF LogOK, LogOf, a
      <4>4. QED
        BY <3>2, <4>1, <4>2, <4>3 DEF b
    <3>3. QED
      BY <3>1, <3>2
  <2>18. ASSUME NEW j \in Ids, NEW n \in 1..Len(log'), NEW m \in 1..Len(log'),
                Tells(log', n, j, "Verdict"), Tells(log', m, j, "Resolved")
         PROVE  n < m
    <3>1. CASE n \in 1..Len(log) /\ m \in 1..Len(log)
      BY <2>11, <2>18, <3>1 DEF LogOK, LogOf
    <3>2. ASSUME NEW k \in 1..Len(kinds), m = New(k) PROVE n < m
      <4>1. CASE n \in 1..Len(log)
        BY <2>5, <2>7, <3>2, <4>1
      <4>2. ASSUME NEW l \in 1..Len(kinds), n = New(l) PROVE n < m
        <5>1. kinds[k] = "Resolved" /\ kinds[l] = "Verdict"
          BY <2>12, <2>18, <3>2, <4>2
        <5>2. l = 1 /\ k # 1
          BY <2>8, <5>1
        <5>3. QED
          BY <2>5, <3>2, <4>2, <5>2 DEF New
      <4>3. QED
        BY <2>6, <4>1, <4>2
    <3>3. CASE m \in 1..Len(log) /\ n \notin 1..Len(log)
      <4>1. PICK l \in 1..Len(kinds) : n = New(l)
        BY <2>6, <3>3
      <4>2. j = i /\ kinds[l] = "Verdict"
        BY <2>12, <2>18, <4>1
      <4>3. a.status = "OPEN"
        BY <2>8, <4>2
      <4>4. Tells(log, m, i, "Resolved")
        BY <2>11, <2>18, <3>3, <4>2
      <4>5. a.status = "RESOLVED"
        BY <3>3, <4>4 DEF LogOK, LogOf, EventOK, Tells, a
      <4>6. QED
        BY <4>3, <4>5
    <3>4. QED
      BY <2>6, <3>1, <3>2, <3>3
  <2>19. LogOK'
    BY <2>13, <2>17, <2>18 DEF LogOK, LogOf
  <2>20. QED
    BY <2>1, <2>4, <2>5, <2>19
<1>3. QED
  BY <1>1, <1>2 DEF Transaction
-----------------------------------------------------------------------------
(* What a step must do to a row, a job and an event for them to stay good. *)
LEMMA RowKept ==
  ASSUME ChainInv, NEW i \in Ids, Facts!Advances(i), RowOK(i), NeverInvents(i),
         row'[i] = row[i]
  PROVE  RowOK(i)' /\ NeverInvents(i)'
<1>1. /\ assertion[i].status = "RESOLVED" \/ assertion[i].outcome = assertion[i].originalOutcome
      /\ assertion[i].originalOutcome \in Rulings \cup {"PENDING"}
  BY RecordFacts
<1>2. QED
  BY <1>1 DEF RowOK, NeverInvents, Facts!Advances

LEMMA JobKept ==
  ASSUME NEW i \in Ids, Facts!Advances(i), JobOK(i),
         job'[i] = job[i], logged'[i] = logged[i], row[i] # NoRow => row'[i] # NoRow
  PROVE  JobOK(i)'
<1>1. assertion[i].originalOutcome \in Rulings =>
        assertion'[i].originalOutcome = assertion[i].originalOutcome
  BY DEF Facts!Advances, Rulings
<1>2. QED
  BY <1>1 DEF JobOK

(* A row that has an outcome may be given another one the chain knows.     *)
RowMoves(i) ==
  /\ row[i] # NoRow => row'[i] # NoRow
  /\ row[i].outcome # "PENDING" => row'[i].outcome # "PENDING"
  /\ row[i].resolved => row'[i].resolved
  /\ logged[i] # <<>> => logged'[i] # <<>>

(* What was queued or overlapped once stays so.                            *)
Remembers ==
  /\ \A i \in Ids : job[i].state # "none" => job'[i].state # "none"
  /\ straggled => straggled'

Moved(i) ==
  \/ row'[i].outcome = row[i].outcome
  \/ row'[i].outcome = assertion'[i].outcome
  \/ row'[i].outcome = assertion'[i].originalOutcome /\ logged'[i] # <<>>
  \/ straggled

LEMMA HandledKept ==
  ASSUME LogOK, NEW n \in 1..Len(log), NEW i \in Ids, log[n].id = i, log'[n] = log[n],
         Facts!Advances(i), HandledOK(n), Remembers,
         RowMoves(i), log[n].kind = "Resolved" => Moved(i)
  PROVE  HandledOK(n)'
<1>1. /\ row'[i] # NoRow
      /\ log[n].kind = "Created" => job'[i].state # "none"
      /\ log[n].kind \in {"Verdict", "Resolved"} => row'[i].outcome # "PENDING"
      /\ log[n].kind = "Resolved" => row'[i].resolved
  BY DEF HandledOK, RowMoves, Remembers
<1>2. ASSUME log[n].kind = "Resolved"
      PROVE  \/ row'[i].outcome = assertion'[i].outcome
             \/ row'[i].outcome = assertion'[i].originalOutcome /\ logged'[i] # <<>>
             \/ straggled'
  <2>1. assertion'[i] = assertion[i]
    BY <1>2 DEF LogOK, LogOf, EventOK, Facts!Advances
  <2>2. \/ row[i].outcome = assertion[i].outcome
        \/ row[i].outcome = assertion[i].originalOutcome /\ logged[i] # <<>>
        \/ straggled
    BY <1>2 DEF HandledOK
  <2>3. QED
    BY <1>2, <2>1, <2>2 DEF Moved, RowMoves, Remembers
<1>3. QED
  BY <1>1, <1>2 DEF HandledOK

LEMMA EventIds ==
  ASSUME BackendTyped, NEW n \in 1..Len(log) PROVE log[n] \in Event /\ log[n].id \in Ids
<1>1. log[n] \in Event
  BY DEF BackendTyped
<1>2. QED
  BY <1>1 DEF Event

LEMMA HandledInLog ==
  ASSUME BackendTyped, NEW n \in Nat \ {0}, Handled(n) PROVE n \in 1..Len(log)
<1>1. Len(log) \in Nat /\ checkpoint \in 0..Len(log)
  BY DEF BackendTyped
<1>2. ASSUME NEW p \in Passes, n <= pass[p].at PROVE n <= Len(log)
  <2>1. pass[p].at \in Nat /\ pass[p].to \in 0..Len(log) /\ pass[p].at <= pass[p].to
    BY DEF BackendTyped
  <2>2. QED
    BY <1>1, <1>2, <2>1
<1>3. QED
  BY <1>1, <1>2 DEF Handled
-----------------------------------------------------------------------------
(* The chain moves, and the table does not.                                *)
LEMMA TransactionOK ==
  ASSUME ChainInv, ChainInv', \A i \in Ids : Facts!Advances(i), MirrorIInv, Transaction,
         UNCHANGED <<row, indexerVars, logged, faultVars>>,
         job' \in [Ids -> Job],
         \A i \in Ids : job'[i] = job[i] \/ (JobOK(i)' /\ job'[i].state # "none")
  PROVE  MirrorIInv'
<1>1. /\ log' \in Seq(Event) /\ LogOK'
      /\ Len(log) <= Len(log') /\ \A n \in 1..Len(log) : log'[n] = log[n]
  BY LogNext DEF MirrorIInv, BackendTyped
<1>2. BackendTyped'
  <2>1. Len(log) \in Nat /\ Len(log') \in Nat
    BY <1>1 DEF MirrorIInv, BackendTyped
  <2>2. \A m \in 0..Len(log) : m \in 0..Len(log')
    BY <1>1, <2>1
  <2>3. pass \in [Passes -> [at : Nat, to : 0..Len(log')]]
    BY <2>2 DEF MirrorIInv, BackendTyped
  <2>4. QED
    BY <1>1, <2>2, <2>3 DEF MirrorIInv, BackendTyped, indexerVars, faultVars
<1>3. \A i \in Ids : RowOK(i)' /\ NeverInvents(i)'
  BY RowKept DEF MirrorIInv
<1>4. \A i \in Ids : JobOK(i)'
  BY JobKept DEF MirrorIInv
<1>5. UNCHANGED <<checkpoint, pass, straggled>> /\ Remembers
  BY DEF indexerVars, Remembers
<1>6. Alone'
  BY <1>5 DEF MirrorIInv, Alone, Running, Indexer!Running
<1>7. ASSUME NEW n \in 1..Len(log'), Handled(n)' PROVE HandledOK(n)'
  <2>1. Handled(n)
    BY <1>5, <1>7 DEF Handled
  <2>2. n \in 1..Len(log)
    BY <2>1, HandledInLog DEF MirrorIInv
  <2>3. log[n].id \in Ids /\ log'[n] = log[n] /\ HandledOK(n)
    BY <1>1, <2>1, <2>2, EventIds DEF MirrorIInv
  <2>4. RowMoves(log[n].id) /\ Moved(log[n].id)
    BY DEF RowMoves, Moved
  <2>5. QED
    BY <1>5, <2>2, <2>3, <2>4, HandledKept DEF MirrorIInv
<1>8. QED
  BY <1>1, <1>2, <1>3, <1>4, <1>6, <1>7 DEF MirrorIInv

(* Neither the chain nor the table moves.                                  *)
LEMMA JobsOnly ==
  ASSUME ChainInv, ChainInv', \A i \in Ids : Facts!Advances(i), MirrorIInv,
         UNCHANGED <<assertion, log, row, indexerVars, logged, faultVars>>,
         job' \in [Ids -> Job],
         \A i \in Ids : job'[i] = job[i] \/ (JobOK(i)' /\ job'[i].state # "none")
  PROVE  MirrorIInv'
  BY TransactionOK DEF Transaction
-----------------------------------------------------------------------------
(* The queue.                                                              *)

(* A job without a judgment.                                               *)
Idles(j) ==
  /\ j \in Job
  /\ j.state # "none"
  /\ j.step = "load"
  /\ j.state \in {"waiting", "active"} => j.attempts < ATTEMPTS

LEMMA IdleOK ==
  ASSUME NEW i \in Ids, Facts!Advances(i), JobOK(i), logged'[i] = logged[i], Idles(job'[i])
  PROVE  JobOK(i)'
<1>1. assertion[i].originalOutcome \in Rulings =>
        assertion'[i].originalOutcome = assertion[i].originalOutcome
  BY DEF Facts!Advances, Rulings
<1>2. QED
  BY <1>1 DEF JobOK, Idles

LEMMA NewJobs ==
  /\ ATTEMPTS \in Nat /\ 0 < ATTEMPTS
  /\ NoJob \in Job /\ NoJob.state = "none" /\ NoJob.step = "load"
  /\ Idles([NoJob EXCEPT !.state = "waiting"])
  /\ Idles([NoJob EXCEPT !.state = "completed"])
  /\ Idles([NoJob EXCEPT !.state = "gone"])
<1>1. ATTEMPTS \in Nat /\ 0 < ATTEMPTS
  BY BackendAssumption
<1>2. QED
  BY <1>1 DEF Idles, NoJob, Job, Outcomes

LEMMA ThrownIdles ==
  ASSUME NEW i \in Ids, job \in [Ids -> Job], JobOK(i), job[i].state = "active"
  PROVE  Idles(Thrown(job[i]))
<1>1. job[i] \in Job
  OBVIOUS
<1>2. job[i].attempts \in 0..ATTEMPTS /\ job[i].attempts < ATTEMPTS /\ job[i].stalls \in 0..1
  BY <1>1 DEF JobOK, Job
<1>3. job[i].attempts + 1 \in 0..ATTEMPTS
  BY <1>2, NewJobs
<1>4. QED
  BY <1>2, <1>3 DEF Thrown, Idles, NoJob, Job, Outcomes

LEMMA StalledIdles ==
  ASSUME NEW i \in Ids, job \in [Ids -> Job], JobOK(i)
  PROVE  Stalled(job[i]) = job[i] \/ Idles(Stalled(job[i]))
<1>1. job[i] \in Job
  OBVIOUS
<1>2. CASE job[i].state = "active"
  <2>1. job[i].attempts \in 0..ATTEMPTS /\ job[i].attempts < ATTEMPTS
    BY <1>1, <1>2 DEF JobOK, Job
  <2>2. Stalled(job[i]) =
          [state |-> IF job[i].stalls = 0 THEN "waiting" ELSE "failed",
           attempts |-> job[i].attempts, stalls |-> 1, step |-> "load",
           decision |-> "PENDING"]
    BY <1>2 DEF Stalled, NoJob
  <2>3. QED
    BY <2>1, <2>2 DEF Idles, Job, Outcomes
<1>3. QED
  BY <1>2 DEF Stalled

LEMMA AddedIdles ==
  ASSUME NEW i \in Ids, job \in [Ids -> Job]
  PROVE  /\ Added(i) \in [Ids -> Job] /\ Added(i)[i].state # "none"
         /\ \A j \in Ids : Added(i)[j] = job[j] \/ Idles(Added(i)[j])
  BY NewJobs DEF Added, Idles

LEMMA QueueOK ==
  ASSUME ChainInv, ChainInv', \A i \in Ids : Facts!Advances(i), MirrorIInv, NEW i \in Ids,
         \/ Enqueue(i) \/ Forget(i) \/ Start(i) \/ Load(i) \/ JudgeThrows(i)
         \/ \E o \in Rulings : DecideOutcome(i, o)
  PROVE  MirrorIInv'
<1>1. job \in [Ids -> Job] /\ job[i] \in Job /\ JobOK(i)
  BY DEF MirrorIInv, BackendTyped
<1>2. UNCHANGED <<assertion, log, row, indexerVars, logged, faultVars>>
  BY DEF Enqueue, Forget, Start, Load, JudgeThrows, DecideOutcome, registryVars
<1>3. ASSUME NEW new, Idles(new), job' = [job EXCEPT ![i] = new] PROVE MirrorIInv'
  <2>1. job' \in [Ids -> Job] /\ job'[i] = new /\ \A j \in Ids \ {i} : job'[j] = job[j]
    BY <1>1, <1>3 DEF Idles
  <2>2. JobOK(i)' /\ job'[i].state # "none"
    BY <1>1, <1>2, <1>3, <2>1, IdleOK DEF Idles
  <2>3. QED
    BY <1>2, <2>1, <2>2, JobsOnly
<1>4. CASE Enqueue(i)
  <2>1. ASSUME NEW j \in Ids PROVE job'[j] = job[j] \/ (JobOK(j)' /\ job'[j].state # "none")
    <3>1. job'[j] = job[j] \/ Idles(job'[j])
      BY <1>1, <1>4, AddedIdles DEF Enqueue
    <3>2. QED
      BY <1>2, <3>1, IdleOK DEF Idles, MirrorIInv
  <2>2. QED
    BY <1>1, <1>2, <1>4, <2>1, AddedIdles, JobsOnly DEF Enqueue
<1>5. CASE Forget(i)
  BY <1>3, <1>5, NewJobs DEF Forget
<1>6. CASE JudgeThrows(i)
  BY <1>1, <1>3, <1>6, ThrownIdles DEF JudgeThrows
<1>7. CASE Start(i)
  <2>1. job' = [job EXCEPT ![i] = [job[i] EXCEPT !.state = "active"]]
    BY <1>1, <1>7 DEF Start
  <2>2. job[i].step = "load" /\ job[i].attempts < ATTEMPTS
    BY <1>1, <1>7 DEF Start, JobOK
  <2>3. Idles([job[i] EXCEPT !.state = "active"])
    BY <1>1, <2>2 DEF Idles, Job
  <2>4. QED
    BY <1>3, <2>1, <2>3
<1>8. ASSUME NEW step \in {"decide", "submit"}, NEW o \in Rulings \cup {job[i].decision},
             step = "submit" => o \in Rulings, job[i].state = "active", row[i] # NoRow,
             job' = [job EXCEPT ![i] = [job[i] EXCEPT !.step = step, !.decision = o]]
      PROVE  MirrorIInv'
  <2>1. o \in Outcomes
    BY <1>1 DEF Job, Rulings, Outcomes
  <2>2. /\ job'[i].state = "active" /\ job'[i].attempts = job[i].attempts
        /\ job'[i].step = step /\ job'[i].decision = o
        /\ job' \in [Ids -> Job] /\ \A j \in Ids \ {i} : job'[j] = job[j]
    BY <1>1, <1>8, <2>1 DEF Job
  <2>3. assertion'[i] = assertion[i] /\ logged'[i] = logged[i] /\ row'[i] = row[i]
    BY <1>2
  <2>4. JobOK(i)' /\ job'[i].state # "none"
    BY <1>1, <1>8, <2>2, <2>3 DEF JobOK
  <2>5. QED
    BY <1>2, <2>2, <2>4, JobsOnly
<1>9. CASE Load(i)
  <2>1. job' = [job EXCEPT ![i] = [job[i] EXCEPT !.step = "decide",
                                                 !.decision = job[i].decision]]
    BY <1>1, <1>9 DEF Load, GoTo, Job
  <2>2. QED
    BY <1>8, <1>9, <2>1 DEF Load, At
<1>10. ASSUME NEW o \in Rulings, DecideOutcome(i, o) PROVE MirrorIInv'
  <2>1. job' = [job EXCEPT ![i] = [job[i] EXCEPT !.step = "submit", !.decision = o]]
    BY <1>1, <1>10 DEF DecideOutcome
  <2>2. row[i] # NoRow /\ job[i].state = "active"
    BY <1>1, <1>10 DEF DecideOutcome, At, JobOK
  <2>3. QED
    BY <1>8, <2>1, <2>2
<1>11. QED
  BY <1>4, <1>5, <1>6, <1>7, <1>9, <1>10
-----------------------------------------------------------------------------
(* The worker.                                                             *)

(* The chain rests, and no pass handles a new event.                       *)
LEMMA QuietOK ==
  ASSUME \A i \in Ids : Facts!Advances(i), MirrorIInv,
         UNCHANGED <<assertion, log>>, BackendTyped', Alone', Remembers,
         \A n \in 1..Len(log) : Handled(n)' => Handled(n),
         \A i \in Ids : /\ RowOK(i)' /\ NeverInvents(i)' /\ JobOK(i)'
                        /\ RowMoves(i) /\ Moved(i)
  PROVE  MirrorIInv'
<1>1. LogOK'
  BY LogAside DEF MirrorIInv
<1>2. ASSUME NEW n \in 1..Len(log'), Handled(n)' PROVE HandledOK(n)'
  <2>1. n \in 1..Len(log) /\ Handled(n) /\ HandledOK(n) /\ log'[n] = log[n]
    BY <1>2 DEF MirrorIInv
  <2>2. log[n].id \in Ids
    BY <2>1, EventIds DEF MirrorIInv
  <2>3. QED
    BY <2>1, <2>2, HandledKept DEF MirrorIInv
<1>3. QED
  BY <1>1, <1>2 DEF MirrorIInv

(* The passes rest as well.                                                *)
LEMMA PassesRest ==
  ASSUME MirrorIInv, UNCHANGED <<checkpoint, pass, straggled>>
  PROVE  Alone' /\ \A n \in 1..Len(log) : Handled(n)' => Handled(n)
  BY DEF MirrorIInv, Alone, Handled, Running, Indexer!Running

(* The chain takes a verdict once, so that nothing was logged before it.   *)
LEMMA SubmitOK ==
  ASSUME ChainInv, ChainInv', \A i \in Ids : Facts!Advances(i), MirrorIInv,
         NEW i \in Ids, Submit(i) \/ SubmitUnheard(i)
  PROVE  MirrorIInv'
<1> DEFINE o == job[i].decision
<1>1. job \in [Ids -> Job] /\ job[i] \in Job /\ JobOK(i)
  BY DEF MirrorIInv, BackendTyped
<1>2. /\ job[i].state = "active" /\ job[i].step = "submit" /\ SendVerdict(i, o)
      /\ UNCHANGED <<row, logged, indexerVars, faultVars>>
  BY DEF Submit, SubmitUnheard, At
<1>3. o \in Rulings /\ row[i] # NoRow
  BY <1>1, <1>2 DEF JobOK
<1>4. /\ Transaction
      /\ assertion[i].status = "OPEN" /\ assertion'[i].originalOutcome = o
  BY <1>2, <1>3, VerdictTransacts
<1>5. logged[i] = <<>>
  <2>1. assertion[i].originalOutcome = "PENDING"
    BY <1>4, RecordFacts
  <2>2. QED
    BY <1>1, <2>1 DEF JobOK, Rulings
<1>6. CASE Submit(i)
  <2>1. /\ job'[i].state = "active" /\ job'[i].attempts = job[i].attempts
        /\ job'[i].step = "log" /\ job'[i].decision = o
        /\ job' \in [Ids -> Job] /\ \A j \in Ids \ {i} : job'[j] = job[j]
    BY <1>1, <1>2, <1>6 DEF Submit, GoTo, Job
  <2>2. JobOK(i)' /\ job'[i].state # "none"
    BY <1>1, <1>2, <1>3, <1>4, <1>5, <2>1 DEF JobOK
  <2>3. QED
    BY <1>2, <1>4, <2>1, <2>2, TransactionOK
<1>7. CASE SubmitUnheard(i)
  <2>1. Idles(Thrown(job[i]))
    BY <1>1, <1>2, ThrownIdles
  <2>2. /\ job'[i] = Thrown(job[i])
        /\ job' \in [Ids -> Job] /\ \A j \in Ids \ {i} : job'[j] = job[j]
    BY <1>1, <1>7, <2>1 DEF SubmitUnheard, Idles
  <2>3. JobOK(i)' /\ job'[i].state # "none"
    BY <1>1, <1>2, <2>1, <2>2, IdleOK DEF Idles
  <2>4. QED
    BY <1>2, <1>4, <2>2, <2>3, TransactionOK
<1>8. QED
  BY <1>6, <1>7

LEMMA InsertLogOK ==
  ASSUME ChainInv, \A i \in Ids : Facts!Advances(i), MirrorIInv, NEW i \in Ids, InsertLog(i)
  PROVE  MirrorIInv'
<1> DEFINE o == job[i].decision
<1>1. /\ job \in [Ids -> Job] /\ job[i] \in Job /\ JobOK(i)
      /\ logged \in [Ids -> Seq(Rulings)]
  BY DEF MirrorIInv, BackendTyped
<1>2. /\ job[i].state = "active" /\ job[i].step = "log"
      /\ UNCHANGED <<assertion, log, row, indexerVars, faultVars>>
  BY DEF InsertLog, At, registryVars
<1>3. o \in Rulings /\ o = assertion[i].originalOutcome /\ row[i] # NoRow /\ logged[i] = <<>>
  BY <1>1, <1>2 DEF JobOK
<1>4. /\ logged' \in [Ids -> Seq(Rulings)] /\ logged'[i] = <<o>>
      /\ \A j \in Ids \ {i} : logged'[j] = logged[j]
  BY <1>1, <1>3 DEF InsertLog
<1>5. /\ job'[i].state = "active" /\ job'[i].attempts = job[i].attempts
      /\ job'[i].step = "update" /\ job'[i].decision = o
      /\ job' \in [Ids -> Job] /\ \A j \in Ids \ {i} : job'[j] = job[j]
  BY <1>1, <1>2 DEF InsertLog, GoTo, Job
<1>6. BackendTyped'
  BY <1>2, <1>4, <1>5 DEF MirrorIInv, BackendTyped, indexerVars, faultVars
<1>7. JobOK(i)'
  BY <1>1, <1>2, <1>3, <1>4, <1>5 DEF JobOK
<1>8. \A j \in Ids \ {i} : JobOK(j)'
  BY <1>2, <1>4, <1>5, JobKept DEF MirrorIInv
<1>9. \A j \in Ids : RowOK(j)' /\ NeverInvents(j)'
  BY <1>2, RowKept DEF MirrorIInv
<1>10. \A j \in Ids : RowMoves(j) /\ Moved(j)
  BY <1>2, <1>3, <1>4 DEF RowMoves, Moved
<1>11. UNCHANGED <<checkpoint, pass, straggled>> /\ Remembers
  BY <1>2, <1>5 DEF indexerVars, Remembers
<1>12. QED
  BY <1>2, <1>6, <1>7, <1>8, <1>9, <1>10, <1>11, PassesRest, QuietOK

(* The late write of the worker is of the call on record, which is logged. *)
LEMMA UpdateOutcomeOK ==
  ASSUME ChainInv, \A i \in Ids : Facts!Advances(i), MirrorIInv, NEW i \in Ids,
         UpdateOutcome(i)
  PROVE  MirrorIInv'
<1> DEFINE o == job[i].decision
           a == assertion[i]
<1>1. /\ job \in [Ids -> Job] /\ job[i] \in Job /\ JobOK(i)
      /\ row \in [Ids -> Row] /\ row[i] \in Row /\ RowOK(i) /\ NeverInvents(i)
  BY DEF MirrorIInv, BackendTyped
<1>2. /\ job[i].state = "active" /\ job[i].step = "update"
      /\ UNCHANGED <<assertion, log, logged, indexerVars, faultVars>>
  BY DEF UpdateOutcome, At, registryVars
<1>3. /\ o \in Rulings /\ o = a.originalOutcome /\ row[i] # NoRow /\ logged[i] # <<>>
      /\ o # "PENDING" /\ o \in Outcomes
  BY <1>1, <1>2 DEF JobOK, Rulings, Outcomes
<1>4. /\ row'[i].mode = row[i].mode /\ row'[i].outcome = o
      /\ row'[i].resolved = (row[i].resolved \/ row[i].mode = "INSTANT")
      /\ row'[i] \in Row /\ row' \in [Ids -> Row]
      /\ \A j \in Ids \ {i} : row'[j] = row[j]
  BY <1>1, <1>3 DEF UpdateOutcome, Row
<1>5. row[i].mode = "INSTANT" => a.status = "RESOLVED"
  BY <1>1, <1>3, RecordFacts DEF RowOK
<1>6. /\ job'[i] = [NoJob EXCEPT !.state = "completed"]
      /\ job' \in [Ids -> Job] /\ \A j \in Ids \ {i} : job'[j] = job[j]
  BY <1>1, NewJobs DEF UpdateOutcome, Idles
<1>7. row'[i] # NoRow
  BY <1>3, <1>4 DEF NoRow
<1>8. JobOK(i)'
  BY <1>1, <1>2, <1>6, NewJobs, IdleOK
<1>9. RowOK(i)' /\ NeverInvents(i)'
  BY <1>1, <1>2, <1>3, <1>4, <1>5 DEF RowOK, NeverInvents
<1>10. RowMoves(i) /\ Moved(i)
  BY <1>2, <1>3, <1>4, <1>7 DEF RowMoves, Moved
<1>11. ASSUME NEW j \in Ids \ {i}
       PROVE  JobOK(j)' /\ RowOK(j)' /\ NeverInvents(j)' /\ RowMoves(j) /\ Moved(j)
  <2>1. job'[j] = job[j] /\ row'[j] = row[j] /\ logged'[j] = logged[j]
    BY <1>2, <1>4, <1>6
  <2>2. QED
    BY <2>1, JobKept, RowKept DEF MirrorIInv, RowMoves, Moved
<1>12. BackendTyped'
  BY <1>2, <1>4, <1>6 DEF MirrorIInv, BackendTyped, indexerVars, faultVars
<1>13. UNCHANGED <<checkpoint, pass, straggled>> /\ Remembers
  BY <1>2, <1>6, NewJobs DEF indexerVars, Remembers, Idles
<1>14. QED
  BY <1>2, <1>8, <1>9, <1>10, <1>11, <1>12, <1>13, PassesRest, QuietOK
-----------------------------------------------------------------------------
(* The indexer.                                                            *)

(* A tick starts a pass, or one saves its checkpoint or is over.           *)
LEMMA PassOK ==
  ASSUME ChainInv, \A i \in Ids : Facts!Advances(i), MirrorIInv,
         TickRejects \/ \E p \in Passes : StartPass(p) \/ SaveCheckpoint(p)
  PROVE  MirrorIInv'
<1>1. /\ UNCHANGED <<assertion, log, row, job, logged, badReads>>
      /\ faults' \in 0..MaxFaults
  BY BackendAssumption
     DEF StartPass, SaveCheckpoint, TickRejects, Indexer!SaveCheckpoint, Indexer!Throw,
         Indexer!NeighbourThrows, Indexer!Fault, Indexer!IndexerAssumption, registryVars,
         faultVars, MirrorIInv, BackendTyped
<1>2. /\ \A i \in Ids : RowOK(i)' /\ NeverInvents(i)' /\ JobOK(i)' /\ RowMoves(i) /\ Moved(i)
      /\ LogOK
  BY <1>1, RowKept, JobKept DEF MirrorIInv, RowMoves, Moved
<1>3. /\ Len(log) \in Nat /\ checkpoint \in 0..Len(log)
      /\ pass \in [Passes -> [at : Nat, to : 0..Len(log)]]
      /\ \A p \in Passes : /\ pass[p].at \in Nat /\ pass[p].to \in 0..Len(log)
                           /\ pass[p].at <= pass[p].to
      /\ NoPass \in [at : Nat, to : 0..Len(log)] /\ NoPass.at = 0 /\ NoPass.to = 0
      /\ awaited \subseteq Passes /\ straggled \in BOOLEAN
  BY DEF MirrorIInv, BackendTyped, NoPass, Indexer!NoPass
<1>4. ASSUME checkpoint' \in 0..Len(log), pass' \in [Passes -> [at : Nat, to : 0..Len(log)]],
             \A p \in Passes : pass'[p].at <= pass'[p].to,
             awaited' \subseteq Passes, straggled' \in BOOLEAN, straggled => straggled',
             Alone', \A n \in 1..Len(log) : Handled(n)' => Handled(n)
      PROVE  MirrorIInv'
  <2>1. BackendTyped'
    BY <1>1, <1>4 DEF MirrorIInv, BackendTyped
  <2>2. Remembers
    BY <1>1, <1>4 DEF Remembers
  <2>3. QED
    BY <1>1, <1>2, <1>4, <2>1, <2>2, QuietOK
<1>5. ASSUME NEW p \in Passes, StartPass(p) PROVE MirrorIInv'
  <2>1. PICK m \in (checkpoint + 1)..Len(log) :
               pass' = [pass EXCEPT ![p] = [at |-> checkpoint, to |-> m]]
    BY <1>5 DEF StartPass
  <2>2. /\ checkpoint' = checkpoint /\ awaited' = {p} /\ ~Running(p)
        /\ straggled' = (straggled \/ \E q \in Passes : Running(q))
    BY <1>5 DEF StartPass, Indexer!Fresh, Running
  <2>3. /\ pass'[p].at = checkpoint /\ pass'[p].to = m /\ m \in 0..Len(log) /\ checkpoint <= m
        /\ \A q \in Passes \ {p} : pass'[q] = pass[q]
        /\ pass' \in [Passes -> [at : Nat, to : 0..Len(log)]]
    BY <1>3, <2>1
  <2>4. Alone'
    <3> SUFFICES ASSUME ~straggled' PROVE Alone'
      BY DEF Alone
    <3>1. \A q \in Passes : ~Running(q)
      BY <2>2
    <3>2. \A q \in Passes : Running(q)' => q = p
      BY <2>3, <3>1 DEF Running, Indexer!Running
    <3>3. QED
      BY <1>3, <2>2, <2>3, <3>2 DEF Alone
  <2>5. \A n \in 1..Len(log) : Handled(n)' => Handled(n)
    BY <2>2, <2>3 DEF Handled
  <2>6. \A q \in Passes : pass'[q].at <= pass'[q].to
    BY <1>3, <2>3
  <2>7. QED
    BY <1>3, <1>4, <2>2, <2>3, <2>4, <2>5, <2>6
(* Whoever ends had handled all that it saves.                             *)
<1>6. ASSUME NEW p \in Passes, Running(p), pass' = [pass EXCEPT ![p] = NoPass],
             checkpoint' \in {checkpoint, pass[p].at}, awaited' = awaited \ {p},
             straggled' = straggled
      PROVE  MirrorIInv'
  <2>1. /\ pass'[p] = NoPass /\ \A q \in Passes \ {p} : pass'[q] = pass[q]
        /\ pass' \in [Passes -> [at : Nat, to : 0..Len(log)]]
    BY <1>3, <1>6
  <2>2. checkpoint' \in 0..Len(log)
    BY <1>3, <1>6
  <2>3. Alone'
    <3> SUFFICES ASSUME ~straggled', NEW q \in Passes, Running(q)' PROVE FALSE
      BY DEF Alone
    <3>1. Running(q) /\ q # p
      BY <2>1 DEF Running, Indexer!Running, NoPass
    <3>2. QED
      BY <1>6, <3>1 DEF MirrorIInv, Alone
  <2>4. ASSUME NEW n \in 1..Len(log), Handled(n)' PROVE Handled(n)
    <3>1. CASE n <= checkpoint'
      BY <1>6, <3>1 DEF Handled
    <3>2. ASSUME NEW q \in Passes, n <= pass'[q].at PROVE Handled(n)
      <4>1. q # p
        BY <1>3, <2>1, <3>2
      <4>2. QED
        BY <2>1, <3>2, <4>1 DEF Handled
    <3>3. QED
      BY <2>4, <3>1, <3>2 DEF Handled
  <2>5. ASSUME NEW q \in Passes PROVE pass'[q].at <= pass'[q].to
    <3>1. CASE q = p
      BY <1>3, <2>1, <3>1
    <3>2. CASE q # p
      BY <1>3, <2>1, <3>2
    <3>3. QED
      BY <3>1, <3>2
  <2>6. QED
    BY <1>3, <1>4, <1>6, <2>1, <2>2, <2>3, <2>4, <2>5
<1>7. ASSUME NEW p \in Passes, SaveCheckpoint(p) PROVE MirrorIInv'
  <2>1. /\ Running(p) /\ pass[p].at = pass[p].to /\ checkpoint' = pass[p].to
        /\ pass' = [pass EXCEPT ![p] = NoPass] /\ awaited' = awaited \ {p}
        /\ straggled' = straggled
    BY <1>3, <1>7 DEF SaveCheckpoint, Indexer!SaveCheckpoint, Indexer!End, Indexer!Pending,
                      Running, NoPass
  <2>2. QED
    BY <1>6, <2>1
<1>8. ASSUME NEW p \in Passes, Indexer!Throw(p) PROVE MirrorIInv'
  <2>1. /\ Running(p) /\ checkpoint' = checkpoint
        /\ pass' = [pass EXCEPT ![p] = NoPass] /\ awaited' = awaited \ {p}
        /\ straggled' = straggled
    BY <1>8 DEF Indexer!Throw, Indexer!Fault, Running, NoPass
  <2>2. QED
    BY <1>6, <2>1
<1>9. CASE Indexer!NeighbourThrows
  <2>1. UNCHANGED <<checkpoint, pass, straggled>> /\ awaited' = {}
    BY <1>9 DEF Indexer!NeighbourThrows, Indexer!Fault
  <2>2. QED
    BY <1>3, <1>4, <2>1, PassesRest
<1>10. QED
  BY <1>5, <1>7, <1>8, <1>9 DEF TickRejects

(* An event says what is so, and follows the creation it speaks of.        *)
LEMMA NextEvent ==
  ASSUME MirrorIInv, NEW p \in Passes, NEW n \in 1..Len(log), n <= pass[p].at + 1
  PROVE  LET e == log[n] IN
         /\ e \in Event /\ e.id \in Ids /\ EventOK(e, assertion[e.id])
         /\ e.kind # "Created" => row[e.id] # NoRow
<1> DEFINE e == log[n]
<1>1. e \in Event /\ e.id \in Ids /\ pass[p].at \in Nat
  BY EventIds DEF MirrorIInv, BackendTyped
<1>2. EventOK(e, assertion[e.id]) /\ \E m \in 1..n : Tells(log, m, e.id, "Created")
  BY DEF MirrorIInv, LogOK, LogOf
<1>3. ASSUME e.kind # "Created" PROVE row[e.id] # NoRow
  <2>1. PICK m \in 1..n : Tells(log, m, e.id, "Created")
    BY <1>2
  <2>2. m # n /\ log[m].id = e.id
    BY <1>3, <2>1 DEF Tells
  <2>3. m \in 1..Len(log) /\ m <= pass[p].at
    BY <1>1, <2>2
  <2>4. HandledOK(m)
    BY <2>3 DEF MirrorIInv, Handled
  <2>5. QED
    BY <2>2, <2>4 DEF HandledOK
<1>4. QED
  BY <1>1, <1>2, <1>3

LEMMA InsertRowOK ==
  ASSUME ChainInv, \A i \in Ids : Facts!Advances(i), MirrorIInv, NEW p \in Passes, InsertRow(p)
  PROVE  MirrorIInv'
<1>1. /\ UNCHANGED <<assertion, log, indexerVars, job, logged, faultVars>>
      /\ row \in [Ids -> Row]
      /\ pass[p].at \in Nat /\ pass[p].at < pass[p].to /\ pass[p].to \in 0..Len(log)
  BY DEF InsertRow, Indexer!Pending, registryVars, MirrorIInv, BackendTyped
<1>2. PICK n \in 1..Len(log) : n = pass[p].at + 1
  BY <1>1
<1> DEFINE e == log[n]
           i == e.id
           new == [NoRow EXCEPT !.mode = e.mode]
<1>3. e \in Event /\ i \in Ids /\ EventOK(e, assertion[i]) /\ e.mode \in Modes
  BY <1>2, NextEvent DEF Event
<1>4. row[i] = NoRow /\ row' = [row EXCEPT ![i] = new]
  BY <1>1, <1>2 DEF InsertRow, Indexer!Upcoming
<1>5. /\ new \in Row /\ new # NoRow /\ new.mode = e.mode /\ new.outcome = "PENDING"
      /\ ~new.resolved /\ NoRow.outcome = "PENDING" /\ ~NoRow.resolved
  BY <1>3 DEF NoRow, Row, Modes, Outcomes
<1> HIDE DEF new, i
<1>6. row' \in [Ids -> Row] /\ row'[i] = new /\ \A j \in Ids \ {i} : row'[j] = row[j]
  BY <1>1, <1>3, <1>4, <1>5
<1>7. ASSUME NEW j \in Ids
      PROVE  RowOK(j)' /\ NeverInvents(j)' /\ JobOK(j)' /\ RowMoves(j) /\ Moved(j)
  <2>1. RowOK(j) /\ NeverInvents(j) /\ JobOK(j)
    BY DEF MirrorIInv
  <2>2. RowOK(j)' /\ NeverInvents(j)' /\ RowMoves(j) /\ Moved(j)
    <3>1. CASE j # i
      BY <1>1, <1>6, <2>1, <3>1 DEF RowOK, NeverInvents, RowMoves, Moved
    <3>2. CASE j = i
      BY <1>1, <1>3, <1>4, <1>5, <1>6, <3>2 DEF RowOK, NeverInvents, EventOK, RowMoves, Moved
    <3>3. QED
      BY <3>1, <3>2
  <2>3. QED
    BY <1>1, <2>1, <2>2, JobKept DEF RowMoves
<1>8. BackendTyped'
  BY <1>1, <1>6 DEF MirrorIInv, BackendTyped, indexerVars, faultVars
<1>9. UNCHANGED <<checkpoint, pass, straggled>> /\ Remembers
  BY <1>1 DEF indexerVars, Remembers
<1>10. QED
  BY <1>1, <1>7, <1>8, <1>9, PassesRest, QuietOK

(* A row that is there is given an outcome the chain knows.                *)
LEMMA WriteOK ==
  ASSUME MirrorIInv, UNCHANGED <<assertion, logged>>, NEW i \in Ids, row[i] # NoRow,
         NEW o \in Rulings, o \in {assertion[i].originalOutcome, assertion[i].outcome},
         NEW new \in Row, new.mode = row[i].mode, new.outcome = o,
         row[i].resolved => new.resolved,
         new.resolved => assertion[i].status = "RESOLVED",
         row' = [row EXCEPT ![i] = new]
  PROVE  /\ row' \in [Ids -> Row] /\ row'[i] = new /\ new # NoRow
         /\ \A j \in Ids : RowOK(j)' /\ NeverInvents(j)' /\ RowMoves(j)
         /\ \A j \in Ids \ {i} : Moved(j)
<1>1. row' \in [Ids -> Row] /\ row'[i] = new /\ \A j \in Ids \ {i} : row'[j] = row[j]
  BY DEF MirrorIInv, BackendTyped
<1>2. new.outcome # "PENDING" /\ new # NoRow
  BY DEF Rulings, NoRow
<1>3. RowOK(i)' /\ NeverInvents(i)' /\ RowMoves(i)
  BY <1>1, <1>2 DEF MirrorIInv, RowOK, NeverInvents, RowMoves
<1>4. ASSUME NEW j \in Ids \ {i}
      PROVE  RowOK(j)' /\ NeverInvents(j)' /\ RowMoves(j) /\ Moved(j)
  BY <1>1 DEF MirrorIInv, RowOK, NeverInvents, RowMoves, Moved
<1>5. QED
  BY <1>1, <1>2, <1>3, <1>4

(* A pass handles one more event.  A row whose end was handled before may  *)
(* only move as the chain does.                                            *)
LEMMA AheadOK ==
  ASSUME \A i \in Ids : Facts!Advances(i), MirrorIInv,
         UNCHANGED <<assertion, log, checkpoint, awaited, straggled, logged, faults>>,
         NEW p \in Passes, pass[p].at < pass[p].to,
         NEW n \in 1..Len(log), n = pass[p].at + 1, pass' = [pass EXCEPT ![p].at = n],
         row' \in [Ids -> Row], job' \in [Ids -> Job], badReads' \in 0..MaxBadReads,
         \A i \in Ids : RowOK(i)' /\ NeverInvents(i)' /\ JobOK(i)' /\ RowMoves(i),
         \A i \in Ids : job[i].state # "none" => job'[i].state # "none",
         \A i \in Ids, m \in 1..Len(log) :
           Handled(m) /\ Tells(log, m, i, "Resolved") => Moved(i),
         HandledOK(n)'
  PROVE  MirrorIInv'
<1>1. LogOK'
  BY LogAside DEF MirrorIInv
<1>2. /\ pass \in [Passes -> [at : Nat, to : 0..Len(log)]] /\ Len(log) \in Nat
      /\ \A q \in Passes : pass[q].at \in Nat /\ pass[q].to \in 0..Len(log)
                           /\ pass[q].at <= pass[q].to
  BY DEF MirrorIInv, BackendTyped
<1>3. /\ pass'[p].at = n /\ pass'[p].to = pass[p].to
      /\ \A q \in Passes \ {p} : pass'[q] = pass[q]
      /\ pass' \in [Passes -> [at : Nat, to : 0..Len(log)]]
      /\ \A q \in Passes : pass'[q].at <= pass'[q].to
  BY <1>2
<1>4. BackendTyped'
  BY <1>3 DEF MirrorIInv, BackendTyped
<1>5. Alone'
  <2>1. \A q \in Passes : Running(q)' => Running(q)
    <3>1. pass[p] # [at |-> 0, to |-> 0]
      BY <1>2
    <3>2. QED
      BY <1>3, <3>1 DEF Running, Indexer!Running, Indexer!NoPass
  <2>2. QED
    BY <1>2, <1>3, <2>1 DEF MirrorIInv, BackendTyped, Alone
<1>6. ASSUME NEW m \in 1..Len(log'), Handled(m)', m # n PROVE HandledOK(m)'
  <2>1. m \in 1..Len(log) /\ log'[m] = log[m]
    BY <1>6
  <2>2. Handled(m)
    <3>1. ASSUME NEW q \in Passes, m <= pass'[q].at PROVE m <= pass[q].at
      BY <1>2, <1>3, <1>6, <2>1, <3>1
    <3>2. QED
      BY <1>6, <3>1 DEF Handled
  <2>3. log[m].id \in Ids
    BY <2>1, EventIds DEF MirrorIInv
  <2>4. log[m].kind = "Resolved" => Moved(log[m].id)
    BY <2>1, <2>2, <2>3 DEF Tells
  <2>5. Remembers
    BY DEF Remembers
  <2>6. QED
    BY <2>1, <2>2, <2>3, <2>4, <2>5, HandledKept DEF MirrorIInv
<1>7. QED
  BY <1>1, <1>4, <1>5, <1>6 DEF MirrorIInv

(* Alone, a pass has before it whatever was handled.                       *)
LEMMA AloneHandled ==
  ASSUME MirrorIInv, ~straggled, NEW p \in Passes, pass[p].at < pass[p].to,
         NEW m \in 1..Len(log), Handled(m)
  PROVE  m <= pass[p].at
<1>1. /\ checkpoint \in Nat
      /\ \A q \in Passes : pass[q].at \in Nat /\ pass[q].to \in Nat
  BY DEF MirrorIInv, BackendTyped
<1>2. Running(p) /\ checkpoint <= pass[p].at
  BY <1>1 DEF MirrorIInv, Alone, Running, Indexer!Running, Indexer!NoPass
<1>3. ASSUME NEW q \in Passes, m <= pass[q].at PROVE q = p
  <2>1. Running(q)
    BY <1>1, <1>3 DEF Running, Indexer!Running, Indexer!NoPass
  <2>2. QED
    BY <1>2, <2>1 DEF MirrorIInv, Alone
<1>4. QED
  BY <1>1, <1>2, <1>3 DEF Handled

LEMMA HandleEventOK ==
  ASSUME ChainInv, \A i \in Ids : Facts!Advances(i), MirrorIInv, NEW p \in Passes,
         HandleEvent(p)
  PROVE  MirrorIInv'
<1>1. /\ pass[p].at < pass[p].to /\ pass[p].to \in 0..Len(log) /\ pass[p].at \in Nat
      /\ UNCHANGED <<assertion, log, checkpoint, awaited, straggled, logged, faults>>
      /\ row \in [Ids -> Row] /\ job \in [Ids -> Job] /\ badReads \in 0..MaxBadReads
  BY DEF HandleEvent, Indexer!HandleNext, Indexer!Pending, registryVars, MirrorIInv,
         BackendTyped
<1>2. PICK n \in 1..Len(log) : n = pass[p].at + 1
  BY <1>1
<1> DEFINE e == log[n]
           i == e.id
           a == assertion[i]
<1>3. /\ e \in Event /\ i \in Ids /\ EventOK(e, a)
      /\ e.kind # "Created" => row[i] # NoRow
  BY <1>2, NextEvent
<1>4. /\ pass' = [pass EXCEPT ![p].at = n]
      /\ HandleCreated(e) \/ HandleVerdict(e) \/ HandleChallenged(e) \/ HandleResolved(e)
  BY <1>2 DEF HandleEvent, Indexer!HandleNext, Indexer!Upcoming
<1>5. log'[n] = log[n] /\ assertion'[i] = assertion[i] /\ logged'[i] = logged[i]
  BY <1>1
<1>6. ASSUME UNCHANGED job, \A j \in Ids : RowMoves(j) PROVE \A j \in Ids : JobOK(j)'
  BY <1>1, <1>6, JobKept DEF MirrorIInv, RowMoves
<1> HIDE DEF e, i, a
<1>7. CASE HandleCreated(e)
  <2>1. /\ row' = row /\ row[i] # NoRow /\ job' = Added(i) /\ badReads' = badReads
        /\ e.kind = "Created"
    BY <1>7 DEF HandleCreated, i
  <2>2. \A j \in Ids : RowOK(j)' /\ NeverInvents(j)' /\ RowMoves(j) /\ Moved(j)
    BY <1>1, <2>1 DEF MirrorIInv, RowOK, NeverInvents, RowMoves, Moved
  <2>3. ASSUME NEW j \in Ids
        PROVE  JobOK(j)' /\ (job[j].state # "none" => job'[j].state # "none")
    <3>1. JobOK(j) /\ logged'[j] = logged[j] /\ row'[j] = row[j]
      BY <1>1, <2>1 DEF MirrorIInv
    <3>2. job'[j] = job[j] \/ Idles(job'[j])
      BY <1>1, <1>3, <2>1, AddedIdles
    <3>3. QED
      BY <3>1, <3>2, JobKept, IdleOK DEF Idles
  <2>4. job' \in [Ids -> Job] /\ job'[i].state # "none"
    BY <1>1, <1>3, <2>1, AddedIdles
  <2>5. HandledOK(n)'
    BY <1>5, <2>1, <2>4 DEF HandledOK, e, i
  <2>6. QED
    BY <1>1, <1>2, <1>4, <2>1, <2>2, <2>3, <2>4, <2>5, AheadOK
<1>8. CASE HandleChallenged(e)
  <2>1. e.kind = "Challenged" /\ UNCHANGED <<row, job, badReads>>
    BY <1>8 DEF HandleChallenged
  <2>2. \A j \in Ids : RowOK(j)' /\ NeverInvents(j)' /\ RowMoves(j) /\ Moved(j)
    BY <1>1, <2>1 DEF MirrorIInv, RowOK, NeverInvents, RowMoves, Moved
  <2>3. HandledOK(n)'
    BY <1>3, <1>5, <2>1 DEF HandledOK, e, i
  <2>4. QED
    BY <1>1, <1>2, <1>4, <1>6, <2>1, <2>2, <2>3, AheadOK
<1>9. CASE HandleVerdict(e)
  <2>1. /\ e.kind = "Verdict" /\ row[i] # NoRow /\ row[i] \in Row /\ a.period \in Nat
        /\ e.outcome = a.originalOutcome /\ e.outcome \in Rulings /\ e.outcome \in Outcomes
        /\ row[i].resolved => a.status = "RESOLVED"
    <3>1. a.period \in Nat
      BY <1>3, RecordTyped DEF a, Facts!Assertion
    <3>2. row[i].resolved => a.status = "RESOLVED"
      BY <1>3 DEF MirrorIInv, NeverInvents, a
    <3>3. QED
      BY <1>1, <1>3, <1>9, <3>1, <3>2 DEF HandleVerdict, EventOK, Rulings, Outcomes
  <2>2. PICK new \in {[row[i] EXCEPT !.outcome = e.outcome, !.verdicted = TRUE,
                                     !.period = a.period],
                      [row[i] EXCEPT !.outcome = e.outcome, !.period = 0]} :
               row' = [row EXCEPT ![i] = new]
    BY <1>1, <1>3, <1>9, <2>1 DEF HandleVerdict, i, a
  <2>3. badReads' \in 0..MaxBadReads /\ job' = job
    BY <1>1, <1>9, BackendAssumption DEF HandleVerdict
  <2>4. /\ new \in Row /\ new.mode = row[i].mode /\ new.outcome = e.outcome
        /\ new.resolved = row[i].resolved
    <3>1. CASE new = [row[i] EXCEPT !.outcome = e.outcome, !.verdicted = TRUE,
                                    !.period = a.period]
      BY <2>1, <3>1 DEF Row
    <3>2. CASE new = [row[i] EXCEPT !.outcome = e.outcome, !.period = 0]
      BY <2>1, <3>2 DEF Row
    <3>3. QED
      BY <2>2, <3>1, <3>2
  <2>5. /\ row' \in [Ids -> Row] /\ row'[i] = new /\ new # NoRow
        /\ \A j \in Ids : RowOK(j)' /\ NeverInvents(j)' /\ RowMoves(j)
        /\ \A j \in Ids \ {i} : Moved(j)
    BY <1>1, <1>3, <2>1, <2>2, <2>4, WriteOK DEF a
  <2>6. ASSUME NEW j \in Ids, NEW m \in 1..Len(log), Handled(m), Tells(log, m, j, "Resolved")
        PROVE  Moved(j)
    <3>1. CASE straggled
      BY <3>1 DEF Moved
    <3>2. CASE ~straggled
      <4>1. ~(n < m)
        BY <1>1, <1>2, <2>6, <3>2, AloneHandled
      <4>2. Tells(log, n, i, "Verdict")
        BY <2>1 DEF Tells, e, i
      <4>3. j # i
        BY <1>3, <2>6, <4>1, <4>2 DEF MirrorIInv, LogOK, LogOf
      <4>4. QED
        BY <2>5, <4>3
    <3>3. QED
      BY <3>1, <3>2
  <2>7. HandledOK(n)'
    BY <1>5, <2>1, <2>4, <2>5 DEF HandledOK, Rulings, e, i
  <2>8. QED
    BY <1>1, <1>2, <1>4, <1>6, <2>3, <2>5, <2>6, <2>7, AheadOK
<1>10. CASE HandleResolved(e)
  <2>1. /\ e.kind = "Resolved" /\ row[i] # NoRow /\ row[i] \in Row
        /\ e.outcome = a.outcome /\ e.outcome \in Rulings /\ e.outcome \in Outcomes
        /\ a.status = "RESOLVED"
    BY <1>1, <1>3, <1>10 DEF HandleResolved, EventOK, Rulings, Outcomes
  <2> DEFINE new == [row[i] EXCEPT !.outcome = e.outcome, !.resolved = TRUE]
  <2>2. row' = [row EXCEPT ![i] = new] /\ UNCHANGED <<job, badReads>>
    BY <1>1, <1>3, <1>10, <2>1 DEF HandleResolved, i
  <2>3. /\ new \in Row /\ new.mode = row[i].mode /\ new.outcome = e.outcome
        /\ new.resolved = TRUE
    BY <2>1 DEF Row
  <2> HIDE DEF new
  <2>4. /\ row' \in [Ids -> Row] /\ row'[i] = new /\ new # NoRow
        /\ \A j \in Ids : RowOK(j)' /\ NeverInvents(j)' /\ RowMoves(j)
        /\ \A j \in Ids \ {i} : Moved(j)
    BY <1>1, <1>3, <2>1, <2>2, <2>3, WriteOK DEF a
  <2>5. Moved(i)
    BY <1>5, <2>1, <2>3, <2>4 DEF Moved, a
  <2>6. HandledOK(n)'
    BY <1>5, <2>1, <2>3, <2>4 DEF HandledOK, Rulings, e, i, a
  <2>7. QED
    BY <1>1, <1>2, <1>4, <1>6, <2>2, <2>4, <2>5, <2>6, AheadOK
<1>11. QED
  BY <1>4, <1>7, <1>8, <1>9, <1>10
-----------------------------------------------------------------------------
(* Restarts.                                                               *)

LEMMA RestartOK ==
  ASSUME ChainInv, \A i \in Ids : Facts!Advances(i), MirrorIInv, Restart
  PROVE  MirrorIInv'
<1>1. /\ UNCHANGED <<assertion, log, row, checkpoint, straggled, logged, badReads>>
      /\ pass' = [p \in Passes |-> NoPass] /\ awaited' = {}
      /\ faults' = faults + 1 /\ faults < MaxFaults
      /\ job' = [i \in Ids |-> Stalled(job[i])]
  BY DEF Restart, Indexer!Stop, Indexer!Fault, registryVars, Passes, NoPass
<1>2. /\ checkpoint \in 0..Len(log) /\ Len(log) \in Nat /\ faults' \in 0..MaxFaults
      /\ row \in [Ids -> Row] /\ job \in [Ids -> Job]
      /\ \A i \in Ids : RowOK(i) /\ NeverInvents(i) /\ JobOK(i)
  BY <1>1, BackendAssumption DEF MirrorIInv, BackendTyped, Indexer!IndexerAssumption
<1>3. /\ NoPass \in [at : Nat, to : 0..Len(log)] /\ NoPass.at = 0 /\ NoPass.to = 0
      /\ \A p \in Passes : pass'[p] = NoPass
  BY <1>1, <1>2 DEF NoPass, Indexer!NoPass
<1>4. ASSUME NEW i \in Ids
      PROVE  /\ JobOK(i)' /\ job'[i] \in Job
             /\ job[i].state # "none" => job'[i].state # "none"
  <2>1. job'[i] = Stalled(job[i]) /\ (job'[i] = job[i] \/ Idles(job'[i]))
    BY <1>1, <1>2, StalledIdles
  <2>2. JobOK(i)'
    BY <1>1, <1>2, <2>1, JobKept, IdleOK
  <2>3. QED
    BY <1>2, <2>1, <2>2 DEF Idles
<1>5. \A i \in Ids : RowOK(i)' /\ NeverInvents(i)' /\ RowMoves(i) /\ Moved(i)
  BY <1>1, <1>2 DEF RowOK, NeverInvents, RowMoves, Moved
<1>6. BackendTyped'
  <2>1. job' \in [Ids -> Job]
    BY <1>1, <1>4
  <2>2. pass' \in [Passes -> [at : Nat, to : 0..Len(log)]]
    BY <1>1, <1>3
  <2>3. QED
    BY <1>1, <1>2, <1>3, <2>1, <2>2 DEF MirrorIInv, BackendTyped
<1>7. Alone' /\ Remembers
  BY <1>1, <1>3, <1>4 DEF Alone, Remembers, Running, Indexer!Running, NoPass
<1>8. \A n \in 1..Len(log) : Handled(n)' => Handled(n)
  BY <1>1, <1>3 DEF Handled
<1>9. QED
  BY <1>1, <1>4, <1>5, <1>6, <1>7, <1>8, QuietOK
-----------------------------------------------------------------------------
(* The invariant holds.                                                    *)

LEMMA MirrorInit == Init => MirrorIInv
<1> SUFFICES ASSUME Init PROVE MirrorIInv
  OBVIOUS
<1>1. \A i \in Ids : /\ assertion[i].status = "NONE" /\ assertion[i].outcome = "PENDING"
                     /\ assertion[i].originalOutcome = "PENDING"
                     /\ row[i] = NoRow /\ job[i] = NoJob /\ logged[i] = <<>>
  BY DEF Init, Registry!EmptyBooks, Registry!Absent
<1>2. NoRow \in Row /\ ~NoRow.resolved /\ NoRow.outcome = "PENDING"
  BY DEF NoRow, Row, Outcomes
<1>3. NoJob \in Job /\ NoJob.state = "none" /\ NoJob.step = "load"
  BY NewJobs
<1>4. /\ log = <<>> /\ Len(log) = 0 /\ checkpoint = 0 /\ awaited = {} /\ straggled = FALSE
      /\ faults = 0
      /\ pass = [p \in Passes |-> [at |-> 0, to |-> 0]]
  BY DEF Init, Indexer!IndexerInit, Indexer!NoPass, Passes
<1>5. BackendTyped
  <2>1. /\ row \in [Ids -> Row] /\ job \in [Ids -> Job]
        /\ logged \in [Ids -> Seq(Rulings)]
    BY <1>2, <1>3 DEF Init
  <2>5. badReads \in 0..MaxBadReads
    BY BackendAssumption DEF Init
  <2>6. log \in Seq(Event) /\ checkpoint \in 0..Len(log)
    BY <1>4
  <2>2. faults \in 0..MaxFaults
    BY <1>4, BackendAssumption DEF Indexer!IndexerAssumption
  <2>3. /\ pass \in [Passes -> [at : Nat, to : 0..Len(log)]]
        /\ \A p \in Passes : pass[p].at <= pass[p].to
    BY <1>4
  <2>4. QED
    BY <1>4, <2>1, <2>2, <2>3, <2>5, <2>6 DEF BackendTyped
<1>6. LogOK
  BY <1>1, <1>4 DEF LogOK, LogOf
<1>7. \A i \in Ids : RowOK(i) /\ NeverInvents(i)
  BY <1>1, <1>2 DEF RowOK, NeverInvents
<1>8. \A i \in Ids : JobOK(i)
  BY <1>1, <1>3 DEF JobOK
<1>9. Alone
  BY <1>4 DEF Alone, Running, Indexer!Running, Indexer!NoPass
<1>10. QED
  BY <1>4, <1>5, <1>6, <1>7, <1>8, <1>9 DEF MirrorIInv

LEMMA MirrorNext == ChainInv /\ MirrorIInv /\ [Next]_vars => ChainInv' /\ MirrorIInv'
<1> SUFFICES ASSUME ChainInv, MirrorIInv, [Next]_vars PROVE ChainInv' /\ MirrorIInv'
  OBVIOUS
<1>1. ChainInv' /\ \A i \in Ids : Facts!Advances(i)
  BY ChainNext DEF MirrorIInv, BackendTyped
<1>2. job \in [Ids -> Job]
  BY DEF MirrorIInv, BackendTyped
<1>3. CASE Elsewhere
  BY <1>1, <1>2, <1>3, ElsewhereTransacts, TransactionOK DEF Elsewhere
<1>4. CASE Indexing
  BY <1>1, <1>4, PassOK, InsertRowOK, HandleEventOK DEF Indexing
<1>5. CASE TickRejects \/ Restart
  BY <1>1, <1>5, PassOK, RestartOK
<1>6. ASSUME NEW i \in Ids, Judging(i) \/ SubmitUnheard(i) \/ JudgeThrows(i) \/ Enqueue(i)
                              \/ Forget(i)
      PROVE  MirrorIInv'
  BY <1>1, <1>6, QueueOK, SubmitOK, InsertLogOK, UpdateOutcomeOK DEF Judging
<1>7. ASSUME NEW i \in Ids, FinaliseDue(i) PROVE MirrorIInv'
  <2>1. Transaction /\ UNCHANGED <<row, indexerVars, job, logged, faultVars>>
    BY <1>7, UnchallengedTransacts DEF FinaliseDue
  <2>2. QED
    BY <1>1, <1>2, <2>1, TransactionOK
<1>8. CASE UNCHANGED vars
  <2>1. UNCHANGED <<assertion, log, row, indexerVars, job, logged, faultVars>>
    BY <1>8 DEF vars, registryVars
  <2>2. QED
    BY <1>1, <1>2, <2>1, JobsOnly
<1>9. QED
  BY <1>1, <1>3, <1>4, <1>5, <1>6, <1>7, <1>8 DEF Next

LEMMA Invariant == Spec => [](ChainInv /\ MirrorIInv)
<1>1. Init => ChainInv /\ MirrorIInv
  BY ChainInit, MirrorInit
<1>2. ChainInv /\ MirrorIInv /\ [Next]_vars => (ChainInv /\ MirrorIInv)'
  BY MirrorNext
<1>3. QED
  BY <1>1, <1>2, PTL DEF Spec
-----------------------------------------------------------------------------
(* The registry the relayer works on is the AssertionRegistry: every step  *)
(* of worker, indexer and users is a step of its specification or leaves   *)
(* it alone, so its theorems hold behind the relayer as well.              *)
THEOREM RunsTheRegistry == Spec => Facts!Spec
<1>1. Init => Facts!Init
  BY SameInit DEF Init
<1>2. ChainInv /\ MirrorIInv /\ [Next]_vars => [Facts!Next]_(Facts!vars)
  BY RegistryStepIs DEF MirrorIInv, BackendTyped
<1>3. QED
  BY <1>1, <1>2, Invariant, PTL DEF Spec, Facts!Spec

(* The assertions table never claims what the chain did not say: a row is  *)
(* marked resolved only when the registry resolved the assertion, and an   *)
(* outcome it shows is the judge's or the final one, however passes are    *)
(* replayed, throws abandon them and the worker writes late.               *)
THEOREM MirrorCorrect == Spec => []MirrorInv
<1>1. ChainInv /\ MirrorIInv => MirrorInv
  <2> SUFFICES ASSUME ChainInv, MirrorIInv PROVE MirrorInv
    OBVIOUS
  <2>1. Registry!TypeOK
    BY SameTypes DEF ChainInv, Facts!RegistryInv
  <2>2. TypeOK
    BY <2>1 DEF TypeOK, MirrorIInv, BackendTyped, Indexer!IndexerTypeOK, Passes
  <2>3. QED
    BY <2>2 DEF MirrorInv, MirrorIInv
<1>2. QED
  BY <1>1, Invariant, PTL

(* A judgment is on record at most once, and what is on record is the      *)
(* outcome the registry took, however often the queue ran the job.         *)
THEOREM RecordIsTheVerdict == Spec => []LoggedIsOnChain
<1>1. MirrorIInv => LoggedIsOnChain
  BY DEF MirrorIInv, JobOK, LoggedIsOnChain
<1>2. QED
  BY <1>1, Invariant, PTL

(* Whatever the checkpoint has left behind was handled, with throws and    *)
(* restarts between any two awaits and passes that overlap: each assertion *)
(* has its row and was given a job, each verdict and end reached the row.  *)
THEOREM CheckpointIsSafe == Spec => []NothingSkipped
<1>1. MirrorIInv => NothingSkipped
  <2> SUFFICES ASSUME MirrorIInv, NEW n \in 1..checkpoint PROVE HandledOK(n)
    BY DEF HandledOK, NothingSkipped
  <2>1. n \in 1..Len(log) /\ Handled(n)
    BY DEF MirrorIInv, BackendTyped, Handled
  <2>2. QED
    BY <2>1 DEF MirrorIInv
<1>2. QED
  BY <1>1, Invariant, PTL

(* Once the indexer has caught up, a row shows the outcome of the registry *)
(* or the judge's call, and the latter only if the worker, having logged   *)
(* it, or a pass that overlapped another may have written it late.         *)
THEOREM TableSettles == Spec => []MirrorSettles
<1>1. ChainInv /\ MirrorIInv => MirrorSettles
  <2> SUFFICES ASSUME ChainInv, MirrorIInv, NEW i \in Ids, CaughtUp, row[i] # NoRow
               PROVE  \/ row[i].outcome = assertion[i].outcome
                      \/ /\ row[i].outcome = assertion[i].originalOutcome
                         /\ logged[i] # <<>> \/ straggled
    BY DEF MirrorSettles
  <2>1. \A n \in 1..Len(log) : HandledOK(n)
    BY DEF CaughtUp, MirrorIInv, BackendTyped, Handled
  <2>2. NeverInvents(i)
    BY DEF MirrorIInv
  <2>3. CASE assertion[i].status = "RESOLVED"
    <3>1. PICK n \in 1..Len(log) : Tells(log, n, i, "Resolved")
      BY <2>3 DEF MirrorIInv, LogOK, LogOf
    <3>2. /\ row[i].outcome # "PENDING"
          /\ \/ row[i].outcome = assertion[i].outcome
             \/ row[i].outcome = assertion[i].originalOutcome /\ logged[i] # <<>>
             \/ straggled
      BY <2>1, <3>1 DEF Tells, HandledOK
    <3>3. QED
      BY <2>2, <3>2 DEF NeverInvents
  <2>4. CASE assertion[i].status # "RESOLVED" /\ assertion[i].originalOutcome # "PENDING"
    <3>1. PICK n \in 1..Len(log) : Tells(log, n, i, "Verdict")
      BY <2>4 DEF MirrorIInv, LogOK, LogOf
    <3>2. row[i].outcome # "PENDING"
      BY <2>1, <3>1 DEF Tells, HandledOK
    <3>3. QED
      BY <2>2, <2>4, <3>2, RecordFacts DEF NeverInvents
  <2>5. CASE assertion[i].status # "RESOLVED" /\ assertion[i].originalOutcome = "PENDING"
    BY <2>2, <2>5, RecordFacts DEF NeverInvents
  <2>6. QED
    BY <2>3, <2>4, <2>5
<1>2. QED
  BY <1>1, Invariant, PTL
=============================================================================
