-------------------------- MODULE EscalationManager --------------------------
(***************************************************************************)
(* The appeal of a challenged assertion                                    *)
(* (contracts/protocol/EscalationManager.sol), composed with the registry  *)
(* it resolves and the reputation it writes.  Closing an appeal is one     *)
(* transaction over the three contracts: the registry settles the bonds    *)
(* and calls the application, then every panellist is scored, and if any   *)
(* part reverts nothing happens.                                           *)
(***************************************************************************)
EXTENDS Integers, Sequences, FiniteSetsExt, VerdictTypes

CONSTANTS
  Ids, Accounts, NoAccount, Enforcers, Escalation, Bonds, Periods,
  MinPeriod, MaxPeriod, Rejecting, Trusts, MaxDonation,  \* of AssertionRegistry
  MaxTokens,     \* of Reputation
  JudgeTokens,   \* judgeTokenId values the relayer may pass to submitVerdict
  Calls          \* bound: outcomes that judges, panellists and the admin try

VARIABLES
  assertion, challengeBond, elapsed, feeSink, enforcer, enforcerRole,
  authorised, pot, donated, paid, delivered,             \* of AssertionRegistry
  nextTokenId, reputation, totalVerdicts, appealsLost,   \* of Reputation
  judge,         \* judgeTokenId stored with each assertion
  appeal         \* _appeals

Registry == INSTANCE AssertionRegistry
Judges == INSTANCE Reputation

ASSUME EscalationAssumption ==
  /\ Registry!RegistryAssumption
  /\ MaxTokens \in Nat
  /\ JudgeTokens \subseteq Nat
  /\ Calls \subseteq Outcomes

registryVars ==
  <<assertion, challengeBond, elapsed, feeSink, enforcer, enforcerRole,
    authorised, pot, donated, paid, delivered>>
judgesVars == <<nextTokenId, reputation, totalVerdicts, appealsLost>>
vars == <<registryVars, judgesVars, judge, appeal>>

PANEL_SIZE == 3

Tokens == Judges!Tokens

(* panelTokenIds and panelOutcomes are a function from token to outcome;   *)
(* tally is trueVotes, falseVotes and invalidVotes.                        *)
Appeal ==
  [opened : BOOLEAN, closed : BOOLEAN, judge : Nat, original : Outcomes,
   votes : UNION {[S -> Rulings] : S \in SUBSET Tokens},
   votesRecorded : 0..PANEL_SIZE, tally : [Rulings -> 0..PANEL_SIZE]]

NoAppeal ==
  [opened |-> FALSE, closed |-> FALSE, judge |-> 0, original |-> "PENDING",
   votes |-> <<>>, votesRecorded |-> 0, tally |-> [o \in Rulings |-> 0]]

TypeOK ==
  /\ Registry!TypeOK
  /\ nextTokenId \in 1..(MaxTokens + 1)
  /\ reputation \in [Tokens -> Int]
  /\ totalVerdicts \in [Tokens -> Nat]
  /\ appealsLost \in [Tokens -> Nat]
  /\ judge \in [Ids -> Nat]
  /\ appeal \in [Ids -> Appeal]
-----------------------------------------------------------------------------
NothingAsked ==
  /\ Registry!EmptyBooks
  /\ Registry!Deployed
  /\ judge = [i \in Ids |-> 0]
  /\ appeal = [i \in Ids |-> NoAppeal]

Init == NothingAsked /\ Judges!Init

(* The registry stores whatever token id the relayer passes.               *)
SubmitVerdict(i, o, t) ==
  /\ Registry!SubmitVerdict(i, o)
  /\ judge' = [judge EXCEPT ![i] = t]
  /\ UNCHANGED <<judgesVars, appeal>>

Mint ==
  /\ Judges!Mint
  /\ UNCHANGED <<registryVars, judge, appeal>>

(* The steps of a deployed registry in which neither a judge nor a panel   *)
(* acts.  The dispatcher of the deployment stays in use and keeps its role *)
(* (it may lose its grant), and nobody donates: AssertionRegistry has the  *)
(* exchange of dispatchers, the roles and receive().                       *)
RegistryStep ==
  /\ \/ Registry!Tick
     \/ \E i \in Ids :
          \/ \E who \in Accounts, m \in Modes, b \in Bonds, p \in Periods :
                Registry!CreateAssertion(i, who, m, b, p)
          \/ \E who \in Accounts : Registry!ChallengeAssertion(i, who)
          \/ Registry!ResolveUnchallenged(i)
          \/ \E o \in Calls : Registry!ForceResolve(i, o)
     \/ \E e \in Enforcers : Registry!AuthorizeRegistry(e) \/ Registry!RevokeRegistry(e)
     \/ \E a \in Accounts : Registry!SetFeeSink(a)
  /\ UNCHANGED <<judgesVars, judge, appeal>>
-----------------------------------------------------------------------------
OpenAppeal(i) ==
  /\ ~appeal[i].opened
  /\ assertion[i].status = "CHALLENGED"
  /\ appeal' = [appeal EXCEPT ![i] =
        [NoAppeal EXCEPT !.opened = TRUE, !.judge = judge[i],
                         !.original = assertion[i].originalOutcome]]
  /\ UNCHANGED <<registryVars, judgesVars, judge>>

HasVoted(i, t) == t \in DOMAIN appeal[i].votes

WithVote(a, t, o) ==
  [a EXCEPT !.votes = [x \in DOMAIN @ \cup {t} |-> IF x = t THEN o ELSE @[x]],
            !.votesRecorded = @ + 1,
            !.tally[o] = @ + 1]

(* Fault: a panellist may vote twice.                                      *)
RecordPanelVoteTwice(i, t, o) ==
  /\ IsRuling(o) /\ Judges!Exists(t)
  /\ appeal[i].opened /\ ~appeal[i].closed /\ appeal[i].votesRecorded < PANEL_SIZE
  /\ appeal' = [appeal EXCEPT ![i] = WithVote(@, t, o)]
  /\ UNCHANGED <<registryVars, judgesVars, judge>>

(* Fault: a panellist that is no judge may vote.                           *)
RecordPanelVoteUnknown(i, t, o) ==
  /\ IsRuling(o) /\ ~HasVoted(i, t)
  /\ appeal[i].opened /\ ~appeal[i].closed /\ appeal[i].votesRecorded < PANEL_SIZE
  /\ appeal' = [appeal EXCEPT ![i] = WithVote(@, t, o)]
  /\ UNCHANGED <<registryVars, judgesVars, judge>>

(* The registry is not consulted again: votes are taken for an assertion   *)
(* that an administrator has resolved meanwhile.                           *)
RecordPanelVote(i, t, o) ==
  /\ IsRuling(o)
  /\ Judges!Exists(t)
  /\ appeal[i].opened
  /\ ~appeal[i].closed
  /\ appeal[i].votesRecorded < PANEL_SIZE
  /\ ~HasVoted(i, t)
  /\ appeal' = [appeal EXCEPT ![i] = WithVote(@, t, o)]
  /\ UNCHANGED <<registryVars, judgesVars, judge>>

(* _plurality: a strict plurality wins, a tie is INVALID.                  *)
Plurality(i) ==
  LET t == appeal[i].tally["TRUE"]
      f == appeal[i].tally["FALSE"]
      v == appeal[i].tally["INVALID"] IN
  IF t > f /\ t > v THEN "TRUE"
  ELSE IF f > t /\ f > v THEN "FALSE"
  ELSE "INVALID"

VotersFor(i, outcomes) ==
  {t \in DOMAIN appeal[i].votes : appeal[i].votes[t] \in outcomes}

(* The judge whose call an outcome overturns, if one is on record.         *)
Overturned(i, final) ==
  IF final # appeal[i].original /\ appeal[i].judge # 0 THEN {appeal[i].judge} ELSE {}

(* Fault: the appeal is not marked as closed.                              *)
CloseAppealUnmarked(i) ==
  LET final == Plurality(i) IN
  /\ appeal[i].opened /\ ~appeal[i].closed /\ appeal[i].votesRecorded = PANEL_SIZE
  /\ Registry!ResolveChallenged(Escalation, i, final)
  /\ Judges!Record(VotersFor(i, {final}), VotersFor(i, Rulings \ {final}),
                   Overturned(i, final))
  /\ UNCHANGED <<judge, appeal>>

(* Fault: a registry that refuses the outcome does not stop the closing.   *)
CloseAppealAnyway(i) ==
  LET final == Plurality(i) IN
  /\ appeal[i].opened /\ ~appeal[i].closed /\ appeal[i].votesRecorded = PANEL_SIZE
  /\ appeal' = [appeal EXCEPT ![i].closed = TRUE]
  /\ \/ Registry!ResolveChallenged(Escalation, i, final)
     \/ assertion[i].status = "RESOLVED" /\ UNCHANGED registryVars
  /\ Judges!Record(VotersFor(i, {final}), VotersFor(i, Rulings \ {final}),
                   Overturned(i, final))
  /\ UNCHANGED judge

(* One transaction: unless the registry takes the outcome, nothing happens. *)
CanClose(i) ==
  LET final == Plurality(i) IN
  /\ appeal[i].opened
  /\ ~appeal[i].closed
  /\ appeal[i].votesRecorded = PANEL_SIZE
  /\ Registry!CanResolve(Escalation, i, final)
  /\ Judges!CanRecord(VotersFor(i, {final}), VotersFor(i, Rulings \ {final}),
                      Overturned(i, final))

CloseAppeal(i) ==
  LET final == Plurality(i) IN
  /\ CanClose(i)
  /\ appeal' = [appeal EXCEPT ![i].closed = TRUE]
  /\ Registry!ResolveChallenged(Escalation, i, final)
  /\ Judges!Record(VotersFor(i, {final}), VotersFor(i, Rulings \ {final}),
                   Overturned(i, final))
  /\ UNCHANGED judge
-----------------------------------------------------------------------------
Next ==
  \/ RegistryStep
  \/ Mint
  \/ \E i \in Ids :
       \/ \E o \in Calls, t \in JudgeTokens : SubmitVerdict(i, o, t)
       \/ OpenAppeal(i)
       \/ \E t \in Tokens, o \in Calls : RecordPanelVote(i, t, o)
       \/ CloseAppeal(i)

Spec == Init /\ [][Next]_vars
-----------------------------------------------------------------------------
(* Why closing lands: an appeal remembers the judge and the call that are  *)
(* on record, which nothing rewrites once the assertion was challenged;    *)
(* its votes are of different, minted panellists; and until it is closed   *)
(* only the administrator can have resolved the assertion, unheard.        *)
Standing(i) ==
  /\ assertion[i].challenger # NoAccount
  /\ appeal[i].judge = judge[i]
  /\ appeal[i].original = assertion[i].originalOutcome
  /\ \A t \in DOMAIN appeal[i].votes : Judges!Exists(t)
  /\ \A o \in Rulings : Cardinality(VotersFor(i, {o})) = appeal[i].tally[o]
  /\ Cardinality(DOMAIN appeal[i].votes) = appeal[i].votesRecorded
  /\ ~appeal[i].closed =>
       /\ assertion[i].status \in {"CHALLENGED", "RESOLVED"}
       /\ delivered[i] = <<>>

(* Every appeal ever opened stands on its assertion; others are untouched. *)
AppealInv ==
  /\ TypeOK
  /\ \A i \in Ids :
       /\ appeal[i].opened => Standing(i)
       /\ ~appeal[i].opened => appeal[i] = NoAppeal

(* A complete panel whose first judge is known can close its appeal: none  *)
(* of the three contracts that closing calls refuses, as long as the       *)
(* callback is reachable and the accounts concerned accept ether.          *)
PanelCloses ==
  \A i \in Ids :
    /\ appeal[i].opened /\ ~appeal[i].closed
    /\ appeal[i].votesRecorded = PANEL_SIZE
    /\ assertion[i].status = "CHALLENGED"
    /\ Registry!CanDispatch(i) /\ Registry!PartiesAcceptEther(i)
    /\ appeal[i].judge = 0 \/ Judges!Exists(appeal[i].judge)
    => CanClose(i)

(* A closed appeal and the registry agree: the assertion is resolved with  *)
(* the panel's plurality and the application was told so, so reputation    *)
(* never moved for a ruling that did not land.  And a challenger was paid  *)
(* both bonds only if two of the three judges agreed on another outcome    *)
(* than the first judge's.                                                 *)
Landed(i) ==
  /\ assertion[i].status = "RESOLVED"
  /\ assertion[i].outcome = Plurality(i)
  /\ delivered[i] = <<Plurality(i)>>
  /\ paid[i].challenger > assertion[i].bond =>
       \E o \in Rulings \ {assertion[i].originalOutcome} : appeal[i].tally[o] >= 2

(* And only a closed appeal of a challenged assertion lets an application  *)
(* hear an outcome other than the judge's.                                 *)
Overruled(i) == delivered[i] # <<>> /\ delivered[i] # <<assertion[i].originalOutcome>>

AppealLanded ==
  \A i \in Ids :
    /\ appeal[i].closed => Landed(i)
    /\ Overruled(i) => appeal[i].closed

(* The scoreboard is exactly what the closed appeals add up to: nothing is *)
(* counted twice, and nothing for an appeal that is still open.            *)
ClosedAppeals == {i \in Ids : appeal[i].closed}

Agreements(t) == Cardinality({i \in ClosedAppeals : t \in VotersFor(i, {assertion[i].outcome})})
Ballots(t) == Cardinality({i \in ClosedAppeals : HasVoted(i, t)})
Defeats(t) == Cardinality({i \in ClosedAppeals : t \in Overturned(i, assertion[i].outcome)})

ScoresAddUp ==
  \A t \in Tokens : Judges!Exists(t) =>
    /\ totalVerdicts[t] = Ballots(t)
    /\ appealsLost[t] = Defeats(t)
    /\ reputation[t] = 1000 + 3 * Agreements(t) - 2 * Ballots(t) - 10 * Defeats(t)
=============================================================================
