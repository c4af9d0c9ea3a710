-------------------------- MODULE AssertionRegistry --------------------------
(***************************************************************************)
(* The canonical store of assertions                                       *)
(* (contracts/protocol/AssertionRegistry.sol) with the dispatcher it calls *)
(* (contracts/protocol/VerdictEnforcer.sol).                               *)
(*                                                                         *)
(* A transaction is atomic: an action is a whole transaction that          *)
(* succeeded, and a revert is an action that is not enabled.  Block time   *)
(* is kept per assertion, as the time elapsed since its verdict, which is  *)
(* the only quantity the contract compares.                                *)
(***************************************************************************)
EXTENDS Integers, Sequences, FiniteSetsExt, VerdictTypes

CONSTANTS
  Ids,          \* assertion identifiers
  Accounts,     \* accounts that assert, challenge or collect fees
  NoAccount,    \* address(0)
  Enforcers,    \* deployed VerdictEnforcer contracts
  Escalation,   \* the deployed EscalationManager
  Bonds,        \* bonds an asserter may choose
  Periods,      \* challenge periods an asserter may ask for
  MinPeriod,    \* MIN_CHALLENGE_PERIOD
  MaxPeriod,    \* MAX_CHALLENGE_PERIOD
  Rejecting,    \* accounts whose code reverts when it is sent ether
  Trusts,       \* pairs <<i, e>>: the callback of i succeeds when e calls it
  MaxDonation   \* bound: ether sent to receive() outside the protocol

ASSUME RegistryAssumption ==
  /\ IsFiniteSet(Ids)       \* 256-bit hashes
  /\ NoAccount \notin Accounts \cup Enforcers \cup {Escalation}
  /\ Escalation \notin Enforcers
  /\ Bonds \subseteq Nat
  /\ Periods \subseteq Nat
  /\ MinPeriod \in Nat
  /\ MaxPeriod \in Nat
  /\ MinPeriod <= MaxPeriod
  /\ Rejecting \subseteq Accounts
  /\ Trusts \subseteq Ids \X Enforcers
  /\ MaxDonation \in Nat

VARIABLES
  assertion,      \* _assertions: the record of every identifier
  challengeBond,  \* _challengeBond
  elapsed,        \* time since verdictedAt, frozen when VERDICTED is left
  feeSink,        \* account that collects forfeited bonds
  enforcer,       \* the dispatcher in use, or NoAccount
  enforcerRole,   \* holders of ENFORCER_ROLE
  authorised,     \* enforcers that granted this registry REGISTRY_ROLE
  pot,            \* ether the registry holds
  donated,        \* ether received through receive()
  paid,           \* ether each party of an assertion was sent at settlement
  delivered       \* outcomes its callback was given, in order

books == <<assertion, challengeBond, elapsed, pot, paid, delivered>>
wiring == <<feeSink, enforcer, enforcerRole, authorised>>
vars == <<books, wiring, donated>>
-----------------------------------------------------------------------------
Assertion ==
  [status : Statuses, mode : Modes, asserter : Accounts \cup {NoAccount},
   challenger : Accounts \cup {NoAccount}, bond : Nat, period : Nat,
   originalOutcome : Outcomes, outcome : Outcomes]

(* A storage slot nobody wrote: every field zero.                          *)
Absent ==
  [status |-> "NONE", mode |-> "INSTANT", asserter |-> NoAccount,
   challenger |-> NoAccount, bond |-> 0, period |-> 0,
   originalOutcome |-> "PENDING", outcome |-> "PENDING"]

Payout == [asserter : Nat, challenger : Nat, sink : Nat]
Pay(a, c, s) == [asserter |-> a, challenger |-> c, sink |-> s]
NoPayout == Pay(0, 0, 0)
Total(p) == p.asserter + p.challenger + p.sink

TypeOK ==
  /\ assertion \in [Ids -> Assertion]
  /\ challengeBond \in [Ids -> Nat]
  /\ elapsed \in [Ids -> 0..(MaxPeriod + 1)]
  /\ feeSink \in Accounts
  /\ enforcer \in Enforcers \cup {NoAccount}
  /\ enforcerRole \subseteq Enforcers \cup {Escalation}
  /\ authorised \subseteq Enforcers
  /\ pot \in Nat
  /\ donated \in 0..MaxDonation
  /\ paid \in [Ids -> Payout]
  /\ delivered \in [Ids -> Seq(Rulings)]

Exists(i) == assertion[i].status # "NONE"
Live(i) == assertion[i].status \in {"OPEN", "VERDICTED", "CHALLENGED"}
-----------------------------------------------------------------------------
(* The state the constructor leaves, and the one the deployment script     *)
(* leaves after wiring the contracts together.                             *)
Constructed ==
  /\ enforcer = NoAccount
  /\ enforcerRole = {}
  /\ authorised = {}

Deployed ==
  /\ enforcer \in Enforcers
  /\ enforcerRole = {enforcer, Escalation}
  /\ authorised = {enforcer}

EmptyBooks ==
  /\ assertion = [i \in Ids |-> Absent]
  /\ challengeBond = [i \in Ids |-> 0]
  /\ elapsed = [i \in Ids |-> 0]
  /\ pot = 0
  /\ donated = 0
  /\ paid = [i \in Ids |-> NoPayout]
  /\ delivered = [i \in Ids |-> <<>>]
  /\ feeSink \in Accounts

Init == EmptyBooks /\ (Constructed \/ Deployed)
-----------------------------------------------------------------------------
(* Administration.                                                         *)

(* The order matters: the role is granted to the new enforcer and then     *)
(* taken from the previous one, even when they are the same contract.      *)
SetEnforcer(e) ==
  /\ enforcer' = e
  /\ enforcerRole' = (enforcerRole \cup {e}) \ {enforcer}
  /\ UNCHANGED <<books, feeSink, authorised, donated>>

SetFeeSink(a) ==
  /\ feeSink' = a
  /\ UNCHANGED <<books, enforcer, enforcerRole, authorised, donated>>

(* AccessControl.grantRole(ENFORCER_ROLE, escalation), a deployment step.  *)
GrantEnforcerRole ==
  /\ enforcerRole' = enforcerRole \cup {Escalation}
  /\ UNCHANGED <<books, feeSink, enforcer, authorised, donated>>

AuthorizeRegistry(e) ==
  /\ authorised' = authorised \cup {e}
  /\ UNCHANGED <<books, feeSink, enforcer, enforcerRole, donated>>

RevokeRegistry(e) ==
  /\ authorised' = authorised \ {e}
  /\ UNCHANGED <<books, feeSink, enforcer, enforcerRole, donated>>

(* receive() takes ether from anyone.                                      *)
Receive(x) ==
  /\ donated + x <= MaxDonation
  /\ donated' = donated + x
  /\ pot' = pot + x
  /\ UNCHANGED <<assertion, challengeBond, elapsed, paid, delivered, wiring>>
-----------------------------------------------------------------------------
(* Settlement.                                                             *)

(* Fault: a winning challenger gets the asserter's bond but not its own.   *)
SettlementForgetsRival(a, rivalBond, final) ==
  IF a.challenger # NoAccount /\ final \notin {"INVALID", a.originalOutcome}
  THEN Pay(0, a.bond, 0)
  ELSE IF final = "INVALID" THEN Pay(0, rivalBond, a.bond)
  ELSE Pay(a.bond + rivalBond, 0, 0)

(* Fault: the comparison with the judge's call is reversed.                *)
SettlementReversed(a, rivalBond, final) ==
  IF a.challenger = NoAccount
  THEN IF final = "INVALID" THEN Pay(0, 0, a.bond) ELSE Pay(a.bond, 0, 0)
  ELSE IF final = "INVALID" THEN Pay(a.bond, rivalBond, 0)
  ELSE IF final = a.originalOutcome THEN Pay(0, a.bond + rivalBond, 0)
  ELSE Pay(a.bond + rivalBond, 0, 0)

(* What _settleBonds sends, and to which of the three parties.             *)
Settlement(a, rivalBond, final) ==
  IF a.challenger = NoAccount
  THEN IF final = "INVALID"
       THEN Pay(0, 0, a.bond)
       ELSE Pay(a.bond, 0, 0)
  ELSE IF final = "INVALID"
       THEN Pay(a.bond, rivalBond, 0)
       ELSE IF final # a.originalOutcome
            THEN Pay(0, a.bond + rivalBond, 0)
            ELSE Pay(a.bond + rivalBond, 0, 0)

(* _safeSendValue: a zero amount is skipped, a failed transfer reverts.    *)
CanPay(a, p) ==
  /\ p.asserter > 0 => a.asserter \notin Rejecting
  /\ p.challenger > 0 => a.challenger \notin Rejecting
  /\ p.sink > 0 => feeSink \notin Rejecting
  /\ Total(p) <= pot

CanSettle(i, a, final) == CanPay(a, Settlement(a, challengeBond[i], final))

(* Fault: the challenger's bond stays on the books.                        *)
SettleBondsKeepingRival(i, a, final) ==
  LET p == Settlement(a, challengeBond[i], final) IN
  /\ CanPay(a, p)
  /\ paid' = [paid EXCEPT ![i] = p]
  /\ pot' = pot - Total(p)
  /\ UNCHANGED challengeBond

SettleBonds(i, a, final) ==
  LET p == Settlement(a, challengeBond[i], final) IN
  /\ CanSettle(i, a, final)
  /\ challengeBond' = [challengeBond EXCEPT ![i] = 0]
  /\ paid' = [paid EXCEPT ![i] = p]
  /\ pot' = pot - Total(p)

Resolved(a, final) == [a EXCEPT !.status = "RESOLVED", !.outcome = final]

(* VerdictEnforcer.dispatch: the enforcer must know this registry, and the *)
(* target must have code that does not revert.  An application accepts the *)
(* enforcer it was deployed with and no other.                             *)
CanDispatch(i) == enforcer \in authorised /\ <<i, enforcer>> \in Trusts

Dispatch(i, final) ==
  /\ CanDispatch(i)
  /\ delivered' = [delivered EXCEPT ![i] = Append(@, final)]

(* _finalise, applied to the record the caller has already updated.        *)
CanFinalise(i, a, final) ==
  /\ enforcer # NoAccount
  /\ CanSettle(i, a, final)
  /\ CanDispatch(i)

Finalise(i, a, final) ==
  /\ CanFinalise(i, a, final)
  /\ assertion' = [assertion EXCEPT ![i] = Resolved(a, final)]
  /\ SettleBonds(i, a, final)
  /\ Dispatch(i, final)
-----------------------------------------------------------------------------
(* The life of an assertion.                                               *)

Opened(who, mode, bond, period) ==
  [status |-> "OPEN", mode |-> mode, asserter |-> who,
   challenger |-> NoAccount, bond |-> bond, period |-> period,
   originalOutcome |-> "PENDING", outcome |-> "PENDING"]

(* Fault: the ether sent is not compared with the bond.                    *)
CreateAssertionUnfunded(i, who, mode, bond, period) ==
  /\ mode = "AUDITED" => period \in MinPeriod..MaxPeriod
  /\ ~Exists(i)
  /\ assertion' = [assertion EXCEPT ![i] = Opened(who, mode, bond, period)]
  /\ pot' \in {pot, pot + bond}
  /\ UNCHANGED <<challengeBond, elapsed, paid, delivered, wiring, donated>>

(* Fault: an identifier in use is not refused.                             *)
CreateAssertionAgain(i, who, mode, bond, period) ==
  /\ mode = "AUDITED" => period \in MinPeriod..MaxPeriod
  /\ assertion' = [assertion EXCEPT ![i] = Opened(who, mode, bond, period)]
  /\ pot' = pot + bond
  /\ UNCHANGED <<challengeBond, elapsed, paid, delivered, wiring, donated>>

(* The identifier hashes every input and a salt: it is any unused one.     *)
CreateAssertion(i, who, mode, bond, period) ==
  /\ mode = "AUDITED" => period \in MinPeriod..MaxPeriod
  /\ ~Exists(i)
  /\ assertion' = [assertion EXCEPT ![i] = Opened(who, mode, bond, period)]
  /\ pot' = pot + bond
  /\ UNCHANGED <<challengeBond, elapsed, paid, delivered, wiring, donated>>

Judged(a, o) ==
  [a EXCEPT !.status = "VERDICTED", !.originalOutcome = o, !.outcome = o]

CanSubmit(i, o) ==
  /\ IsRuling(o)
  /\ assertion[i].status = "OPEN"
  /\ assertion[i].mode = "INSTANT" => CanFinalise(i, Judged(assertion[i], o), o)

(* An INSTANT verdict is finalised in the same transaction.                *)
SubmitVerdict(i, o) ==
  LET a == Judged(assertion[i], o) IN
  /\ CanSubmit(i, o)
  /\ \/ /\ a.mode = "INSTANT"
        /\ Finalise(i, a, o)
     \/ /\ a.mode = "AUDITED"
        /\ assertion' = [assertion EXCEPT ![i] = a]
        /\ UNCHANGED <<challengeBond, pot, paid, delivered>>
  /\ elapsed' = [elapsed EXCEPT ![i] = 0]
  /\ UNCHANGED <<wiring, donated>>

(* The last instant of the window still belongs to the challenger.         *)
CanChallenge(i) ==
  LET a == assertion[i] IN
  /\ a.status = "VERDICTED"
  /\ a.mode = "AUDITED"
  /\ elapsed[i] <= a.period
  /\ a.bond # 0

ChallengeAssertion(i, who) ==
  LET a == assertion[i] IN
  /\ CanChallenge(i)
  /\ assertion' = [assertion EXCEPT ![i].status = "CHALLENGED",
                                    ![i].challenger = who]
  /\ challengeBond' = [challengeBond EXCEPT ![i] = a.bond]
  /\ pot' = pot + a.bond
  /\ UNCHANGED <<elapsed, paid, delivered, wiring, donated>>

(* Fault: the window is closed an instant early.                           *)
CanResolveUnchallengedEarly(i) ==
  LET a == assertion[i] IN
  /\ a.status = "VERDICTED" /\ a.mode = "AUDITED"
  /\ elapsed[i] >= a.period
  /\ CanFinalise(i, a, a.originalOutcome)

(* Fault: an instant belongs neither to the challenger nor to silence.     *)
CanResolveUnchallengedLate(i) ==
  LET a == assertion[i] IN
  /\ a.status = "VERDICTED" /\ a.mode = "AUDITED"
  /\ elapsed[i] > a.period + 1
  /\ CanFinalise(i, a, a.originalOutcome)

CanResolveUnchallenged(i) ==
  LET a == assertion[i] IN
  /\ a.status = "VERDICTED"
  /\ a.mode = "AUDITED"
  /\ elapsed[i] > a.period
  /\ CanFinalise(i, a, a.originalOutcome)

(* resolveAssertion by anyone once the window has passed in silence; the   *)
(* outcome the caller names is ignored.                                    *)
ResolveUnchallenged(i) ==
  /\ CanResolveUnchallenged(i)
  /\ Finalise(i, assertion[i], assertion[i].originalOutcome)
  /\ UNCHANGED <<elapsed, wiring, donated>>

(* resolveAssertion by a holder of ENFORCER_ROLE with the panel's ruling.  *)
CanResolve(caller, i, final) ==
  /\ assertion[i].status = "CHALLENGED"
  /\ caller \in enforcerRole
  /\ IsRuling(final)
  /\ CanFinalise(i, assertion[i], final)

ResolveChallenged(caller, i, final) ==
  /\ CanResolve(caller, i, final)
  /\ Finalise(i, assertion[i], final)
  /\ UNCHANGED <<elapsed, wiring, donated>>

(* Fault: a resolved assertion is not refused.                             *)
ForceResolveAgain(i, forced) ==
  LET a == assertion[i] IN
  /\ Exists(i)
  /\ IsRuling(forced)
  /\ assertion' = [assertion EXCEPT ![i] = Resolved(a, forced)]
  /\ SettleBonds(i, a, forced)
  /\ UNCHANGED <<elapsed, delivered, wiring, donated>>

(* Fault: the escape hatch calls the application after all.                *)
CanForceDispatching(i, forced) ==
  /\ Live(i)
  /\ IsRuling(forced)
  /\ CanFinalise(i, assertion[i], forced)

(* The administrator's escape hatch: bonds settle, nothing is dispatched.  *)
CanForce(i, forced) ==
  /\ Live(i)
  /\ IsRuling(forced)
  /\ CanSettle(i, assertion[i], forced)

ForceResolve(i, forced) ==
  LET a == assertion[i] IN
  /\ CanForce(i, forced)
  /\ assertion' = [assertion EXCEPT ![i] = Resolved(a, forced)]
  /\ SettleBonds(i, a, forced)
  /\ UNCHANGED <<elapsed, delivered, wiring, donated>>

(* Block time advances.  Only a VERDICTED assertion is ever compared with  *)
(* the clock, and past MaxPeriod every comparison has the same answer.     *)
Aging(i) == assertion[i].status = "VERDICTED" /\ elapsed[i] <= MaxPeriod

Tick ==
  /\ \E i \in Ids : Aging(i)
  /\ elapsed' = [i \in Ids |-> IF Aging(i) THEN elapsed[i] + 1 ELSE elapsed[i]]
  /\ UNCHANGED <<assertion, challengeBond, pot, paid, delivered, wiring, donated>>
-----------------------------------------------------------------------------
Administer ==
  \/ \E e \in Enforcers : SetEnforcer(e) \/ AuthorizeRegistry(e) \/ RevokeRegistry(e)
  \/ \E a \in Accounts : SetFeeSink(a)
  \/ GrantEnforcerRole

(* Everything but the panel's ruling, which EscalationManager drives.      *)
NextUnappealed ==
  \/ Administer
  \/ \E x \in 1..MaxDonation : Receive(x)
  \/ Tick
  \/ \E i \in Ids :
       \/ \E who \in Accounts, m \in Modes, b \in Bonds, p \in Periods :
             CreateAssertion(i, who, m, b, p)
       \/ \E o \in Outcomes : SubmitVerdict(i, o)
       \/ \E who \in Accounts : ChallengeAssertion(i, who)
       \/ ResolveUnchallenged(i)
       \/ \E o \in Outcomes : ForceResolve(i, o)

Next ==
  \/ NextUnappealed
  \/ \E i \in Ids, c \in Enforcers \cup {Escalation}, o \in Outcomes :
        ResolveChallenged(c, i, o)

Spec == Init /\ [][Next]_vars
-----------------------------------------------------------------------------
(* Properties.                                                             *)

(* Ether posted for assertion i and not yet settled.                       *)
StakeOf(i) == IF Live(i) THEN assertion[i].bond + challengeBond[i] ELSE 0

(* Ether ever posted for assertion i: the asserter's bond, and the same    *)
(* amount again from a challenger.                                         *)
PostedFor(i) ==
  assertion[i].bond
    + (IF assertion[i].challenger = NoAccount THEN 0 ELSE assertion[i].bond)

(* The registry holds exactly the unsettled bonds of all assertions, plus  *)
(* what was donated: no settlement is paid out of another one's bond.      *)
Solvent == pot = donated + SumFunctionOnSet([i \in Ids |-> StakeOf(i)], Ids)

(* An assertion pays out all that was posted for it, and only once it is   *)
(* resolved, whichever of the four ways to resolve it was taken.           *)
SettledExactly ==
  \A i \in Ids :
    Total(paid[i]) =
      IF assertion[i].status = "RESOLVED" THEN PostedFor(i) ELSE 0

(* The rules of the bond, read off the final state: the fee sink takes     *)
(* only unchallenged INVALID bonds, a challenger is better off only when   *)
(* the panel overturned the verdict, and worse off only when it upheld it. *)
FairTo(i) ==
  LET a == assertion[i] IN
  /\ paid[i].sink > 0 => a.challenger = NoAccount /\ a.outcome = "INVALID"
  /\ paid[i].challenger > a.bond => a.outcome \notin {"INVALID", a.originalOutcome}
  /\ a.challenger # NoAccount /\ paid[i].challenger < a.bond =>
       a.outcome = a.originalOutcome

FairSettlement ==
  \A i \in Ids : assertion[i].status = "RESOLVED" => FairTo(i)

(* The application hears at most one outcome, it is the recorded one, and  *)
(* it hears it in the very step that resolves the assertion.               *)
HeardOnce ==
  \A i \in Ids :
    \/ delivered[i] = <<>>
    \/ /\ assertion[i].status = "RESOLVED"
       /\ delivered[i] = <<assertion[i].outcome>>

(* No AUDITED verdict reaches an application while it could still be       *)
(* challenged, and no challenge is filed once silence could finalise it:   *)
(* the two windows share no instant.                                       *)
WindowHonoured ==
  \A i \in Ids :
    delivered[i] # <<>> /\ assertion[i].mode = "AUDITED" =>
      (elapsed[i] <= assertion[i].period <=> assertion[i].challenger # NoAccount)

(* Without a challenger or the escape hatch, the judge's call stands.      *)
JudgeStands ==
  \A i \in Ids :
    delivered[i] # <<>> /\ assertion[i].challenger = NoAccount =>
      assertion[i].outcome = assertion[i].originalOutcome

(* RESOLVED is for ever: no later step moves money, tells the application  *)
(* anything, or changes the record.                                        *)
ResolvedIsFinal ==
  [][\A i \in Ids : assertion[i].status = "RESOLVED" =>
        /\ assertion'[i] = assertion[i]
        /\ paid'[i] = paid[i]
        /\ delivered'[i] = delivered[i]]_vars

(* The inductive invariant behind the safety properties.  Before an        *)
(* assertion is resolved nothing was paid or delivered, a challenger and   *)
(* its bond exist exactly while it is CHALLENGED, and only an AUDITED one  *)
(* rests with a verdict; afterwards its books are closed.                  *)
Unsettled(i) ==
  LET a == assertion[i] IN
  /\ paid[i] = NoPayout
  /\ delivered[i] = <<>>
  /\ challengeBond[i] = IF a.status = "CHALLENGED" THEN a.bond ELSE 0
  /\ a.challenger # NoAccount <=> a.status = "CHALLENGED"
  /\ a.status \in {"VERDICTED", "CHALLENGED"} =>
       a.mode = "AUDITED" /\ a.originalOutcome \in Rulings
  /\ a.status = "CHALLENGED" => elapsed[i] <= a.period

Settled(i) ==
  LET a == assertion[i] IN
  /\ a.outcome \in Rulings
  /\ challengeBond[i] = 0
  /\ Total(paid[i]) = PostedFor(i)
  /\ FairTo(i)
  /\ delivered[i] \in {<<>>, <<a.outcome>>}
  /\ delivered[i] # <<>> =>
       /\ a.mode = "AUDITED" =>
            (elapsed[i] <= a.period <=> a.challenger # NoAccount)
       /\ a.challenger = NoAccount => a.outcome = a.originalOutcome

RegistryInv ==
  /\ TypeOK
  /\ \A i \in Ids :
       IF assertion[i].status = "RESOLVED" THEN Settled(i) ELSE Unsettled(i)

(* The callback of i can be reached and the panel may rule: the dispatcher *)
(* in use is authorised and is the one the application trusts, and the     *)
(* escalation manager has its role.                                        *)
Wired(i) == CanDispatch(i) /\ Escalation \in enforcerRole

(* The accounts that may be owed something at the settlement of i.         *)
PartiesAcceptEther(i) ==
  {assertion[i].asserter, assertion[i].challenger, feeSink} \cap Rejecting = {}

(* The window of a verdict nobody can challenge, having no bond to match.  *)
MustWait(i) == assertion[i].bond = 0 /\ elapsed[i] <= assertion[i].period

(* No live assertion needs the administrator, whatever has happened to it  *)
(* or to the pot: while its callback is reachable and the accounts it      *)
(* concerns accept ether, the judge may still rule as it likes, or the     *)
(* verdict is open to a challenge, or silence may finalise it, or the      *)
(* panel may rule as it likes.  No instant falls between two windows.      *)
NeverStuck ==
  \A i \in Ids : Live(i) /\ Wired(i) /\ PartiesAcceptEther(i) =>
    \/ \A o \in Rulings : CanSubmit(i, o)
    \/ CanChallenge(i)
    \/ CanResolveUnchallenged(i)
    \/ \A o \in Rulings : CanResolve(Escalation, i, o)
    \/ assertion[i].status = "VERDICTED" /\ MustWait(i)

(* forceResolve gets any live assertion out with any ruling, whatever its  *)
(* callback does and however the dispatcher is wired, as long as the       *)
(* accounts concerned accept ether: the pot never falls short.             *)
EscapeHatch ==
  \A i \in Ids :
    Live(i) /\ PartiesAcceptEther(i)
      => \A o \in Rulings : CanForce(i, o)

(* What an application knows of assertion i: the refinement mapping to     *)
(* VerdictOracle.                                                          *)
AnswerTo(i) ==
  CASE assertion[i].status = "NONE" -> "UNASKED"
    [] assertion[i].status = "RESOLVED" -> assertion[i].outcome
    [] OTHER -> "WAITING"

Oracle == INSTANCE VerdictOracle WITH
  Ids <- Ids,
  Stakes <- Bonds,
  answer <- [i \in Ids |-> AnswerTo(i)],
  stake <- [i \in Ids |-> assertion[i].bond],
  heard <- delivered,
  repaid <- [i \in Ids |-> paid[i].asserter]

(* The registry implements VerdictOracle.                                  *)
KeepsThePromise == Oracle!Spec
=============================================================================
