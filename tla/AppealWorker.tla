----------------------------- MODULE AppealWorker -----------------------------
(***************************************************************************)
(* The worker that drives an appeal through the EscalationManager          *)
(* (api/src/workers/appeal.ts, api/src/services/appeal.ts).  The panel     *)
(* decides off the chain; then one transaction opens the appeal, three     *)
(* record the votes and a last one closes it.  Each transaction is awaited *)
(* on its own, so a throw between two of them leaves an appeal half done,  *)
(* and the next attempt starts from the beginning.                         *)
(*                                                                         *)
(* The page of an appeal (web/src/components/verdict/appeal-panel.tsx)     *)
(* reads the chain when it opens and after its own challenge, and polls    *)
(* the logs every six seconds: what it shows is of two moments.            *)
(***************************************************************************)
EXTENDS EscalationManager

CONSTANTS
  PanelTokens,   \* PANEL_TOKEN_IDS, in order
  ATTEMPTS       \* attempts the queue gives a job

VARIABLES
  enqueued,    \* assertions whose AssertionChallenged the indexer has handled
  job,         \* the appeal job of every assertion
  logs,        \* reasoning_logs of the panel, in order
  announced,   \* the final outcome published to the live stream
  screen,      \* what the page of each assertion shows
  cutShort     \* history: assertions with an attempt that failed between the
               \* opening and the closing of the appeal without a revert

ASSUME WorkerAssumption ==
  /\ PanelTokens \in Seq(Nat)
  /\ ATTEMPTS \in Nat \ {0}

jobVars == <<enqueued, job, logs, announced, screen, cutShort>>
workerVars == <<vars, jobVars>>

PANEL == 1..Len(PanelTokens)
Steps == {"prepare", "open", "vote", "close", "log", "done"}

NoJob == [state |-> "none", attempts |-> 0, step |-> "prepare",
          decisions |-> <<>>, next |-> 1]

Job == [state : {"none", "waiting", "active", "completed", "failed"},
        attempts : 0..ATTEMPTS, step : Steps,
        decisions : {<<>>} \cup [PANEL -> Rulings], next : Nat]

(* `onchain` of the page, before it is read and as far as it is shown, and *)
(* `detail`: how many of the panel's logs.                                 *)
Loading == [status |-> "loading", originalOutcome |-> "PENDING",
            outcome |-> "PENDING", votes |-> 0]

Screen == [status : Statuses \cup {"loading"},
           originalOutcome : Outcomes, outcome : Outcomes, votes : 0..3]

WorkerTypeOK ==
  /\ TypeOK
  /\ enqueued \subseteq Ids
  /\ job \in [Ids -> Job]
  /\ logs \in [Ids -> Seq(Rulings)]
  /\ announced \in [Ids -> Rulings \cup {"PENDING"}]
  /\ screen \in [Ids -> Screen]
  /\ cutShort \subseteq Ids

WorkerInit ==
  /\ NothingAsked
  /\ Judges!AllMinted
  /\ enqueued = {}
  /\ job = [i \in Ids |-> NoJob]
  /\ logs = [i \in Ids |-> <<>>]
  /\ announced = [i \in Ids |-> "PENDING"]
  /\ screen = [i \in Ids |-> Loading]
  /\ cutShort = {}
-----------------------------------------------------------------------------
(* Users, the judge and the administrator.                                 *)
Elsewhere ==
  /\ \/ RegistryStep
     \/ \E i \in Ids, o \in Calls, t \in JudgeTokens : SubmitVerdict(i, o, t)
  /\ UNCHANGED jobVars

(* The indexer adds the job once; replays find it retained.                *)
Enqueue(i) ==
  /\ assertion[i].challenger # NoAccount
  /\ i \notin enqueued
  /\ enqueued' = enqueued \cup {i}
  /\ job' = [job EXCEPT ![i].state = "waiting"]
  /\ UNCHANGED <<vars, logs, announced, screen, cutShort>>
-----------------------------------------------------------------------------
At(i, step) == job[i].state = "active" /\ job[i].step = step

Thrown(j) ==
  [NoJob EXCEPT !.attempts = j.attempts + 1,
                !.state = IF j.attempts + 1 < ATTEMPTS THEN "waiting" ELSE "failed"]

Start(i) ==
  /\ job[i].state = "waiting"
  /\ job' = [job EXCEPT ![i].state = "active"]
  /\ UNCHANGED <<vars, enqueued, logs, announced, screen, cutShort>>

(* Fault: a decision is logged before it is cast as a vote.                *)
PrepareAndLog(i) ==
  /\ At(i, "prepare")
  /\ \E d \in [PANEL -> Calls \cap Rulings] :
       /\ job' = [job EXCEPT ![i].step = "open", ![i].decisions = d]
       /\ logs' = [logs EXCEPT ![i] = Append(@, d[1])]
  /\ UNCHANGED <<vars, enqueued, announced, screen, cutShort>>

(* Three different panellists, none of them the "no judge" token, decide.  *)
Prepare(i) ==
  /\ At(i, "prepare")
  /\ Len(PanelTokens) = 3
  /\ Cardinality({PanelTokens[n] : n \in PANEL}) = 3
  /\ \A n \in PANEL : PanelTokens[n] # 0
  /\ \E d \in [PANEL -> Calls \cap Rulings] :
       job' = [job EXCEPT ![i].step = "open", ![i].decisions = d]
  /\ UNCHANGED <<vars, enqueued, logs, announced, screen, cutShort>>

(* A transaction is mined; then the attempt goes on, or its wait for the   *)
(* receipt throws.                                                         *)
MinedThen(i, after) ==
  /\ \/ /\ job' = [job EXCEPT ![i] = after]
        /\ UNCHANGED cutShort
     \/ /\ job' = [job EXCEPT ![i] = Thrown(@)]
        /\ cutShort' = cutShort \cup {i}
  /\ UNCHANGED <<enqueued, logs, announced, screen>>

(* Fault: an appeal that an earlier attempt opened is carried on.          *)
OpenOrContinue(i) ==
  /\ At(i, "open")
  /\ \/ OpenAppeal(i)
     \/ appeal[i].opened /\ UNCHANGED vars
  /\ MinedThen(i, [job[i] EXCEPT !.step = "vote"])

Open(i) ==
  /\ At(i, "open")
  /\ OpenAppeal(i)
  /\ MinedThen(i, [job[i] EXCEPT !.step = "vote"])

(* Fault: the appeal is closed one vote early.                             *)
VoteShort(i) ==
  LET n == job[i].next IN
  /\ At(i, "vote")
  /\ RecordPanelVote(i, PanelTokens[n], job[i].decisions[n])
  /\ MinedThen(i, [job[i] EXCEPT !.next = n + 1,
                                 !.step = IF n + 1 = Len(PanelTokens) THEN "close" ELSE "vote"])

Vote(i) ==
  LET n == job[i].next IN
  /\ At(i, "vote")
  /\ RecordPanelVote(i, PanelTokens[n], job[i].decisions[n])
  /\ MinedThen(i, [job[i] EXCEPT !.next = n + 1,
                                 !.step = IF n = Len(PanelTokens) THEN "close" ELSE "vote"])

Close(i) ==
  /\ At(i, "close")
  /\ CloseAppeal(i)
  /\ MinedThen(i, [job[i] EXCEPT !.step = "log", !.next = 1])

InsertLog(i) ==
  LET n == job[i].next IN
  /\ At(i, "log")
  /\ logs' = [logs EXCEPT ![i] = Append(@, job[i].decisions[n])]
  /\ job' = [job EXCEPT ![i].next = n + 1,
                        ![i].step = IF n = Len(PanelTokens) THEN "done" ELSE "log"]
  /\ UNCHANGED <<vars, enqueued, announced, screen, cutShort>>

(* plurality() of the service: INVALID unless one ruling is strictly ahead. *)
PluralityOf(d) ==
  LET count(o) == Quantify(DOMAIN d, LAMBDA n : d[n] = o)
      ahead(o) == \A x \in Rulings \ {o} : count(o) > count(x) IN
  IF ahead("TRUE") THEN "TRUE" ELSE IF ahead("FALSE") THEN "FALSE" ELSE "INVALID"

Announce(i) ==
  /\ At(i, "done")
  /\ announced' = [announced EXCEPT ![i] = PluralityOf(job[i].decisions)]
  /\ job' = [job EXCEPT ![i] = [NoJob EXCEPT !.state = "completed"]]
  /\ UNCHANGED <<vars, enqueued, logs, screen, cutShort>>

(* A failed inference, upload, RPC call or insert.                         *)
Throw(i) ==
  /\ job[i].state = "active"
  /\ job' = [job EXCEPT ![i] = Thrown(@)]
  /\ cutShort' = IF job[i].step \in {"vote", "close"} THEN cutShort \cup {i} ELSE cutShort
  /\ UNCHANGED <<vars, enqueued, logs, announced, screen>>

(* A transaction that the chain reverts throws as well.                    *)
Revert(i) ==
  /\ job[i].state = "active"
  /\ job[i].step \in {"open", "vote", "close"}
  /\ ~ENABLED (Open(i) \/ Vote(i) \/ Close(i))
  /\ job' = [job EXCEPT ![i] = Thrown(@)]
  /\ UNCHANGED <<vars, enqueued, logs, announced, screen, cutShort>>
-----------------------------------------------------------------------------
(* getAssertion of the registry: on opening the page, and again after a    *)
(* challenge was sent from it.  Nothing is shown of an INSTANT assertion.   *)
Onchain(i) ==
  [status |-> assertion[i].status, originalOutcome |-> assertion[i].originalOutcome,
   outcome |-> assertion[i].outcome, votes |-> screen[i].votes]

CanChallenge(i) == screen[i].status = "VERDICTED"

OpenPanel(i) ==
  /\ assertion[i].mode = "AUDITED"
  /\ screen[i].status = "loading" \/ CanChallenge(i)
  /\ screen' = [screen EXCEPT ![i] = Onchain(i)]
  /\ UNCHANGED <<vars, enqueued, job, logs, announced, cutShort>>

(* Another page is opened, or this one again.                              *)
LeavePanel(i) ==
  /\ screen[i] # Loading
  /\ screen' = [screen EXCEPT ![i] = Loading]
  /\ UNCHANGED <<vars, enqueued, job, logs, announced, cutShort>>

(* GET /api/assertions/:id, and PanelList: the logs that name a judge's    *)
(* token.                                                                  *)
Reasonings(i) == logs[i]
PanelVotes(i) == Len(Reasonings(i))

(* Every six seconds.                                                      *)
PollDetail(i) ==
  /\ screen' = [screen EXCEPT ![i].votes = PanelVotes(i)]
  /\ UNCHANGED <<vars, enqueued, job, logs, announced, cutShort>>
-----------------------------------------------------------------------------
Work(i) ==
  \/ Start(i) \/ Prepare(i)
  \/ Open(i) \/ Vote(i) \/ Close(i) \/ Revert(i)
  \/ InsertLog(i) \/ Announce(i)

WorkerNext ==
  \/ Elsewhere
  \/ \E i \in Ids : Enqueue(i) \/ Work(i) \/ Throw(i)
  \/ \E i \in Ids : OpenPanel(i) \/ LeavePanel(i) \/ PollDetail(i)

WorkerSpec == WorkerInit /\ [][WorkerNext]_workerVars

(* The indexer hands over every challenge and the worker runs its jobs.    *)
FairWorkerSpec ==
  /\ WorkerSpec
  /\ \A i \in Ids : WF_workerVars(Enqueue(i)) /\ WF_workerVars(Work(i))
-----------------------------------------------------------------------------
(* The votes on the chain come from one attempt: a later attempt never     *)
(* adds its own to an appeal that an earlier one opened.                   *)
VotesOfOneAttempt(i) ==
  At(i, "vote") =>
    /\ appeal[i].votesRecorded = job[i].next - 1
    /\ \A n \in 1..(job[i].next - 1) : appeal[i].votes[PanelTokens[n]] = job[i].decisions[n]

(* The worker never votes on behalf of an attempt that is gone.            *)
WorkerInv == WorkerTypeOK /\ \A i \in Ids : VotesOfOneAttempt(i)

(* outcomeHeadline of the page.                                            *)
Upheld(i) == screen[i].outcome = screen[i].originalOutcome

(* The logs of an appeal are the votes the chain counted, in order, never  *)
(* the decisions of an attempt that failed.                                *)
LoggedAsVoted(i) ==
  \A n \in DOMAIN logs[i] :
    /\ n \in PANEL
    /\ PanelTokens[n] \in DOMAIN appeal[i].votes
    /\ logs[i][n] = appeal[i].votes[PanelTokens[n]]

(* The panel's public record is the panel that ruled: in its logs, in what *)
(* the live stream announces, which the registry recorded, and on a page   *)
(* that shows three votes and the headline they make, although it read     *)
(* them at different times.                                                *)
RulingAsTold ==
  \A i \in Ids :
    /\ LoggedAsVoted(i)
    /\ announced[i] # "PENDING" =>
         assertion[i].status = "RESOLVED" /\ assertion[i].outcome = announced[i]
    /\ screen[i].status = "RESOLVED" /\ screen[i].votes = 3 =>
         Upheld(i) <=> PluralityOf(logs[i]) = screen[i].originalOutcome

(* While the dispatcher keeps its authorisation, every challenge is ruled  *)
(* on by a panel, unless the job used up its attempts before the appeal    *)
(* began, or one was cut short while it was open.                          *)
ChallengeIsRuled ==
  [](enforcer \in authorised) =>
    \A i \in Ids :
      (assertion[i].status = "CHALLENGED")
        ~> \/ assertion[i].status # "CHALLENGED"
           \/ job[i].state = "failed" /\ (~appeal[i].opened \/ i \in cutShort)

(* The status CHALLENGED is documented as "EscalationManager must          *)
(* resolve": an appeal that was opened is closed, unless the administrator *)
(* resolved the assertion meanwhile.                                       *)
OpenedIsClosed ==
  [](enforcer \in authorised) =>
    \A i \in Ids : appeal[i].opened ~> (assertion[i].status = "RESOLVED")
=============================================================================
