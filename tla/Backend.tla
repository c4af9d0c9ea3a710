------------------------------- MODULE Backend -------------------------------
(***************************************************************************)
(* The relayer behind the protocol, composed with the AssertionRegistry it *)
(* reads and writes: the chain indexer (api/src/workers/indexer.ts), the   *)
(* judgment queue (api/src/lib/queue.ts) with its worker                   *)
(* (api/src/workers/judgment.ts, api/src/services/judgment.ts), and the    *)
(* database row that mirrors an assertion.                                 *)
(*                                                                         *)
(* Every await of the code is a point where the other actors may step and  *)
(* where the call may fail, so each of the awaits that changes state is an *)
(* action of its own.  A failed database, Redis or RPC call is a throw;    *)
(* the process may also stop and be restarted between any two actions.     *)
(***************************************************************************)
EXTENDS Integers, Sequences, FiniteSetsExt, VerdictTypes

CONSTANTS
  Ids, Accounts, NoAccount, Enforcers, Escalation, Bonds, Periods,
  MinPeriod, MaxPeriod, Rejecting, Trusts, MaxDonation,  \* of AssertionRegistry
  ATTEMPTS,      \* attempts the queue gives a job
  MaxPasses,     \* bound: passes over the registry at one time
  MaxFaults,     \* bound: throws in the indexer and restarts of the process
  MaxBadReads    \* bound: failed reads of verdict metadata

VARIABLES
  assertion, challengeBond, elapsed, feeSink, enforcer, enforcerRole,
  authorised, pot, donated, paid, delivered,             \* of AssertionRegistry
  log,         \* the registry's events, in chain order
  row,         \* the assertions table
  checkpoint, pass, awaited, straggled, faults,  \* of ApplicationIndexer
  job,         \* the judgment job of every assertion
  logged,      \* reasoning_logs: outcomes inserted, in order
  badReads     \* failed metadata reads so far

Registry == INSTANCE AssertionRegistry

(* A tick's pass over the registry is run and awaited like the others, so  *)
(* that it may outlive its tick and overlap the next pass.                 *)
Indexer == INSTANCE ApplicationIndexer WITH events <- log

ASSUME BackendAssumption ==
  /\ Registry!RegistryAssumption
  /\ ATTEMPTS \in Nat \ {0}
  /\ Indexer!IndexerAssumption
  /\ MaxBadReads \in Nat

registryVars ==
  <<assertion, challengeBond, elapsed, feeSink, enforcer, enforcerRole,
    authorised, pot, donated, paid, delivered>>
indexerVars == <<checkpoint, pass, awaited, straggled>>
faultVars == <<faults, badReads>>
vars == <<registryVars, log, row, indexerVars, job, logged, faultVars>>

Event == [tx : Nat, kind : {"Created", "Verdict", "Challenged", "Resolved"},
          id : Ids, mode : Modes, outcome : Outcomes]

NoRow == [mode |-> "NONE", outcome |-> "PENDING", period |-> 0,
          verdicted |-> FALSE, resolved |-> FALSE]

Row == [mode : Modes \cup {"NONE"}, outcome : Outcomes, period : Nat,
        verdicted : BOOLEAN, resolved : BOOLEAN]

NoJob == [state |-> "none", attempts |-> 0, stalls |-> 0, step |-> "load",
          decision |-> "PENDING"]

Job == [state : {"none", "waiting", "active", "completed", "failed", "gone"},
        attempts : 0..ATTEMPTS, stalls : 0..1,
        step : {"load", "decide", "submit", "log", "update"}, decision : Outcomes]

TypeOK ==
  /\ Registry!TypeOK
  /\ log \in Seq(Event)
  /\ row \in [Ids -> Row]
  /\ Indexer!IndexerTypeOK
  /\ job \in [Ids -> Job]
  /\ logged \in [Ids -> Seq(Rulings)]
  /\ badReads \in 0..MaxBadReads

Init ==
  /\ Registry!EmptyBooks
  /\ Registry!Deployed
  /\ Indexer!IndexerInit
  /\ row = [i \in Ids |-> NoRow]
  /\ job = [i \in Ids |-> NoJob]
  /\ logged = [i \in Ids |-> <<>>]
  /\ badReads = 0
-----------------------------------------------------------------------------
(* The chain.  Each transaction emits its events in order.                 *)

NextTx == IF log = <<>> THEN 1 ELSE log[Len(log)].tx + 1

(* The events a transaction emits for assertion i, in order.               *)
Emit(i, kinds) ==
  log' = log \o [n \in DOMAIN kinds |->
            [tx |-> NextTx, kind |-> kinds[n], id |-> i,
             mode |-> assertion'[i].mode, outcome |-> assertion'[i].outcome]]

(* What users, the panel and the administrator do to the registry.         *)
Elsewhere ==
  /\ \/ /\ Registry!Tick
        /\ UNCHANGED log
     \/ \E i \in Ids :
          \/ /\ \E who \in Accounts, m \in Modes, b \in Bonds, p \in Periods :
                   Registry!CreateAssertion(i, who, m, b, p)
             /\ Emit(i, <<"Created">>)
          \/ /\ \E who \in Accounts : Registry!ChallengeAssertion(i, who)
             /\ Emit(i, <<"Challenged">>)
          \/ /\ \/ Registry!ResolveUnchallenged(i)
                \/ \E o \in Rulings :
                     \/ Registry!ResolveChallenged(Escalation, i, o)
                     \/ Registry!ForceResolve(i, o)
             /\ Emit(i, <<"Resolved">>)
  /\ UNCHANGED <<row, indexerVars, job, logged, faultVars>>

(* The relayer's verdict transaction.                                      *)
SendVerdict(i, o) ==
  /\ Registry!SubmitVerdict(i, o)
  /\ Emit(i, IF assertion[i].mode = "INSTANT" THEN <<"Verdict", "Resolved">>
                                              ELSE <<"Verdict">>)
-----------------------------------------------------------------------------
(* The judgment queue.                                                     *)

(* Queue.add with a fixed jobId: ignored while any job of that id, even a  *)
(* finished or failed one, is still retained.                              *)
Added(i) ==
  [job EXCEPT ![i] = IF @.state \in {"none", "gone"} THEN [NoJob EXCEPT !.state = "waiting"]
                     ELSE @]

(* POST /api/assertions/:id/enqueue.                                       *)
Enqueue(i) ==
  /\ row[i] # NoRow
  /\ row[i].outcome = "PENDING"
  /\ job' = Added(i)
  /\ UNCHANGED <<registryVars, log, row, indexerVars, logged, faultVars>>

(* removeOnComplete and removeOnFail: a retained job is deleted.           *)
Forget(i) ==
  /\ job[i].state \in {"completed", "failed"}
  /\ job' = [job EXCEPT ![i] = [NoJob EXCEPT !.state = "gone"]]
  /\ UNCHANGED <<registryVars, log, row, indexerVars, logged, faultVars>>

(* A throw in judge() costs an attempt, and the last one fails the job.    *)
Thrown(j) ==
  [NoJob EXCEPT !.attempts = j.attempts + 1, !.stalls = j.stalls,
                !.state = IF j.attempts + 1 < ATTEMPTS THEN "waiting" ELSE "failed"]

(* The process stopped: the lock expires and the job is run again, once.   *)
Stalled(j) ==
  IF j.state # "active" THEN j
  ELSE [NoJob EXCEPT !.attempts = j.attempts, !.stalls = 1,
                     !.state = IF j.stalls = 0 THEN "waiting" ELSE "failed"]
-----------------------------------------------------------------------------
(* judge(): load the row, let the model decide, submit, log, update.       *)

At(i, step) == job[i].state = "active" /\ job[i].step = step
GoTo(i, step) == job' = [job EXCEPT ![i].step = step]

Start(i) ==
  /\ job[i].state = "waiting"
  /\ job' = [job EXCEPT ![i].state = "active"]
  /\ UNCHANGED <<registryVars, log, row, logged, indexerVars, faultVars>>

Load(i) ==
  /\ At(i, "load")
  /\ row[i] # NoRow /\ row[i].outcome = "PENDING"
  /\ GoTo(i, "decide")
  /\ UNCHANGED <<registryVars, log, row, logged, indexerVars, faultVars>>

(* Fault: the log is written before the verdict is sent.                   *)
DecideAndLog(i, o) ==
  /\ At(i, "decide")
  /\ job' = [job EXCEPT ![i].step = "submit", ![i].decision = o]
  /\ logged' = [logged EXCEPT ![i] = Append(@, o)]
  /\ UNCHANGED <<registryVars, log, row, indexerVars, faultVars>>

(* Evidence, inference and the upload of the transcript.                   *)
DecideOutcome(i, o) ==
  /\ At(i, "decide")
  /\ job' = [job EXCEPT ![i].step = "submit", ![i].decision = o]
  /\ UNCHANGED <<registryVars, log, row, logged, indexerVars, faultVars>>

Submit(i) ==
  /\ At(i, "submit")
  /\ SendVerdict(i, job[i].decision)
  /\ GoTo(i, "log")
  /\ UNCHANGED <<row, logged, indexerVars, faultVars>>

(* The transaction is mined but the wait for its receipt throws.           *)
SubmitUnheard(i) ==
  /\ At(i, "submit")
  /\ SendVerdict(i, job[i].decision)
  /\ job' = [job EXCEPT ![i] = Thrown(@)]
  /\ UNCHANGED <<row, logged, indexerVars, faultVars>>

InsertLog(i) ==
  /\ At(i, "log")
  /\ logged' = [logged EXCEPT ![i] = Append(@, job[i].decision)]
  /\ GoTo(i, "update")
  /\ UNCHANGED <<registryVars, log, row, indexerVars, faultVars>>

(* Fault: every verdict is taken for the end of the matter.                *)
UpdateOutcomeResolved(i) ==
  /\ At(i, "update")
  /\ row' = [row EXCEPT ![i].outcome = job[i].decision, ![i].resolved = TRUE]
  /\ job' = [job EXCEPT ![i] = [NoJob EXCEPT !.state = "completed"]]
  /\ UNCHANGED <<registryVars, log, logged, indexerVars, faultVars>>

(* updateOutcome writes whatever the row has become meanwhile.             *)
UpdateOutcome(i) ==
  /\ At(i, "update")
  /\ row' = [row EXCEPT ![i].outcome = job[i].decision,
                        ![i].resolved = @ \/ row[i].mode = "INSTANT"]
  /\ job' = [job EXCEPT ![i] = [NoJob EXCEPT !.state = "completed"]]
  /\ UNCHANGED <<registryVars, log, logged, indexerVars, faultVars>>

(* Any await may throw, a revert of the transaction included, and so does  *)
(* a row that is missing or already has an outcome.                        *)
JudgeThrows(i) ==
  /\ job[i].state = "active"
  /\ job' = [job EXCEPT ![i] = Thrown(@)]
  /\ UNCHANGED <<registryVars, log, row, logged, indexerVars, faultVars>>
-----------------------------------------------------------------------------
(* The indexer.                                                            *)

Passes == Indexer!Passes
Running(p) == Indexer!Running(p)

(* Fault: the checkpoint is saved before the events are handled.           *)
StartPassSaved(p) ==
  /\ awaited = {}
  /\ Indexer!Fresh(p)
  /\ \E n \in (checkpoint + 1)..Len(log) :
       pass' = [pass EXCEPT ![p] = [at |-> checkpoint, to |-> n]] /\ checkpoint' = n
  /\ awaited' = {p}
  /\ straggled' = (straggled \/ \E q \in Passes : Running(q))
  /\ UNCHANGED <<registryVars, log, row, job, logged, faultVars>>

(* A tick reads the log from the checkpoint to a tip between two blocks,   *)
(* some confirmations back.                                                *)
StartPass(p) ==
  /\ awaited = {}
  /\ Indexer!Fresh(p)
  /\ \E n \in (checkpoint + 1)..Len(log) :
       /\ n < Len(log) => log[n].tx # log[n + 1].tx
       /\ pass' = [pass EXCEPT ![p] = [at |-> checkpoint, to |-> n]]
  /\ awaited' = {p}
  /\ straggled' = (straggled \/ \E q \in Passes : Running(q))
  /\ UNCHANGED <<registryVars, log, row, checkpoint, job, logged, faultVars>>

(* The row of a new assertion is inserted; its job is another await.       *)
InsertRow(p) ==
  /\ Indexer!Pending(p)
  /\ LET e == Indexer!Upcoming(p) IN
       /\ e.kind = "Created"
       /\ row[e.id] = NoRow
       /\ row' = [row EXCEPT ![e.id].mode = e.mode]
  /\ UNCHANGED <<registryVars, log, indexerVars, job, logged, faultVars>>

(* Fault: the job is not added.                                            *)
HandleCreatedUnqueued(e) ==
  e.kind = "Created" /\ row[e.id] # NoRow /\ UNCHANGED <<row, job, badReads>>

HandleCreated(e) ==
  /\ e.kind = "Created"
  /\ row[e.id] # NoRow
  /\ job' = Added(e.id)
  /\ UNCHANGED <<row, badReads>>

(* The period and time of the verdict are read from the chain.  If that    *)
(* fails the error is swallowed: the period becomes 0, the time stays.     *)
HandleVerdict(e) ==
  /\ e.kind = "Verdict"
  /\ \/ /\ row' = [row EXCEPT ![e.id] = IF @ = NoRow THEN @
                     ELSE [@ EXCEPT !.outcome = e.outcome, !.verdicted = TRUE,
                                    !.period = assertion[e.id].period]]
        /\ UNCHANGED badReads
     \/ /\ badReads < MaxBadReads
        /\ badReads' = badReads + 1
        /\ row' = [row EXCEPT ![e.id] = IF @ = NoRow THEN @
                     ELSE [@ EXCEPT !.outcome = e.outcome, !.period = 0]]
  /\ UNCHANGED job

(* The appeal worker is the subject of AppealWorker.                       *)
HandleChallenged(e) ==
  /\ e.kind = "Challenged"
  /\ UNCHANGED <<row, job, badReads>>

(* Fault: the final outcome is not copied.                                 *)
HandleResolvedUnread(e) ==
  /\ e.kind = "Resolved"
  /\ row' = [row EXCEPT ![e.id] = IF @ = NoRow THEN @ ELSE [@ EXCEPT !.resolved = TRUE]]
  /\ UNCHANGED <<job, badReads>>

HandleResolved(e) ==
  /\ e.kind = "Resolved"
  /\ row' = [row EXCEPT ![e.id] = IF @ = NoRow THEN @
               ELSE [@ EXCEPT !.outcome = e.outcome, !.resolved = TRUE]]
  /\ UNCHANGED <<job, badReads>>

HandleEvent(p) ==
  /\ Indexer!HandleNext(p)
  /\ LET e == Indexer!Upcoming(p) IN
       HandleCreated(e) \/ HandleVerdict(e) \/ HandleChallenged(e) \/ HandleResolved(e)
  /\ UNCHANGED <<registryVars, logged>>

SaveCheckpoint(p) ==
  /\ Indexer!SaveCheckpoint(p)
  /\ UNCHANGED <<registryVars, row, job, logged, badReads>>

(* The pass throws, between the insert and the job too, and the next one   *)
(* starts from the checkpoint; or a neighbour throws, and it goes on.      *)
TickRejects ==
  /\ Indexer!NeighbourThrows \/ \E p \in Passes : Indexer!Throw(p)
  /\ UNCHANGED <<registryVars, row, job, logged, badReads>>

(* The process that runs indexer and workers stops and is started again.   *)
Restart ==
  /\ Indexer!Stop
  /\ job' = [i \in Ids |-> Stalled(job[i])]
  /\ UNCHANGED <<registryVars, row, logged, badReads>>

(* Fault: INVALID verdicts are not finalised.                              *)
DueUnlessInvalid(i) ==
  /\ row[i].mode = "AUDITED" /\ row[i].verdicted /\ ~row[i].resolved
  /\ row[i].outcome \in {"TRUE", "FALSE"}
  /\ elapsed[i] >= row[i].period

(* finaliseDueAudited, in a tick whose pass is over or found no new block. *)
(* Transactions the registry reverts change nothing.                       *)
Due(i) ==
  /\ row[i].mode = "AUDITED"
  /\ row[i].verdicted
  /\ row[i].outcome \notin {"PENDING", "ESCALATED"}
  /\ ~row[i].resolved
  /\ elapsed[i] >= row[i].period

FinaliseDue(i) ==
  /\ awaited = {} /\ \A p \in Passes : pass[p].to <= checkpoint
  /\ Due(i)
  /\ Registry!ResolveUnchallenged(i)
  /\ Emit(i, <<"Resolved">>)
  /\ UNCHANGED <<row, indexerVars, job, logged, faultVars>>
-----------------------------------------------------------------------------
Judging(i) ==
  \/ Start(i)
  \/ Load(i)
  \/ \E o \in Rulings : DecideOutcome(i, o)
  \/ Submit(i)
  \/ InsertLog(i)
  \/ UpdateOutcome(i)

Indexing ==
  \E p \in Passes : StartPass(p) \/ InsertRow(p) \/ HandleEvent(p) \/ SaveCheckpoint(p)

Next ==
  \/ Elsewhere
  \/ Indexing \/ TickRejects \/ Restart
  \/ \E i \in Ids :
       \/ Judging(i) \/ SubmitUnheard(i) \/ JudgeThrows(i)
       \/ Enqueue(i) \/ Forget(i)
       \/ FinaliseDue(i)

Spec == Init /\ [][Next]_vars

(* The timer starts pass after pass, workers take the jobs that wait, and  *)
(* block time advances.  Nothing is assumed of users, of the administrator *)
(* or of the panel, and a throw is always possible.                        *)
Fairness ==
  /\ WF_vars(Indexing)
  /\ WF_vars(Registry!Tick /\ UNCHANGED <<log, row, indexerVars, job, logged, faultVars>>)
  /\ \A i \in Ids : WF_vars(Judging(i)) /\ WF_vars(FinaliseDue(i))

FairSpec == Spec /\ Fairness
-----------------------------------------------------------------------------
(* The mirror never claims more than the chain: a row marked resolved is   *)
(* resolved, and every outcome it shows was ruled by judge or panel, in    *)
(* whatever order replayed events and the worker's own write arrive.       *)
NeverInvents(i) ==
  /\ row[i].resolved => assertion[i].status = "RESOLVED"
  /\ row[i].outcome \in {"PENDING", assertion[i].originalOutcome, assertion[i].outcome}

(* Hence no reader of the table is told what the chain never said.         *)
MirrorInv == TypeOK /\ \A i \in Ids : NeverInvents(i)

(* The public record of a judgment is of the verdict that counted: at most *)
(* one entry, and it is the outcome the registry took, however often the   *)
(* job was retried.                                                        *)
LoggedIsOnChain ==
  \A i \in Ids : logged[i] \in {<<>>, <<assertion[i].originalOutcome>>}

(* What the checkpoint has left behind was handled, whichever passes threw *)
(* between two awaits or overlapped: every assertion has its row and was   *)
(* once given a job, and a recorded verdict or end reached the row.        *)
NothingSkipped ==
  \A n \in 1..checkpoint :
    LET e == log[n]
        r == row[e.id] IN
    /\ r # NoRow
    /\ e.kind = "Created" => job[e.id].state # "none"
    /\ e.kind \in {"Verdict", "Resolved"} => r.outcome # "PENDING"
    /\ e.kind = "Resolved" => r.resolved

(* Once the indexer has caught up the row shows the registry's outcome, or *)
(* the one the judge gave before the panel or the administrator overturned *)
(* it: the worker may write that after the indexer, having logged it, and  *)
(* so may a pass that outlived its tick.                                   *)
CaughtUp == checkpoint = Len(log)

MirrorSettles ==
  \A i \in Ids :
    CaughtUp /\ row[i] # NoRow =>
      \/ row[i].outcome = assertion[i].outcome
      \/ /\ row[i].outcome = assertion[i].originalOutcome
         /\ logged[i] # <<>> \/ straggled

(* Every new question is put to the judge until it has an answer or its    *)
(* job used up its attempts.  (After that it is forgotten for good.)       *)
JudgedOrGivenUp ==
  \A i \in Ids :
    (assertion[i].status = "OPEN" /\ row[i] = NoRow)
      ~> (assertion[i].status # "OPEN" \/ job[i].state = "failed")

(* The sweep finalises every verdict whose window passed in silence, as    *)
(* long as no read of a verdict's metadata failed.                         *)
VerdictsAreFinalised ==
  \A i \in Ids :
    (assertion[i].status = "VERDICTED")
      ~> (assertion[i].status # "VERDICTED" \/ badReads > 0)

(* The comment in runIndexerOnce: AUDITED verdicts need someone to resolve *)
(* them, and without the sweep "the application callback never fires and   *)
(* the escrow funds stay locked forever".  So no verdict rests for ever.   *)
VerdictsNeverRest ==
  \A i \in Ids : (assertion[i].status = "VERDICTED") ~> (assertion[i].status # "VERDICTED")
=============================================================================
