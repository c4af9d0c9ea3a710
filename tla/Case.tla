-------------------------------- MODULE Case ---------------------------------
(***************************************************************************)
(* One assertion from the dialog that opens it to the outcome on its       *)
(* page: the dialog's uploads and attach calls (Evidence, Storage), the    *)
(* indexer's row, the judge's job (api/src/services/judgment.ts and        *)
(* api/src/workers/judgment.ts) with its wait for the evidence, its model  *)
(* call (Inference), its transcript and its transaction, and the stream    *)
(* that shows the outcome (EventStream).                                   *)
(*                                                                         *)
(* The parts meet in a few places only, so that each behaviour explores    *)
(* one of them: `scope` says which of evidence, readers and model calls    *)
(* vary; the others take their plain course.                               *)
(***************************************************************************)
EXTENDS FlightOracle, Inference, EventStream

CONSTANTS
  First, Second,  \* the files of the case
  Transcript,     \* what the judge uploads
  JudgeCall,      \* the judge's model call; the other Calls are of other cases
  ATTEMPTS,       \* attempts of a job
  Scopes,         \* sets of parts that vary
  MaxFaults       \* bound: closed tabs, failed calls, broken streams, restarts

ASSUME CaseAssumption ==
  /\ Pieces = {First, Second} /\ First # Second
  /\ Transcript \notin Pieces /\ Blobs = Pieces \cup {Transcript}
  /\ JudgeCall \in Calls
  /\ NoOutcome \notin {"TRUE", "FALSE"}
  /\ ATTEMPTS \in Nat \ {0} /\ MaxFaults \in Nat
  /\ Scopes \subseteq SUBSET {"evidence", "readers", "calls", "forms"}

VARIABLES
  scope,    \* the parts that vary
  dialog,   \* the dialog that opens the assertion
  filed,    \* the assertion is on chain
  ruling,   \* the verdict on chain
  row,      \* the assertion's row: no row, PENDING or an outcome
  judge,    \* the job of the queue
  faults    \* faults so far

vars == <<storageVars, inferenceVars, evidenceVars, viewer,
          scope, dialog, filed, ruling, row, judge, faults>>

Rulings == {"TRUE", "FALSE"}
Decided == row \in Rulings
Outcome == IF Decided THEN row ELSE NoOutcome

(* What a dialog files: how many roots the assertion cites, the files      *)
(* uploaded for it and attached once it is filed, and the files added      *)
(* later by an answer that the assertion does not cite.  A claim's file    *)
(* may come from the oracle.  The second root of a claim under a spec is   *)
(* the policy's evidenceSpec: the page that creates the policy hashes a    *)
(* text, or takes a hash as it stands, and uploads nothing for it.         *)
DisputeDialog == [cites |-> 2, files |-> {First}, answers |-> {Second}, oracle |-> FALSE]
ClaimDialog == [cites |-> 1, files |-> {First}, answers |-> {}, oracle |-> FALSE]
ClaimByFlightDialog == [cites |-> 1, files |-> {First}, answers |-> {}, oracle |-> TRUE]
ClaimUnderSpecDialog == [cites |-> 2, files |-> {First}, answers |-> {}, oracle |-> FALSE]
MilestoneSubmitDialog == [cites |-> 1, files |-> {First}, answers |-> {}, oracle |-> FALSE]
AuthenticitySubmitPanel ==
  [cites |-> 2, files |-> {First, Second}, answers |-> {}, oracle |-> FALSE]

Dialogs == {DisputeDialog, ClaimDialog, ClaimByFlightDialog, ClaimUnderSpecDialog,
            MilestoneSubmitDialog, AuthenticitySubmitPanel}

JudgeStep == {"none", "queued", "load", "wait", "infer", "upload", "submit",
              "update", "tell", "failing", "done", "failed"}

EVIDENCE_WAIT == 15 * SECOND
POLL == 3
MaxPolls == EVIDENCE_WAIT \div POLL

Job == [step : JudgeStep, attempt : 1..ATTEMPTS, expected : 0..2, polls : 0..MaxPolls,
        timer : 0..POLL, decision : Rulings \cup {NoOutcome}]

NoJob == [step |-> "none", attempt |-> 1, expected |-> 0, polls |-> 0, timer |-> 0,
          decision |-> NoOutcome]

TypeOK ==
  /\ StorageTypeOK /\ InferenceTypeOK /\ EvidenceTypeOK /\ StreamTypeOK(Rulings)
  /\ scope \in Scopes /\ dialog \in Dialogs
  /\ filed \in BOOLEAN
  /\ ruling \in Rulings \cup {NoOutcome}
  /\ row \in Rulings \cup {"NONE", "PENDING"}
  /\ judge \in Job
  /\ faults \in 0..MaxFaults

(* A case whose evidence does not vary starts with every file attached.    *)
Init ==
  /\ scope \in Scopes
  /\ dialog \in (IF "evidence" \in scope THEN Dialogs ELSE {ClaimDialog})
  /\ InferenceInit
  /\ ledger \in (IF "calls" \in scope THEN {NoLedger, 0, MIN_LEDGER} ELSE {MIN_LEDGER})
  /\ viewer = AllAway
  /\ ruling = NoOutcome
  /\ faults = 0
  /\ judge = NoJob
  /\ row = "NONE"
  /\ IF "evidence" \in scope
       THEN StorageInit /\ EvidenceInit /\ filed = FALSE
       ELSE /\ stored = Pieces /\ paid = Pieces
            /\ upload = [b \in Blobs |-> IF b \in Pieces THEN "returned" ELSE "none"]
            /\ rows = [p \in Pieces |-> [raw |-> 0, attached |-> 1]]
            /\ client = [p \in Pieces |-> [Idle EXCEPT !.at = "attached"]]
            /\ filed = TRUE

Fault == faults < MaxFaults /\ faults' = faults + 1

caseVars == <<scope, dialog, filed, ruling, row, judge, faults>>
-----------------------------------------------------------------------------
(* POST /api/evidence: the upload of a file, and its row.  An answer is    *)
(* offered from the escrow's row, which the indexer writes in the pass     *)
(* that writes the assertion's.                                            *)
Asked(p) == p \in dialog.files \/ (p \in dialog.answers /\ row # "NONE")

UploadFile(p) ==
  /\ Asked(p) /\ ~dialog.oracle /\ client[p].at = "choosing"
  /\ \/ upload[p] # "returned" /\ StartUpload(p)
     \/ SubmitRoot(p)
     \/ UploadSegments(p)
  /\ UNCHANGED <<inferenceVars, evidenceVars, viewer, caseVars>>

FileUploadThrows(p) ==
  /\ Asked(p) /\ ~dialog.oracle /\ Fault /\ UploadThrows(p)
  /\ UNCHANGED <<inferenceVars, evidenceVars, viewer, scope, dialog, filed, ruling, row, judge>>

RegisterFile(p) ==
  /\ Asked(p) /\ ~dialog.oracle /\ upload[p] = "returned" /\ Register(p)
  /\ upload' = [upload EXCEPT ![p] = IF client'[p].at = "ready" THEN @ ELSE "failed"]
  /\ UNCHANGED <<paid, stored, inferenceVars, viewer, caseVars>>

(* POST /api/oracle/flight.                                                *)
SnapshotFile(p) ==
  /\ Asked(p) /\ dialog.oracle
  /\ FetchFlight(p) \/ OracleRefuses(p) \/ UploadSnapshot(p) \/ RegisterSnapshot(p)
  /\ UNCHANGED <<inferenceVars, viewer, caseVars>>

SnapshotFails(p) ==
  /\ Fault /\ SnapshotLost(p)
  /\ UNCHANGED <<inferenceVars, viewer, scope, dialog, filed, ruling, row, judge>>

(* The dialog's transaction, and the one of an answer to it.               *)
SendCase ==
  /\ ~filed
  /\ Send(dialog.files)
  /\ UNCHANGED <<storageVars, inferenceVars, viewer, caseVars>>

SendAnswer ==
  /\ filed /\ dialog.answers # {}
  /\ Send(dialog.answers)
  /\ UNCHANGED <<storageVars, inferenceVars, viewer, caseVars>>

(* Mined: the assertion exists, whoever has heard of it.                   *)
CaseMined ==
  /\ ~filed
  /\ \A p \in dialog.files : client[p].at \in {"mining", "closed"}
  /\ filed' = TRUE
  /\ UNCHANGED <<storageVars, inferenceVars, evidenceVars, viewer,
                 scope, dialog, ruling, row, judge, faults>>

HearReceipt(ps) ==
  /\ ps # {} /\ filed
  /\ Receipt(ps)
  /\ UNCHANGED <<storageVars, inferenceVars, viewer, caseVars>>

AttachAnswered(p) ==
  /\ Answer(p, row # "NONE")
  /\ UNCHANGED <<storageVars, inferenceVars, viewer, caseVars>>

AttachAgain(p) ==
  /\ Wake(p)
  /\ UNCHANGED <<storageVars, inferenceVars, viewer, caseVars>>

BrowserFails(p) ==
  /\ Fault
  /\ (CallFails(p) \/ CloseTab)
  /\ UNCHANGED <<storageVars, inferenceVars, viewer, scope, dialog, filed, ruling, row, judge>>

(* The indexer: the row and, in another await, the job of the judge.  What *)
(* stops between them is handled again, and finds the row.                 *)
InsertRow ==
  /\ filed /\ row = "NONE"
  /\ row' = "PENDING"
  /\ UNCHANGED <<storageVars, inferenceVars, evidenceVars, viewer,
                 scope, dialog, filed, ruling, judge, faults>>

AddJob ==
  /\ row # "NONE" /\ judge.step = "none"
  /\ judge' = [judge EXCEPT !.step = "queued"]
  /\ UNCHANGED <<storageVars, inferenceVars, evidenceVars, viewer,
                 scope, dialog, filed, ruling, row, faults>>

MirrorVerdict ==
  /\ row = "PENDING" /\ ruling # NoOutcome
  /\ row' = ruling
  /\ UNCHANGED <<storageVars, inferenceVars, evidenceVars, viewer,
                 scope, dialog, filed, ruling, judge, faults>>
-----------------------------------------------------------------------------
(* The evidence is read as far as there is any: a file that cannot be      *)
(* downloaded is named by its hash.                                        *)
Reads == judge' = [judge EXCEPT !.step = "infer", !.timer = 0, !.polls = 0, !.expected = 0]
Step(s) == judge' = [judge EXCEPT !.step = s]

RowsOfCase == rows[First].attached + rows[Second].attached

(* The job starts: enough rows at once, or a wait.  A chain that cannot be *)
(* read makes the judge expect none.                                       *)
Load ==
  /\ judge.step = "queued" /\ row = "PENDING"
  /\ \/ /\ IF RowsOfCase >= dialog.cites THEN Reads
           ELSE judge' = [judge EXCEPT !.step = "wait", !.timer = POLL,
                                       !.expected = dialog.cites]
        /\ UNCHANGED faults
     \/ Fault /\ Reads
  /\ UNCHANGED <<storageVars, inferenceVars, evidenceVars, viewer,
                 scope, dialog, filed, ruling, row>>

(* Rows are listed again, until there are enough or time is up.            *)
Poll ==
  /\ judge.step = "wait" /\ judge.timer = 0
  /\ IF RowsOfCase >= judge.expected \/ judge.polls + 1 = MaxPolls THEN Reads
     ELSE judge' = [judge EXCEPT !.polls = @ + 1, !.timer = POLL]
  /\ UNCHANGED <<storageVars, inferenceVars, evidenceVars, viewer,
                 scope, dialog, filed, ruling, row, faults>>

(* runInference with what was read.                                        *)
AskModel ==
  /\ judge.step = "infer"
  /\ CallModel(JudgeCall)
  /\ UNCHANGED <<storageVars, evidenceVars, viewer, caseVars>>

(* The answer holds a decision.                                            *)
Decide ==
  /\ judge.step = "infer" /\ call[JudgeCall].at = "answered"
  /\ Forgotten(JudgeCall)
  /\ \E r \in Rulings : judge' = [judge EXCEPT !.step = "upload", !.decision = r]
  /\ UNCHANGED <<ledger, inFlight, unheard, gate, holder, billed, storageVars, evidenceVars,
                 viewer, scope, dialog, filed, ruling, row, faults>>

UploadTranscript ==
  /\ judge.step = "upload"
  /\ IF upload[Transcript] = "returned"
       THEN /\ upload' = [upload EXCEPT ![Transcript] = "none"]
            /\ UNCHANGED <<paid, stored>> /\ Step("submit")
       ELSE /\ UNCHANGED judge
            /\ \/ upload[Transcript] # "failed" /\ StartUpload(Transcript)
               \/ SubmitRoot(Transcript) \/ UploadSegments(Transcript)
  /\ UNCHANGED <<inferenceVars, evidenceVars, viewer, scope, dialog, filed, ruling, row, faults>>

TranscriptUploadThrows ==
  /\ judge.step = "upload" /\ Fault
  /\ UploadThrows(Transcript)
  /\ UNCHANGED <<inferenceVars, evidenceVars, viewer, scope, dialog, filed, ruling, row, judge>>

(* submitVerdict is mined and heard.                                       *)
SubmitVerdict ==
  /\ judge.step = "submit" /\ ruling = NoOutcome
  /\ ruling' = judge.decision
  /\ Step("update")
  /\ UNCHANGED <<storageVars, inferenceVars, evidenceVars, viewer,
                 scope, dialog, filed, row, faults>>

(* The log of the reasoning and the outcome are written.                   *)
UpdateOutcome ==
  /\ judge.step = "update"
  /\ row' = judge.decision
  /\ Step("tell")
  /\ UNCHANGED <<storageVars, inferenceVars, evidenceVars, viewer,
                 scope, dialog, filed, ruling, faults>>

Tell ==
  /\ judge.step = "tell"
  /\ PublishOutcome(judge.decision)
  /\ judge' = [NoJob EXCEPT !.step = "done", !.attempt = judge.attempt]
  /\ UNCHANGED <<storageVars, inferenceVars, evidenceVars,
                 scope, dialog, filed, ruling, row, faults>>
-----------------------------------------------------------------------------
(* An await that throws ends the attempt, with `error` on the stream.      *)
Thrown ==
  /\ judge' = [NoJob EXCEPT !.step = "failing", !.attempt = judge.attempt]
  /\ PublishError
  /\ upload' = [upload EXCEPT ![Transcript] = "none"]
  /\ UNCHANGED <<paid, stored, evidenceVars, scope, dialog, filed, row>>

(* The row is decided already, or the verdict is.                          *)
TooLate ==
  /\ \/ judge.step = "queued" /\ Decided
     \/ judge.step = "submit" /\ ruling # NoOutcome
  /\ Thrown
  /\ UNCHANGED <<inferenceVars, ruling, faults>>

(* A call of the model that failed, or an answer without a decision.       *)
NoDecision ==
  /\ judge.step = "infer" /\ call[JudgeCall].at \in {"answered", "failed"}
  /\ Thrown
  /\ Forgotten(JudgeCall)
  /\ UNCHANGED <<ledger, inFlight, unheard, gate, holder, billed, ruling, faults>>

TranscriptLost ==
  /\ judge.step = "upload" /\ upload[Transcript] = "failed"
  /\ Thrown
  /\ UNCHANGED <<inferenceVars, ruling, faults>>

(* pickTeeChatbot or pickByAddress finds no provider to ask.               *)
ProviderUnpicked == judge.step = "infer" /\ call[JudgeCall].at = "idle"

(* The database or the chain fails, where a verdict may have been mined,   *)
(* or there is no provider.                                                *)
Throws ==
  /\ judge.step \in {"queued", "wait", "submit", "update"} \/ ProviderUnpicked
  /\ Fault
  /\ Thrown
  /\ ruling' \in {ruling, IF judge.step = "submit" /\ ruling = NoOutcome
                          THEN judge.decision ELSE ruling}
  /\ UNCHANGED inferenceVars

(* The queue after a failed attempt: another one, or `done` and no more.   *)
Failed ==
  /\ judge.step = "failing"
  /\ IF judge.attempt < ATTEMPTS
       THEN /\ judge' = [judge EXCEPT !.step = "queued", !.attempt = @ + 1]
            /\ UNCHANGED viewer
       ELSE Step("failed") /\ PublishDone
  /\ UNCHANGED <<storageVars, inferenceVars, evidenceVars,
                 scope, dialog, filed, ruling, row, faults>>

JudgeNext ==
  \/ Load \/ Poll \/ AskModel \/ Decide \/ UploadTranscript
  \/ SubmitVerdict \/ UpdateOutcome \/ Tell
  \/ TooLate \/ NoDecision \/ TranscriptLost \/ Failed
-----------------------------------------------------------------------------
(* Model calls: the judge's, and those of other cases.                     *)
others == <<storageVars, evidenceVars, viewer, caseVars>>

OtherCall(c) ==
  /\ "calls" \in scope /\ c # JudgeCall
  /\ CallModel(c) /\ UNCHANGED others

(* Where calls do not vary, the provider names its chat and answers.        *)
PlainCourse ==
  \A c \in Calls : call'[c].at \in {"idle", "ledger", "connect"}
                    \/ (call'[c].chat /\ ~call'[c].broken /\ call'[c].at # "failed")

CallsProceed ==
  /\ \/ \E c \in Calls : Connect(c) \/ StreamEnds(c) \/ Settle(c)
     \/ LedgerSuffices \/ SendDeposit \/ DepositMined \/ DepositHeard
  /\ "calls" \in scope \/ PlainCourse
  /\ UNCHANGED others

CallThrows ==
  /\ "calls" \in scope /\ Fault
  /\ (\E c \in Calls : ConnectThrows(c) \/ AnswerHasNoBody(c)) \/ LedgerThrows
  /\ UNCHANGED <<storageVars, evidenceVars, viewer, scope, dialog, filed, ruling, row, judge>>
-----------------------------------------------------------------------------
(* Pages.  A broken stream is opened again after three seconds; the queue  *)
(* handles a failed attempt within that time.                              *)
parts == <<storageVars, inferenceVars, evidenceVars>>

OpenPage(v) ==
  /\ "readers" \in scope /\ Open(v)
  /\ UNCHANGED <<parts, caseVars>>

Replay(v) ==
  /\ ReadRow(v, Outcome)
  /\ UNCHANGED <<parts, caseVars>>

ReopenStream(v) ==
  /\ judge.step # "failing" /\ Reconnect(v)
  /\ UNCHANGED <<parts, caseVars>>

LeavePage(v) ==
  /\ Fault /\ (DropConnection(v) \/ (Refuse(v) /\ "readers" \in scope) \/ Leave(v))
  /\ UNCHANGED <<parts, scope, dialog, filed, ruling, row, judge>>
-----------------------------------------------------------------------------
(* Half a second passes, unless something is due.                          *)
Tick ==
  /\ \A p \in Pieces : ~Due(p)
  /\ judge.step = "wait" => judge.timer > 0
  /\ judge.step = "wait" \/ \E p \in Pieces : Timed(p)
  /\ TickClients
  /\ judge' = IF judge.step = "wait" THEN [judge EXCEPT !.timer = @ - 1] ELSE judge
  /\ UNCHANGED <<rows, storageVars, inferenceVars, viewer,
                 scope, dialog, filed, ruling, row, faults>>

(* The service stops and starts again: calls, uploads, streams and the     *)
(* judge's attempt are lost, and the queue hands the job out again.        *)
Running == judge.step \in {"wait", "infer", "upload", "submit", "update", "tell", "failing"}

Fetching == {p \in Pieces : client[p].at = "fetching"}
Awaited(b) == Uploading(b) \/ (upload[b] = "returned" /\ client[b].at = "choosing")

Restart ==
  /\ Fault
  /\ LoseCalls /\ LoseRequests /\ LoseStreams
  /\ upload' = [b \in Blobs |-> IF b \in Fetching \cup {Transcript} THEN "none"
                                ELSE IF Awaited(b) THEN "failed" ELSE upload[b]]
  /\ paid' = paid \ Fetching
  /\ stored' = stored \ Fetching
  /\ judge' = IF Running THEN [NoJob EXCEPT !.step = "queued", !.attempt = judge.attempt]
              ELSE judge
  /\ UNCHANGED <<scope, dialog, filed, ruling, row>>

Next ==
  \/ \E p \in Pieces :
       UploadFile(p) \/ FileUploadThrows(p) \/ RegisterFile(p)
         \/ SnapshotFile(p) \/ SnapshotFails(p)
         \/ AttachAnswered(p) \/ AttachAgain(p) \/ BrowserFails(p)
  \/ SendCase \/ SendAnswer \/ CaseMined
  \/ HearReceipt(dialog.files) \/ HearReceipt(dialog.answers)
  \/ InsertRow \/ AddJob \/ MirrorVerdict
  \/ JudgeNext \/ TranscriptUploadThrows \/ Throws
  \/ CallsProceed \/ CallThrows \/ (\E c \in Calls : OtherCall(c))
  \/ (\E v \in Viewers : OpenPage(v) \/ Replay(v) \/ ReopenStream(v) \/ LeavePage(v))
  \/ Tick \/ Restart

(* The queue hands jobs out, calls return, streams are reopened and time   *)
(* passes.  EventSource tries until it is answered; an answer may be a     *)
(* refusal, which ends the trying.  People, indexer and faults owe         *)
(* nothing.                                                                *)
Fairness ==
  /\ WF_vars(JudgeNext) /\ WF_vars(CallsProceed) /\ WF_vars(Tick)
  /\ \A p \in Pieces : WF_vars(AttachAnswered(p)) /\ WF_vars(AttachAgain(p))
  /\ \A v \in Viewers : WF_vars(Replay(v)) /\ WF_vars(ReopenStream(v))

Spec == Init /\ [][Next]_vars /\ Fairness
-----------------------------------------------------------------------------
(* The files that a dialog uploads for its assertion, and the transcript   *)
(* that a verdict cites, can be fetched; row and pages show the verdict on *)
(* chain or none; an attempt that got past its transaction decided as the  *)
(* chain has it; and the judge has no job without a row.                   *)
CaseInv ==
  /\ TypeOK
  /\ filed => dialog.files \subseteq stored
  /\ ruling # NoOutcome => Transcript \in stored
  /\ Decided => row = ruling
  /\ \A v \in Viewers : viewer[v].shown \in {NoOutcome, ruling}
  /\ judge.step \in {"update", "tell"} => judge.decision = ruling
  /\ judge.step # "none" => row # "NONE"

(* The judge reads the case without a file only if its row may never come  *)
(* or comes for the first time of asking: a browser that was refused       *)
(* because the indexer was behind has caught up by then.  Exceptions are a *)
(* file registered twice, which counts as two, and a chain that could not  *)
(* be read.                                                                *)
ReadsWhatArrived ==
  [][judge.step \in {"queued", "wait"} /\ judge'.step = "infer" /\ faults' = faults =>
       \A p \in dialog.files :
         \/ Attached(p)
         \/ client[p].at \in {"mining", "closed", "gaveUp"}
         \/ client[p].at = "calling" /\ client[p].attempt = 1
         \/ \E q \in Pieces : rows[q].attached > 1]_vars

(* A page that follows the case while the outcome is known and the job is  *)
(* not over will show it, through errors, retries and restarts, unless the *)
(* service refuses its stream.                                             *)
Over == judge.step \in {"failing", "done", "failed"}

WatcherLearns ==
  \A v \in Viewers :
    (Watching(v) /\ Decided /\ ~Over) ~> (viewer[v].shown # NoOutcome \/ viewer[v].at \in {"away", "refused"})

(* Two properties of the model calls, whatever case they are made for.     *)
CallsAreSound == NeverOverfunded /\ ChatsSettled
=============================================================================
