------------------------------ MODULE SiteProofs ------------------------------
(***************************************************************************)
(* Theorems of the web site and the service behind it, for any files,      *)
(* model calls, readers, tabs and amounts and any number of faults: the    *)
(* calls of the model never deposit twice and settle every chat; a root on *)
(* chain can be fetched, and a row and a page show the verdict on chain;   *)
(* the judge reads what arrived in time; and the forms of one wallet open  *)
(* what they paid for.                                                     *)
(***************************************************************************)
EXTENDS Site, Sums, TLAPS

(* What a step of a case, or of the forms beside it, is to a model call.   *)
Takes(c) ==
  /\ call[c].at \in {"answered", "failed", "idle"}
  /\ Forgotten(c)
  /\ UNCHANGED <<ledger, inFlight, unheard, gate, holder, billed>>

CallAction ==
  \/ \E c \in Calls : CallModel(c) \/ Connect(c) \/ ConnectThrows(c)
                        \/ AnswerHasNoBody(c) \/ StreamEnds(c) \/ Settle(c) \/ Takes(c)
  \/ LedgerSuffices \/ SendDeposit \/ DepositMined \/ DepositHeard
  \/ LedgerThrows \/ LoseCalls
  \/ UNCHANGED inferenceVars

(* Deposits are sent one at a time: with the promise free there is none    *)
(* under way, and one under way does not exceed what is missing, as long   *)
(* as no caller left one behind.                                           *)
LedgerOK ==
  /\ gate # "sent" /\ ~unheard => inFlight = 0
  /\ ledger # NoLedger /\ ~unheard => ledger + inFlight <= MIN_LEDGER

(* A call has no chat before the provider named one, and who awaits the    *)
(* promise is at that step.                                                *)
CallOK(c) ==
  /\ call[c].at \in {"idle", "ledger", "connect"} => ~call[c].chat
  /\ c \in holder => call[c].at = "ledger"
  /\ call[c].at \in {"answered", "failed"} /\ call[c].chat /\ ~call[c].bodiless => c \in billed

CallsInv == InferenceTypeOK /\ LedgerOK /\ \A c \in Calls : CallOK(c)
-----------------------------------------------------------------------------
LEMMA CaseConstants ==
  /\ Pieces = {First, Second} /\ First # Second
  /\ Transcript \notin Pieces /\ Blobs = Pieces \cup {Transcript}
  /\ JudgeCall \in Calls /\ NoOutcome \notin {"TRUE", "FALSE"}
  /\ ATTEMPTS \in Nat \ {0} /\ MaxFaults \in Nat
  BY CaseAssumption

LEMMA Minimum == MIN_LEDGER \in Nat /\ MIN_LEDGER > 0 /\ NoLedger = -1
  BY InferenceAssumption DEF NoLedger

LEMMA CallsStart == ASSUME Init PROVE CallsInv
<1>0. ledger \in Nat \cup {NoLedger} /\ ledger <= MIN_LEDGER /\ InferenceInit
  BY Minimum DEF Init
<1>1. InferenceTypeOK
  BY <1>0 DEF InferenceInit, InferenceTypeOK, Call, NoCall, CallStep
<1>2. LedgerOK
  BY <1>0, Minimum DEF InferenceInit, LedgerOK
<1>3. ASSUME NEW c \in Calls PROVE CallOK(c)
  BY <1>0 DEF InferenceInit, CallOK, NoCall
<1>4. QED
  BY <1>1, <1>2, <1>3 DEF CallsInv

(* One call moves on.                                                      *)
LEMMA OneCall ==
  ASSUME CallsInv, NEW c \in Calls,
         NEW r \in Call,
         call' = [call EXCEPT ![c] = r],
         billed \ {c} \subseteq billed', billed' \subseteq billed \cup {c},
         holder \ {c} \subseteq holder', holder' \subseteq holder \cup {c},
         r.at \in {"idle", "ledger", "connect"} => ~r.chat,
         c \in holder' => r.at = "ledger",
         r.at \in {"answered", "failed"} /\ r.chat /\ ~r.bodiless => c \in billed'
  PROVE  /\ call' \in [Calls -> Call]
         /\ billed' \subseteq Calls /\ holder' \subseteq Calls
         /\ \A d \in Calls : CallOK(d)'
<1>1. /\ call \in [Calls -> Call]
      /\ billed \subseteq Calls /\ holder \subseteq Calls
  BY DEF CallsInv, InferenceTypeOK
<1>2. call' \in [Calls -> Call]
  BY <1>1
<1>3. call'[c] = r /\ \A d \in Calls : d # c => call'[d] = call[d]
  BY <1>1
<1>4. ASSUME NEW d \in Calls PROVE CallOK(d)'
  <2>1. CallOK(d)
    BY DEF CallsInv
  <2>2. CASE d = c
    BY <1>3, <2>2 DEF CallOK
  <2>3. CASE d # c
    BY <1>3, <2>1, <2>3 DEF CallOK
  <2>4. QED
    BY <2>2, <2>3
<1>5. QED
  BY <1>1, <1>2, <1>4

(* Everyone who awaited the promise goes on, to a step where a call        *)
(* without a chat may be.                                                  *)
LEMMA AllCalls ==
  ASSUME CallsInv, NEW s \in {"connect", "failed"}, holder' = {}, billed' = billed,
         call' = [c \in Calls |-> IF c \in holder THEN [call[c] EXCEPT !.at = s]
                                  ELSE call[c]]
  PROVE  /\ call' \in [Calls -> Call]
         /\ \A d \in Calls : CallOK(d)'
<1>1. call \in [Calls -> Call]
  BY DEF CallsInv, InferenceTypeOK
<1>2. ASSUME NEW d \in Calls
      PROVE  /\ call'[d] \in Call
             /\ CallOK(d)'
  <2>1. CallOK(d) /\ call[d] \in Call
    BY <1>1 DEF CallsInv
  <2>2. CASE d \in holder
    <3>1. call'[d] = [call[d] EXCEPT !.at = s] /\ ~call[d].chat
      BY <2>1, <2>2 DEF CallOK
    <3>2. /\ call'[d].at = s /\ call'[d].chat = call[d].chat
          /\ call'[d] \in Call
      BY <2>1, <3>1 DEF Call, CallStep
    <3>3. QED
      BY <3>1, <3>2 DEF CallOK
  <2>3. CASE d \notin holder
    BY <2>1, <2>3 DEF CallOK
  <2>4. QED
    BY <2>2, <2>3
<1>3. QED
  BY <1>2

LEMMA CallsKept ==
  ASSUME CallsInv, CallAction
  PROVE  CallsInv'
<1>1. /\ InferenceTypeOK /\ LedgerOK /\ \A c \in Calls : CallOK(c)
      /\ call \in [Calls -> Call]
      /\ ledger \in Nat \cup {-1} /\ inFlight \in Nat
      /\ holder \subseteq Calls /\ billed \subseteq Calls
  BY Minimum DEF CallsInv, InferenceTypeOK
<1> DEFINE Record == Call
<1> DEFINE Kept == /\ call' \in [Calls -> Record] /\ \A d \in Calls : CallOK(d)'
                   /\ holder' \subseteq Calls /\ billed' \subseteq Calls
                   /\ ledger' \in Nat \cup {NoLedger} /\ inFlight' \in Nat
                   /\ unheard' \in BOOLEAN /\ gate' \in {"open", "read", "sent"}
                   /\ LedgerOK'
<1>2. SUFFICES Kept
  BY DEF CallsInv, InferenceTypeOK
<1>3. ASSUME NEW c \in Calls, CallModel(c) PROVE Kept
  <2>1. call' = [call EXCEPT ![c] = [call[c] EXCEPT !.at = "ledger"]]
    BY <1>1, <1>3 DEF CallModel, Goes
  <2>2. [call[c] EXCEPT !.at = "ledger"] \in Record /\ ~call[c].chat
    BY <1>1, <1>3 DEF CallModel, Call, CallOK, CallStep
  <2>3. QED
    BY <1>1, <1>3, <2>1, <2>2, OneCall, Minimum DEF CallModel, Call, LedgerOK, InferenceTypeOK
<1>4. ASSUME NEW c \in Calls, Connect(c) PROVE Kept
  <2>1. PICK named \in BOOLEAN :
          call' = [call EXCEPT ![c] = [call[c] EXCEPT !.at = "stream", !.chat = named]]
    BY <1>1, <1>4 DEF Connect
  <2>2. [call[c] EXCEPT !.at = "stream", !.chat = named] \in Record /\ c \notin holder
    BY <1>1, <1>4 DEF Connect, Call, CallOK, CallStep
  <2>3. QED
    BY <1>1, <1>4, <2>1, <2>2, OneCall, Minimum DEF Connect, Call, LedgerOK, InferenceTypeOK
<1>5. ASSUME NEW c \in Calls, ConnectThrows(c) PROVE Kept
  <2>1. call' = [call EXCEPT ![c] = [call[c] EXCEPT !.at = "failed"]]
    BY <1>1, <1>5 DEF ConnectThrows, Goes
  <2>2. [call[c] EXCEPT !.at = "failed"] \in Record /\ c \notin holder /\ ~call[c].chat
    BY <1>1, <1>5 DEF ConnectThrows, Call, CallOK, CallStep
  <2>3. QED
    BY <1>1, <1>5, <2>1, <2>2, OneCall, Minimum DEF ConnectThrows, Call, LedgerOK, InferenceTypeOK
<1>5a. ASSUME NEW c \in Calls, AnswerHasNoBody(c) PROVE Kept
  <2>1. PICK named \in BOOLEAN :
          call' = [call EXCEPT ![c] = [call[c] EXCEPT
                     !.at = "failed", !.chat = named, !.bodiless = TRUE]]
    BY <1>1, <1>5a DEF AnswerHasNoBody
  <2>2. /\ [call[c] EXCEPT !.at = "failed", !.chat = named, !.bodiless = TRUE] \in Record
        /\ c \notin holder
    BY <1>1, <1>5a DEF AnswerHasNoBody, Call, CallOK, CallStep
  <2>3. [call[c] EXCEPT !.at = "failed", !.chat = named, !.bodiless = TRUE].bodiless
    BY <1>1 DEF Call
  <2>4. QED
    BY <1>1, <1>5a, <2>1, <2>2, <2>3, OneCall, Minimum
       DEF AnswerHasNoBody, Call, LedgerOK, InferenceTypeOK
<1>6. ASSUME NEW c \in Calls, StreamEnds(c) PROVE Kept
  <2>1. PICK named \in BOOLEAN, broken \in BOOLEAN :
          call' = [call EXCEPT ![c] = [call[c] EXCEPT
                     !.at = "settle", !.chat = @ \/ named, !.broken = broken]]
    BY <1>1, <1>6 DEF StreamEnds
  <2>2. /\ [call[c] EXCEPT !.at = "settle", !.chat = @ \/ named, !.broken = broken]
             \in Record
        /\ c \notin holder
    BY <1>1, <1>6 DEF StreamEnds, Call, CallOK, CallStep
  <2>3. QED
    BY <1>1, <1>6, <2>1, <2>2, OneCall, Minimum DEF StreamEnds, Call, LedgerOK, InferenceTypeOK
<1>7. ASSUME NEW c \in Calls, Settle(c) PROVE Kept
  <2>1. PICK s \in {"answered", "failed"} :
          call' = [call EXCEPT ![c] = [call[c] EXCEPT !.at = s]]
    BY <1>1, <1>7 DEF Settle, Goes
  <2>2. [call[c] EXCEPT !.at = s] \in Record /\ c \notin holder
    BY <1>1, <1>7 DEF Settle, Call, CallOK, CallStep
  <2>3. /\ billed \subseteq billed' /\ billed' \subseteq billed \cup {c}
        /\ call[c].chat => c \in billed'
    BY <1>7 DEF Settle
  <2>4. /\ UNCHANGED <<inFlight, unheard, gate, holder>>
        /\ ledger' = ledger \/ (ledger > 0 /\ ledger' = ledger - 1)
    BY <1>7 DEF Settle
  <2>5. /\ call' \in [Calls -> Record] /\ \A d \in Calls : CallOK(d)'
        /\ holder' \subseteq Calls /\ billed' \subseteq Calls
    BY <2>1, <2>2, <2>3, <2>4, OneCall DEF Call
  <2>6. ledger' \in Nat \cup {NoLedger} /\ LedgerOK'
    BY <1>1, <2>4, Minimum DEF LedgerOK
  <2>7. QED
    BY <1>1, <2>4, <2>5, <2>6 DEF InferenceTypeOK
<1>8. ASSUME NEW c \in Calls, Takes(c) PROVE Kept
  <2>1. call' = [call EXCEPT ![c] = NoCall] /\ c \notin holder
    BY <1>1, <1>8 DEF Takes, Forgotten, CallOK
  <2>2. NoCall \in Record /\ NoCall.at = "idle" /\ ~NoCall.chat
    BY DEF Call, NoCall, CallStep
  <2>3. QED
    BY <1>1, <1>8, <2>1, <2>2, OneCall, Minimum DEF Takes, Call, LedgerOK, InferenceTypeOK
<1>9. CASE LedgerSuffices \/ DepositHeard
  <2>1. Release /\ UNCHANGED <<ledger, inFlight, unheard>>
    BY <1>9 DEF LedgerSuffices, DepositHeard
  <2>2. call' \in [Calls -> Record] /\ \A d \in Calls : CallOK(d)'
    BY <2>1, AllCalls DEF Release
  <2>3. LedgerOK'
    BY <1>1, <1>9, <2>1 DEF LedgerSuffices, DepositHeard, LedgerOK, Release
  <2>4. QED
    BY <1>1, <2>1, <2>2, <2>3 DEF Release, InferenceTypeOK
<1>10. CASE SendDeposit
  <2>1. call' = call /\ holder' = holder /\ billed' = billed /\ \A d \in Calls : CallOK(d)'
    BY <1>1, <1>10 DEF SendDeposit, CallOK
  <2>2. LedgerOK' /\ inFlight' \in Nat
    BY <1>1, <1>10, Minimum DEF SendDeposit, LedgerOK
  <2>3. QED
    BY <1>1, <1>10, <2>1, <2>2 DEF SendDeposit, InferenceTypeOK
<1>11. CASE DepositMined
  <2>1. call' = call /\ holder' = holder /\ billed' = billed /\ \A d \in Calls : CallOK(d)'
    BY <1>1, <1>11 DEF DepositMined, CallOK
  <2>2. LedgerOK' /\ inFlight' \in Nat /\ ledger' \in Nat
    BY <1>1, <1>11, Minimum DEF DepositMined, LedgerOK
  <2>3. QED
    BY <1>1, <1>11, <2>1, <2>2 DEF DepositMined, InferenceTypeOK
<1>12. CASE LedgerThrows
  <2>1. call' \in [Calls -> Record] /\ \A d \in Calls : CallOK(d)'
    BY <1>12, AllCalls DEF LedgerThrows
  <2>2. LedgerOK'
    <3>1. gate' = "open" /\ UNCHANGED <<ledger, inFlight>>
      BY <1>12 DEF LedgerThrows
    <3>2. unheard' = (unheard \/ inFlight > 0)
      BY <1>12 DEF LedgerThrows
    <3>3. ~unheard' => ~unheard /\ ~(inFlight > 0)
      BY <3>2
    <3>4. QED
      BY <1>1, <3>1, <3>3 DEF LedgerOK
  <2>3. QED
    BY <1>1, <1>12, <2>1, <2>2 DEF LedgerThrows, InferenceTypeOK
<1>13. CASE LoseCalls
  <2>1. call' \in [Calls -> Record] /\ \A d \in Calls : CallOK(d)'
    BY <1>13 DEF LoseCalls, Call, NoCall, CallStep, CallOK
  <2>2. LedgerOK'
    <3>1. gate' = "open" /\ UNCHANGED <<ledger, inFlight>>
      BY <1>13 DEF LoseCalls
    <3>2. unheard' = (unheard \/ inFlight > 0)
      BY <1>13 DEF LoseCalls
    <3>3. ~unheard' => ~unheard /\ ~(inFlight > 0)
      BY <3>2
    <3>4. QED
      BY <1>1, <3>1, <3>3 DEF LedgerOK
  <2>3. QED
    BY <1>1, <1>13, <2>1, <2>2 DEF LoseCalls, InferenceTypeOK
<1>14. CASE UNCHANGED inferenceVars
  BY <1>1, <1>14 DEF inferenceVars, LedgerOK, CallOK, InferenceTypeOK
<1>15. QED
  BY <1>3, <1>4, <1>5, <1>5a, <1>6, <1>7, <1>8, <1>9, <1>10, <1>11, <1>12, <1>13, <1>14
     DEF CallAction
-----------------------------------------------------------------------------
(* A case takes steps of the model calls, or none.                         *)
LEMMA CaseCalls == ASSUME Next PROVE CallAction
<1>1. ASSUME NEW p \in Pieces,
             \/ UploadFile(p) \/ FileUploadThrows(p) \/ RegisterFile(p)
             \/ SnapshotFile(p) \/ SnapshotFails(p)
             \/ AttachAnswered(p) \/ AttachAgain(p) \/ BrowserFails(p)
      PROVE  UNCHANGED inferenceVars
  BY <1>1 DEF UploadFile, FileUploadThrows, RegisterFile, SnapshotFile, SnapshotFails,
              AttachAnswered, AttachAgain, BrowserFails
<1>2. ASSUME \/ SendCase \/ SendAnswer \/ CaseMined
             \/ HearReceipt(dialog.files) \/ HearReceipt(dialog.answers)
             \/ InsertRow \/ AddJob \/ MirrorVerdict
      PROVE  UNCHANGED inferenceVars
  BY <1>2 DEF SendCase, SendAnswer, CaseMined, HearReceipt, InsertRow, AddJob, MirrorVerdict
<1>3. CASE AskModel
  BY <1>3, CaseConstants DEF AskModel, CallAction
<1>4. CASE Decide \/ NoDecision
  BY <1>4, CaseConstants DEF Decide, NoDecision, CallAction, Takes
<1>5. ASSUME \/ Load \/ Poll \/ UploadTranscript \/ SubmitVerdict \/ UpdateOutcome
             \/ Tell \/ TooLate \/ TranscriptLost \/ Failed
             \/ TranscriptUploadThrows \/ Throws
      PROVE  UNCHANGED inferenceVars
  BY <1>5 DEF Load, Poll, UploadTranscript, SubmitVerdict, UpdateOutcome, Tell, TooLate,
              TranscriptLost, Failed, TranscriptUploadThrows, Throws
<1>6. CASE CallsProceed \/ CallThrows
  BY <1>6 DEF CallsProceed, CallThrows, CallAction
<1>7. CASE \E c \in Calls : OtherCall(c)
  BY <1>7 DEF OtherCall, CallAction
<1>8. ASSUME NEW v \in Viewers, OpenPage(v) \/ Replay(v) \/ ReopenStream(v) \/ LeavePage(v)
      PROVE  UNCHANGED inferenceVars
  BY <1>8 DEF OpenPage, Replay, ReopenStream, LeavePage, parts
<1>9. ASSUME Tick PROVE UNCHANGED inferenceVars
  BY <1>9 DEF Tick
<1>10. CASE Restart
  BY <1>10 DEF Restart, CallAction
<1>11. QED
  BY <1>1, <1>2, <1>3, <1>4, <1>5, <1>6, <1>7, <1>8, <1>9, <1>10
     DEF Next, JudgeNext, CallAction

LEMMA CallsAlways == SiteSpec => []CallsInv
<1>1. SiteInit => CallsInv
  BY CallsStart DEF SiteInit
<1>2. CallsInv /\ [SiteNext]_siteVars => CallsInv'
  <2> SUFFICES ASSUME CallsInv, [SiteNext]_siteVars PROVE CallsInv'
    OBVIOUS
  <2>1. CASE HavingACase
    BY <2>1, CaseCalls, CallsKept DEF HavingACase
  <2>2. CASE OpeningRecords \/ UNCHANGED siteVars
    <3>1. UNCHANGED inferenceVars
      BY <2>2 DEF OpeningRecords, siteVars, vars
    <3>2. QED
      BY <3>1, CallsKept DEF CallAction
  <2>3. QED
    BY <2>1, <2>2 DEF SiteNext
<1>3. QED
  BY <1>1, <1>2, PTL DEF SiteSpec

(* However many calls are made at a time and whatever becomes of them, a   *)
(* shortfall is deposited once, and a call is over only when its chat was  *)
(* settled, but for an answer without a body                               *)
(* (Inference!NeverOverfunded, ChatsSettled).                              *)
THEOREM CallsSound == SiteSpec => []CallsAreSound
<1>1. CallsInv => CallsAreSound
  <2> SUFFICES ASSUME CallsInv PROVE CallsAreSound
    OBVIOUS
  <2>1. NeverOverfunded
    BY Minimum DEF CallsInv, InferenceTypeOK, LedgerOK, NeverOverfunded
  <2>2. ChatsSettled
    BY DEF CallsInv, CallOK, ChatsSettled, IsOver
  <2>3. QED
    BY <2>1, <2>2 DEF CallsAreSound
<1>2. QED
  BY <1>1, CallsAlways, PTL
-----------------------------------------------------------------------------
(* A root that the Flow contract has was paid for, and one that was        *)
(* returned is of a blob that is final.                                    *)
BlobOK(b) ==
  /\ upload[b] = "submitted" => b \in paid
  /\ upload[b] = "returned" => b \in stored

PieceTyped(p) ==
  /\ client[p] \in [at : ClientStep, attempt : 1..maxAttempts, timer : Nat]
  /\ rows[p] \in [raw : 0..MaxRows, attached : 0..MaxRows]

(* Not cited, and perhaps not there.                                       *)
Unknown(p) == client[p].at \in {"choosing", "fetching"}

(* What the browser and the service's rows know of one another's progress: *)
(* the service has a row of a file the browser knows the root of, and a    *)
(* row is attached once the browser was told so; a file cited on chain is  *)
(* final in storage; a pause is no longer than the last refusal made it.   *)
PieceOK(p) ==
  /\ client[p].at = "attached" <=> rows[p].attached > 0
  /\ ~Unknown(p) => p \in stored
  /\ ~Unknown(p) /\ client[p].at # "attached" => rows[p].raw > 0
  /\ Unknown(p) /\ dialog.oracle => rows[p].raw = 0
  /\ client[p].at = "fetching" => dialog.oracle
  /\ client[p].at = "sleeping" =>
       client[p].attempt < maxAttempts /\ client[p].timer <= Pause(client[p].attempt)
  /\ client[p].at = "calling" => client[p].timer <= Latency
  /\ filed /\ p \in dialog.files => ~Unknown(p) /\ client[p].at # "ready"
  /\ IF "evidence" \in scope
       THEN p \notin dialog.files \cup dialog.answers => Unknown(p)
       ELSE client[p].at = "attached"

StorageInv == StorageTypeOK /\ \A b \in Blobs : BlobOK(b)

EvidenceInv ==
  /\ StorageInv
  /\ EvidenceTypeOK
  /\ dialog \in Dialogs
  /\ "evidence" \notin scope => dialog = ClaimDialog
  /\ \A p \in Pieces : PieceOK(p)
-----------------------------------------------------------------------------
LEMMA Delays == Latency \in Nat /\ Latency > 0
  BY EvidenceAssumption

LEMMA DialogIs ==
  ASSUME dialog \in Dialogs
  PROVE  /\ dialog.files \subseteq Pieces /\ dialog.answers \subseteq Pieces
         /\ dialog.files # {}
         /\ dialog.oracle \in BOOLEAN /\ dialog.cites \in 1..2
<1> DEFINE Fine(d) == /\ d.files \subseteq Pieces /\ d.answers \subseteq Pieces
                      /\ d.files # {}
                      /\ d.oracle \in BOOLEAN /\ d.cites \in 1..2
<1>1. /\ {First} \subseteq Pieces /\ {Second} \subseteq Pieces /\ {First, Second} \subseteq Pieces
      /\ {First} # {} /\ {First, Second} # {}
  BY CaseConstants
<1>2. Fine(DisputeDialog)
  BY <1>1 DEF DisputeDialog
<1>3. Fine(ClaimDialog)
  BY <1>1 DEF ClaimDialog
<1>4. Fine(ClaimByFlightDialog)
  BY <1>1 DEF ClaimByFlightDialog
<1>5. Fine(ClaimUnderSpecDialog)
  BY <1>1 DEF ClaimUnderSpecDialog
<1>6. Fine(MilestoneSubmitDialog)
  BY <1>1 DEF MilestoneSubmitDialog
<1>7. Fine(AuthenticitySubmitPanel)
  BY <1>1 DEF AuthenticitySubmitPanel
<1>8. QED
  BY <1>2, <1>3, <1>4, <1>5, <1>6, <1>7 DEF Dialogs

LEMMA Typed ==
  ASSUME EvidenceInv
  PROVE  /\ \A p \in Pieces : PieceTyped(p) /\ PieceOK(p)
         /\ DOMAIN client = Pieces /\ DOMAIN rows = Pieces
         /\ Pieces \subseteq Blobs /\ Transcript \in Blobs
         /\ upload \in [Blobs -> UploadState] /\ stored \subseteq paid /\ paid \subseteq Blobs
         /\ \A b \in Blobs : BlobOK(b)
  BY CaseConstants
     DEF EvidenceInv, EvidenceTypeOK, StorageInv, StorageTypeOK, PieceTyped

(* One upload moves on, or is over: what is final stays final.             *)
LEMMA UploadKept ==
  ASSUME StorageInv, NEW b \in Blobs,
         \/ StartUpload(b) \/ SubmitRoot(b) \/ UploadSegments(b) \/ UploadThrows(b)
         \/ /\ \E s \in {"none", "failed"} : upload' = [upload EXCEPT ![b] = s]
            /\ UNCHANGED <<paid, stored>>
         \/ UNCHANGED storageVars
  PROVE  StorageInv' /\ stored \subseteq stored'
<1>1. /\ upload \in [Blobs -> UploadState] /\ stored \subseteq paid /\ paid \subseteq Blobs
      /\ \A d \in Blobs : BlobOK(d)
  BY DEF StorageInv, StorageTypeOK
<1> DEFINE Ends(s) == upload' = [upload EXCEPT ![b] = s]
<1>2. CASE UNCHANGED storageVars
  BY <1>1, <1>2 DEF storageVars, StorageInv, StorageTypeOK, BlobOK
<1>3. CASE ~(UNCHANGED storageVars)
  <2>1. PICK s \in UploadState : Ends(s)
    BY <1>3 DEF StartUpload, SubmitRoot, UploadSegments, UploadThrows, UploadState
  <2>2. /\ stored \subseteq stored' /\ stored' \subseteq stored \cup {b}
        /\ paid \subseteq paid' /\ paid' \subseteq paid \cup {b}
    BY <1>3 DEF StartUpload, SubmitRoot, UploadSegments, UploadThrows
  <2>3. b \in stored' => b \in paid'
    BY <1>1, <1>3 DEF StartUpload, SubmitRoot, UploadSegments, UploadThrows, BlobOK
  <2>4. BlobOK(b)'
    <3>1. upload'[b] = s
      BY <1>1, <2>1
    <3>2. CASE s \in {"none", "hashed", "failed"}
      BY <3>1, <3>2 DEF BlobOK
    <3>3. CASE s = "submitted"
      <4>1. upload' = [upload EXCEPT ![b] = "submitted"] /\ upload'[b] = "submitted"
        BY <2>1, <3>1, <3>3
      <4>2. SubmitRoot(b)
        BY <1>1, <1>3, <4>1 DEF StartUpload, UploadSegments, UploadThrows
      <4>3. QED
        BY <4>1, <4>2 DEF SubmitRoot, BlobOK
    <3>4. CASE s = "returned"
      <4>1. upload' = [upload EXCEPT ![b] = "returned"] /\ upload'[b] = "returned"
        BY <2>1, <3>1, <3>4
      <4>2. UploadSegments(b)
        BY <1>1, <1>3, <4>1 DEF StartUpload, SubmitRoot, UploadThrows
      <4>3. QED
        BY <4>1, <4>2 DEF UploadSegments, BlobOK
    <3>5. QED
      BY <3>2, <3>3, <3>4 DEF UploadState
  <2>5. ASSUME NEW d \in Blobs, d # b PROVE BlobOK(d)'
    <3>1. upload'[d] = upload[d] /\ BlobOK(d)
      BY <1>1, <2>1, <2>5
    <3>2. QED
      BY <2>2, <3>1 DEF BlobOK
  <2>6. StorageTypeOK'
    BY <1>1, <2>1, <2>2, <2>3 DEF StorageTypeOK
  <2>7. QED
    BY <2>2, <2>4, <2>5, <2>6 DEF StorageInv
<1>4. QED
  BY <1>2, <1>3

(* What a step leaves of a file it does not touch.                         *)
LEMMA PieceFrame ==
  ASSUME NEW p \in Pieces, PieceOK(p), PieceTyped(p),
         client'[p] = client[p], rows'[p] = rows[p], p \in stored => p \in stored',
         UNCHANGED <<dialog, scope, filed>>
  PROVE  PieceOK(p)' /\ PieceTyped(p)'
  BY DEF PieceOK, PieceTyped, Unknown

LEMMA PiecesMake ==
  ASSUME EvidenceInv, StorageInv', UNCHANGED <<dialog, scope>>,
         DOMAIN client' = Pieces, DOMAIN rows' = Pieces,
         client' = [p \in Pieces |-> client'[p]], rows' = [p \in Pieces |-> rows'[p]],
         \A p \in Pieces : PieceTyped(p)' /\ PieceOK(p)'
  PROVE  EvidenceInv'
<1>1. EvidenceTypeOK'
  BY DEF EvidenceTypeOK, PieceTyped
<1>2. QED
  BY <1>1 DEF EvidenceInv

(* Only storage takes a step.                                              *)
LEMMA StorageStep ==
  ASSUME EvidenceInv, StorageInv', stored \subseteq stored',
         UNCHANGED <<evidenceVars, dialog, scope, filed>>
  PROVE  EvidenceInv'
<1>1. ASSUME NEW p \in Pieces PROVE PieceOK(p)' /\ PieceTyped(p)'
  BY Typed, PieceFrame DEF evidenceVars
<1>2. QED
  BY <1>1 DEF EvidenceInv, EvidenceTypeOK, evidenceVars

(* One file takes a step.                                                  *)
LEMMA OnePiece ==
  ASSUME EvidenceInv, StorageInv', NEW p \in Pieces, NEW c, NEW r,
         client' = [client EXCEPT ![p] = c], rows' = [rows EXCEPT ![p] = r],
         stored \ {p} \subseteq stored', UNCHANGED <<dialog, scope, filed>>,
         c \in [at : ClientStep, attempt : 1..maxAttempts, timer : Nat],
         r \in [raw : 0..MaxRows, attached : 0..MaxRows],
         client'[p] = c /\ rows'[p] = r => PieceOK(p)'
  PROVE  EvidenceInv'
<1>1. /\ client \in [Pieces -> [at : ClientStep, attempt : 1..maxAttempts, timer : Nat]]
      /\ rows \in [Pieces -> [raw : 0..MaxRows, attached : 0..MaxRows]]
  BY DEF EvidenceInv, EvidenceTypeOK
<1>2. client'[p] = c /\ rows'[p] = r
  BY <1>1
<1>3. ASSUME NEW q \in Pieces PROVE PieceOK(q)'
  <2>1. CASE q = p
    BY <1>2, <2>1
  <2>2. CASE q # p
    <3>1. client'[q] = client[q] /\ rows'[q] = rows[q] /\ (q \in stored => q \in stored')
      BY <1>1, <2>2
    <3>2. QED
      BY <3>1, Typed, PieceFrame
  <2>3. QED
    BY <2>1, <2>2
<1>4. EvidenceTypeOK'
  BY <1>1 DEF EvidenceTypeOK
<1>5. QED
  BY <1>3, <1>4 DEF EvidenceInv
-----------------------------------------------------------------------------
LEMMA EvidenceStart == ASSUME Init PROVE EvidenceInv
<1>1. /\ dialog \in (IF "evidence" \in scope THEN Dialogs ELSE {ClaimDialog})
      /\ IF "evidence" \in scope
           THEN StorageInit /\ EvidenceInit /\ filed = FALSE
           ELSE /\ stored = Pieces /\ paid = Pieces
                /\ upload = [b \in Blobs |-> IF b \in Pieces THEN "returned" ELSE "none"]
                /\ rows = [p \in Pieces |-> [raw |-> 0, attached |-> 1]]
                /\ client = [p \in Pieces |-> [Idle EXCEPT !.at = "attached"]]
                /\ filed = TRUE
  BY DEF Init
<1>2. dialog \in Dialogs
  BY <1>1 DEF Dialogs
<1>3. CASE "evidence" \in scope
  <2>1. StorageInv
    BY <1>1, <1>3 DEF StorageInit, StorageInv, StorageTypeOK, BlobOK, UploadState
  <2>2. EvidenceTypeOK
    BY <1>1, <1>3 DEF EvidenceInit, EvidenceTypeOK, Idle, ClientStep, maxAttempts, MaxRows
  <2>3. ASSUME NEW p \in Pieces PROVE PieceOK(p)
    BY <1>1, <1>3 DEF EvidenceInit, PieceOK, Unknown, Idle
  <2>4. QED
    BY <1>2, <1>3, <2>1, <2>2, <2>3 DEF EvidenceInv
<1>4. CASE "evidence" \notin scope
  <2>1. StorageInv
    BY <1>1, <1>4, CaseConstants DEF StorageInv, StorageTypeOK, BlobOK, UploadState
  <2>2. EvidenceTypeOK
    BY <1>1, <1>4 DEF EvidenceTypeOK, Idle, ClientStep, maxAttempts, MaxRows
  <2>3. ASSUME NEW p \in Pieces PROVE PieceOK(p)
    BY <1>1, <1>4 DEF PieceOK, Unknown, Idle
  <2>4. QED
    BY <1>1, <1>2, <1>4, <2>1, <2>2, <2>3 DEF EvidenceInv
<1>5. QED
  BY <1>3, <1>4
-----------------------------------------------------------------------------
(* The steps of a dialog before it is sent.                                *)
LEMMA UploadFileKept ==
  ASSUME EvidenceInv, NEW p \in Pieces, UploadFile(p) \/ FileUploadThrows(p)
  PROVE  EvidenceInv'
<1>1. StartUpload(p) \/ SubmitRoot(p) \/ UploadSegments(p) \/ UploadThrows(p)
  BY DEF UploadFile, FileUploadThrows
<1>2. UNCHANGED <<evidenceVars, dialog, scope, filed>>
  BY DEF UploadFile, FileUploadThrows, caseVars
<1>3. QED
  BY <1>1, <1>2, UploadKept, Typed, StorageStep DEF EvidenceInv

LEMMA RegisterKept ==
  ASSUME EvidenceInv, NEW p \in Pieces, RegisterFile(p)
  PROVE  EvidenceInv'
<1>1. /\ p \in stored /\ Asked(p) /\ ~dialog.oracle /\ client[p].at = "choosing"
      /\ PieceOK(p) /\ PieceTyped(p) /\ rows[p].raw < MaxRows
      /\ UNCHANGED <<paid, stored, dialog, scope, filed>>
  BY Typed DEF RegisterFile, Register, BlobOK, caseVars
<1>2. /\ p \in Blobs /\ p \in DOMAIN client
      /\ client = [client EXCEPT ![p] = client[p]]
      /\ upload = [upload EXCEPT ![p] = upload[p]]
  BY Typed DEF EvidenceInv, EvidenceTypeOK
<1> DEFINE r == [rows[p] EXCEPT !.raw = @ + 1]
           c == [client[p] EXCEPT !.at = "ready"]
<1>3. /\ rows' = [rows EXCEPT ![p] = r]
      /\ r \in [raw : 0..MaxRows, attached : 0..MaxRows]
      /\ r.attached = rows[p].attached /\ r.raw > 0
  BY <1>1 DEF RegisterFile, Register, PieceTyped, MaxRows
<1>4. CASE client' = [client EXCEPT ![p].at = "ready"]
  <2>1. client' = [client EXCEPT ![p] = c] /\ client'[p] = c /\ c.at = "ready"
    BY <1>1, <1>2, <1>4 DEF PieceTyped
  <2>2. upload' = upload
    BY <1>2, <2>1 DEF RegisterFile
  <2>3. StorageInv'
    BY <1>1, <1>2, <2>2, UploadKept DEF storageVars, EvidenceInv
  <2>4. c \in [at : ClientStep, attempt : 1..maxAttempts, timer : Nat]
    BY <1>1 DEF PieceTyped, ClientStep
  <2>5. client'[p] = c /\ rows'[p] = r => PieceOK(p)'
    BY <1>1, <1>3, <2>1 DEF PieceOK, Unknown, Asked
  <2> HIDE DEF c, r
  <2>6. QED
    BY <1>1, <1>3, <2>1, <2>3, <2>4, <2>5, OnePiece
<1>5. CASE client' = client
  <2>1. upload' = [upload EXCEPT ![p] = "failed"]
    BY <1>1, <1>5 DEF RegisterFile
  <2>2. StorageInv'
    BY <1>1, <1>2, <2>1, UploadKept DEF EvidenceInv
  <2>3. client'[p] = client[p] /\ rows'[p] = r => PieceOK(p)'
    BY <1>1, <1>3 DEF PieceOK, Unknown, Asked
  <2> HIDE DEF r
  <2>4. QED
    BY <1>1, <1>2, <1>3, <1>5, <2>2, <2>3, OnePiece DEF PieceTyped
<1>6. QED
  BY <1>4, <1>5 DEF RegisterFile, Register

(* The answer of the oracle.                                               *)
LEMMA SnapshotKept ==
  ASSUME EvidenceInv, NEW p \in Pieces, SnapshotFile(p)
  PROVE  EvidenceInv'
<1>1. /\ Asked(p) /\ dialog.oracle /\ PieceOK(p) /\ PieceTyped(p)
      /\ UNCHANGED <<dialog, scope, filed>> /\ p \in Blobs /\ p \in DOMAIN client
      /\ rows = [rows EXCEPT ![p] = rows[p]] /\ p \in DOMAIN rows
  BY Typed DEF SnapshotFile, caseVars, EvidenceInv, EvidenceTypeOK
<1>2. CASE FetchFlight(p) \/ OracleRefuses(p)
  <2>1. PICK at \in {"choosing", "fetching"} : client' = [client EXCEPT ![p].at = at]
    BY <1>2 DEF FetchFlight, OracleRefuses
  <2>2. Unknown(p) /\ rows' = rows /\ UNCHANGED storageVars
    BY <1>2 DEF FetchFlight, OracleRefuses, Unknown
  <2> DEFINE c == [client[p] EXCEPT !.at = at]
  <2>3. client' = [client EXCEPT ![p] = c] /\ c.at = at
    BY <1>1, <2>1 DEF PieceTyped
  <2>4. c \in [at : ClientStep, attempt : 1..maxAttempts, timer : Nat]
    BY <1>1 DEF PieceTyped, ClientStep
  <2>5. StorageInv' /\ stored' = stored
    BY <1>1, <2>2, UploadKept DEF storageVars, EvidenceInv
  <2>6. client'[p] = c /\ rows'[p] = rows[p] => PieceOK(p)'
    BY <1>1, <2>2, <2>3 DEF PieceOK, Unknown, Asked
  <2> HIDE DEF c
  <2>7. QED
    BY <1>1, <2>2, <2>3, <2>4, <2>5, <2>6, OnePiece DEF PieceTyped
<1>3. CASE UploadSnapshot(p)
  <2>1. StartUpload(p) \/ SubmitRoot(p) \/ UploadSegments(p)
    BY <1>3 DEF UploadSnapshot
  <2>2. QED
    BY <1>1, <1>3, <2>1, UploadKept, StorageStep DEF EvidenceInv, UploadSnapshot
<1>4. CASE RegisterSnapshot(p)
  <2> DEFINE r == [rows[p] EXCEPT !.raw = @ + 1]
             c == [client[p] EXCEPT !.at = "ready"]
  <2>1. /\ client[p].at = "fetching" /\ rows' = [rows EXCEPT ![p] = r]
        /\ client' = [client EXCEPT ![p] = c] /\ UNCHANGED storageVars
        /\ p \in stored /\ c.at = "ready" /\ rows[p].raw = 0
    BY <1>1, <1>4, Typed DEF RegisterSnapshot, PieceTyped, PieceOK, BlobOK, Unknown
  <2>2. /\ r \in [raw : 0..MaxRows, attached : 0..MaxRows]
        /\ c \in [at : ClientStep, attempt : 1..maxAttempts, timer : Nat]
        /\ r.attached = rows[p].attached /\ r.raw > 0
    BY <1>1, <2>1 DEF PieceTyped, ClientStep, MaxRows
  <2>3. StorageInv' /\ stored' = stored
    BY <1>1, <2>1, UploadKept DEF storageVars, EvidenceInv
  <2>4. client'[p] = c /\ rows'[p] = r => PieceOK(p)'
    BY <1>1, <2>1, <2>2, <2>3 DEF PieceOK, Unknown, Asked
  <2> HIDE DEF c, r
  <2>5. QED
    BY <1>1, <2>1, <2>2, <2>3, <2>4, OnePiece
<1>5. QED
  BY <1>2, <1>3, <1>4 DEF SnapshotFile

LEMMA SnapshotFailsKept ==
  ASSUME EvidenceInv, NEW p \in Pieces, SnapshotFails(p)
  PROVE  EvidenceInv'
<1>1. /\ PieceOK(p) /\ PieceTyped(p) /\ UNCHANGED <<dialog, scope, filed>>
      /\ p \in Blobs /\ p \in DOMAIN client /\ rows' = rows
      /\ rows = [rows EXCEPT ![p] = rows[p]] /\ p \in DOMAIN rows
      /\ client[p].at = "fetching"
      /\ upload' = [upload EXCEPT ![p] = "none"] /\ paid' = paid \ {p}
      /\ stored' = stored \ {p}
  BY Typed DEF SnapshotFails, SnapshotLost, EvidenceInv, EvidenceTypeOK
<1> DEFINE c == [client[p] EXCEPT !.at = "choosing"]
<1>2. client' = [client EXCEPT ![p] = c] /\ c.at = "choosing"
  BY <1>1 DEF SnapshotFails, SnapshotLost, PieceTyped
<1>3. StorageInv'
  BY <1>1, Typed DEF StorageInv, StorageTypeOK, BlobOK, UploadState
<1>4. c \in [at : ClientStep, attempt : 1..maxAttempts, timer : Nat]
  BY <1>1 DEF PieceTyped, ClientStep
<1>5. client'[p] = c /\ rows'[p] = rows[p] => PieceOK(p)'
  BY <1>1, <1>2 DEF PieceOK, Unknown
<1> HIDE DEF c
<1>6. QED
  BY <1>1, <1>2, <1>3, <1>4, <1>5, OnePiece DEF PieceTyped
-----------------------------------------------------------------------------
(* The steps of a dialog and its answer once they are sent.  Every file    *)
(* moves by itself.                                                        *)
LEMMA EachPiece ==
  ASSUME EvidenceInv, UNCHANGED <<storageVars, rows, dialog, scope>>,
         client' = [p \in Pieces |-> client'[p]],
         \A p \in Pieces : PieceTyped(p)' /\ PieceOK(p)'
  PROVE  EvidenceInv'
<1>1. StorageInv'
  BY DEF EvidenceInv, StorageInv, StorageTypeOK, BlobOK, storageVars
<1>2. rows' = [p \in Pieces |-> rows'[p]] /\ DOMAIN rows' = Pieces
  BY DEF EvidenceInv, EvidenceTypeOK
<1>3. QED
  BY <1>1, <1>2, PiecesMake

LEMMA SendKept ==
  ASSUME EvidenceInv, SendCase \/ SendAnswer
  PROVE  EvidenceInv'
<1>1. PICK ps \in {dialog.files, dialog.answers} :
        Send(ps) /\ (ps = dialog.files => ~filed \/ dialog.answers = dialog.files)
  BY DEF SendCase, SendAnswer
<1>2. UNCHANGED <<storageVars, rows, dialog, scope, filed>>
  BY <1>1 DEF SendCase, SendAnswer, Send, caseVars
<1>3. ASSUME NEW p \in Pieces PROVE PieceTyped(p)' /\ PieceOK(p)'
  <2>1. PieceOK(p) /\ PieceTyped(p)
    BY Typed
  <2>2. CASE p \in ps
    <3>1. client'[p] = [client[p] EXCEPT !.at = "mining"] /\ client[p].at = "ready"
      BY <1>1, <2>2 DEF Send
    <3>2. PieceTyped(p)' /\ client'[p].at = "mining"
      BY <1>2, <2>1, <3>1 DEF PieceTyped, ClientStep
    <3>3. PieceOK(p)'
      BY <1>1, <1>2, <2>1, <2>2, <3>1, <3>2 DEF PieceOK, Unknown, storageVars
    <3>4. QED
      BY <3>2, <3>3
  <2>3. CASE p \notin ps
    <3>1. client'[p] = client[p]
      BY <1>1, <2>3 DEF Send
    <3>2. QED
      BY <1>2, <2>1, <3>1, PieceFrame DEF storageVars
  <2>4. QED
    BY <2>2, <2>3
<1>4. client' = [p \in Pieces |-> client'[p]]
  BY <1>1 DEF Send
<1>5. QED
  BY <1>2, <1>3, <1>4, EachPiece

LEMMA CaseMinedKept ==
  ASSUME EvidenceInv, CaseMined
  PROVE  EvidenceInv'
<1>1. UNCHANGED <<storageVars, evidenceVars, dialog, scope>> /\ filed'
      /\ \A p \in dialog.files : client[p].at \in {"mining", "closed"}
  BY DEF CaseMined
<1>2. ASSUME NEW p \in Pieces PROVE PieceTyped(p)' /\ PieceOK(p)'
  <2>1. PieceOK(p) /\ PieceTyped(p)
    BY Typed
  <2>2. QED
    BY <1>1, <2>1 DEF PieceTyped, PieceOK, Unknown, evidenceVars, storageVars
<1>3. client' = [p \in Pieces |-> client'[p]]
  BY <1>1 DEF EvidenceInv, EvidenceTypeOK, evidenceVars
<1>4. QED
  BY <1>1, <1>2, <1>3, EachPiece DEF evidenceVars

LEMMA ReceiptKept ==
  ASSUME EvidenceInv, NEW ps, HearReceipt(ps)
  PROVE  EvidenceInv'
<1>1. UNCHANGED <<storageVars, rows, dialog, scope, filed>>
      /\ client' = [p \in Pieces |-> IF p \in ps /\ client[p].at = "mining"
                                     THEN Asking(1) ELSE client[p]]
  BY DEF HearReceipt, Receipt, caseVars
<1>2. ASSUME NEW p \in Pieces PROVE PieceTyped(p)' /\ PieceOK(p)'
  <2>1. PieceOK(p) /\ PieceTyped(p)
    BY Typed
  <2>2. CASE p \in ps /\ client[p].at = "mining"
    <3>1. client'[p] = Asking(1)
      BY <1>1, <2>2
    <3>2. /\ PieceTyped(p)' /\ client'[p].at = "calling" /\ client'[p].timer = Latency
      BY <1>1, <2>1, <3>1, Delays DEF PieceTyped, ClientStep, Asking, maxAttempts
    <3>3. PieceOK(p)'
      BY <1>1, <2>1, <2>2, <3>2, Delays DEF PieceOK, Unknown, storageVars
    <3>4. QED
      BY <3>2, <3>3
  <2>3. CASE ~(p \in ps /\ client[p].at = "mining")
    <3>1. client'[p] = client[p]
      BY <1>1, <2>3
    <3>2. QED
      BY <1>1, <2>1, <3>1, PieceFrame DEF storageVars
  <2>4. QED
    BY <2>2, <2>3
<1>3. client' = [p \in Pieces |-> client'[p]]
  BY <1>1
<1>4. QED
  BY <1>1, <1>2, <1>3, EachPiece

LEMMA AttachKept ==
  ASSUME EvidenceInv, NEW p \in Pieces,
         AttachAnswered(p) \/ AttachAgain(p) \/ (BrowserFails(p) /\ CallFails(p))
  PROVE  EvidenceInv'
<1>1. /\ PieceOK(p) /\ PieceTyped(p) /\ UNCHANGED <<storageVars, dialog, scope, filed>>
      /\ p \in Blobs /\ p \in DOMAIN client
      /\ rows = [rows EXCEPT ![p] = rows[p]] /\ p \in DOMAIN rows
  BY Typed DEF AttachAnswered, AttachAgain, BrowserFails, caseVars, EvidenceInv, EvidenceTypeOK
<1>2. StorageInv' /\ stored' = stored
  BY <1>1, UploadKept DEF EvidenceInv, storageVars
<1>3. CASE AttachAnswered(p) /\ row # "NONE"
  <2> DEFINE r == [raw |-> 0, attached |-> rows[p].attached + rows[p].raw]
             c == [client[p] EXCEPT !.at = "attached", !.timer = 0]
  <2>1. /\ rows' = [rows EXCEPT ![p] = r] /\ client' = [client EXCEPT ![p] = c]
        /\ client[p].at = "calling"
    BY <1>1, <1>3 DEF AttachAnswered, Answer
  <2>2. rows[p].attached = 0 /\ rows[p].raw > 0
    BY <1>1, <2>1 DEF PieceOK, PieceTyped, Unknown
  <2>3. /\ r \in [raw : 0..MaxRows, attached : 0..MaxRows] /\ r.attached > 0
        /\ c \in [at : ClientStep, attempt : 1..maxAttempts, timer : Nat]
        /\ c.at = "attached"
    <3>1. r \in [raw : 0..MaxRows, attached : 0..MaxRows] /\ r.attached > 0
      BY <1>1, <2>2 DEF PieceTyped, MaxRows
    <3>2. /\ c \in [at : ClientStep, attempt : 1..maxAttempts, timer : Nat]
          /\ c.at = "attached"
      BY <1>1 DEF PieceTyped, ClientStep
    <3>3. QED
      BY <3>1, <3>2
  <2>4. client'[p] = c /\ rows'[p] = r => PieceOK(p)'
    BY <1>1, <1>2, <2>1, <2>3 DEF PieceOK, Unknown
  <2> HIDE DEF c, r
  <2>5. QED
    BY <1>1, <1>2, <2>1, <2>3, <2>4, OnePiece
<1>4. ASSUME NEW c, rows' = rows, client' = [client EXCEPT ![p] = c],
             c \in [at : ClientStep, attempt : 1..maxAttempts, timer : Nat],
             client[p].at \in {"calling", "sleeping"},
             c.at \in {"calling", "sleeping", "gaveUp"},
             c.at = "sleeping" => c.attempt < maxAttempts /\ c.timer <= Pause(c.attempt),
             c.at = "calling" => c.timer <= Latency
      PROVE  EvidenceInv'
  <2>1. client'[p] = c /\ rows'[p] = rows[p] => PieceOK(p)'
    BY <1>1, <1>2, <1>4 DEF PieceOK, Unknown
  <2>2. QED
    BY <1>1, <1>2, <1>4, <2>1, OnePiece DEF PieceTyped
<1>5. CASE AttachAnswered(p) /\ row = "NONE"
  <2> DEFINE n == client[p].attempt
  <2>1. /\ rows' = rows /\ client[p].at = "calling" /\ n \in 1..5
        /\ client' = [client EXCEPT ![p] =
             IF n < maxAttempts THEN [at |-> "sleeping", attempt |-> n, timer |-> Pause(n)]
             ELSE [at |-> "gaveUp", attempt |-> n, timer |-> 0]]
    BY <1>1, <1>5 DEF AttachAnswered, Answer, Refused, PieceTyped, maxAttempts
  <2>2. Pause(n) \in Nat
    BY <2>1 DEF Pause, SECOND
  <2> HIDE DEF n
  <2>3. CASE n < maxAttempts
    <3> DEFINE c == [at |-> "sleeping", attempt |-> n, timer |-> Pause(n)]
    <3>1. c \in [at : ClientStep, attempt : 1..maxAttempts, timer : Nat]
      BY <2>1, <2>2 DEF ClientStep, maxAttempts
    <3>2. c.at = "sleeping" /\ c.attempt < maxAttempts /\ c.timer <= Pause(c.attempt)
      BY <2>2, <2>3
    <3>3. client' = [client EXCEPT ![p] = c]
      BY <2>1, <2>3
    <3> HIDE DEF c
    <3>4. QED
      BY <1>4, <2>1, <3>1, <3>2, <3>3
  <2>4. CASE ~(n < maxAttempts)
    <3> DEFINE c == [at |-> "gaveUp", attempt |-> n, timer |-> 0]
    <3>1. c \in [at : ClientStep, attempt : 1..maxAttempts, timer : Nat] /\ c.at = "gaveUp"
      BY <2>1 DEF ClientStep, maxAttempts
    <3>2. client' = [client EXCEPT ![p] = c]
      BY <2>1, <2>4
    <3> HIDE DEF c
    <3>3. QED
      BY <1>4, <2>1, <3>1, <3>2
  <2>5. QED
    BY <2>3, <2>4
<1>6. CASE AttachAgain(p)
  <2> DEFINE c == Asking(client[p].attempt + 1)
  <2>1. /\ rows' = rows /\ client[p].at = "sleeping" /\ client' = [client EXCEPT ![p] = c]
    BY <1>1, <1>6 DEF AttachAgain, Wake
  <2>2. /\ c \in [at : ClientStep, attempt : 1..maxAttempts, timer : Nat]
        /\ c.at = "calling" /\ c.timer = Latency
    BY <1>1, <2>1, Delays DEF PieceTyped, PieceOK, ClientStep, Asking, maxAttempts
  <2>3. c.at # "sleeping" /\ c.timer <= Latency
    BY <2>2, Delays
  <2> HIDE DEF c
  <2>4. QED
    BY <1>4, <2>1, <2>2, <2>3
<1>7. CASE CallFails(p)
  <2> DEFINE c == [client[p] EXCEPT !.at = "gaveUp", !.timer = 0]
  <2>1. /\ rows' = rows /\ client[p].at = "calling" /\ client' = [client EXCEPT ![p] = c]
    BY <1>1, <1>7 DEF CallFails
  <2>2. /\ c \in [at : ClientStep, attempt : 1..maxAttempts, timer : Nat]
        /\ c.at = "gaveUp"
    BY <1>1 DEF PieceTyped, ClientStep
  <2> HIDE DEF c
  <2>3. QED
    BY <1>4, <2>1, <2>2
<1>8. QED
  BY <1>3, <1>5, <1>6, <1>7

(* The tab is closed, time passes, or the service stops.                   *)
LEMMA CloseKept ==
  ASSUME EvidenceInv, CloseTab, UNCHANGED <<storageVars, dialog, scope, filed>>
  PROVE  EvidenceInv'
<1>1. rows' = rows /\ client' = [p \in Pieces |-> client'[p]]
  BY DEF CloseTab
<1>2. ASSUME NEW p \in Pieces PROVE PieceTyped(p)' /\ PieceOK(p)'
  <2>1. PieceOK(p) /\ PieceTyped(p)
    BY Typed
  <2>2. CASE client[p].at \in {"mining", "calling", "sleeping"}
    <3>1. client'[p] = [client[p] EXCEPT !.at = "closed", !.timer = 0]
      BY <2>2 DEF CloseTab
    <3> DEFINE c == [client[p] EXCEPT !.at = "closed", !.timer = 0]
    <3>2. PieceTyped(p)' /\ client'[p].at = "closed"
      <4>1. /\ c \in [at : ClientStep, attempt : 1..maxAttempts, timer : Nat]
            /\ c.at = "closed"
        BY <2>1 DEF PieceTyped, ClientStep
      <4> HIDE DEF c
      <4>2. QED
        BY <1>1, <2>1, <3>1, <4>1 DEF PieceTyped, c
    <3>3. PieceOK(p)'
      BY <1>1, <2>1, <2>2, <3>2 DEF PieceOK, Unknown, storageVars
    <3>4. QED
      BY <3>2, <3>3
  <2>3. CASE client[p].at \notin {"mining", "calling", "sleeping"}
    <3>1. client'[p] = client[p]
      BY <2>3 DEF CloseTab
    <3>2. QED
      BY <1>1, <2>1, <3>1, PieceFrame DEF storageVars
  <2>4. QED
    BY <2>2, <2>3
<1>3. QED
  BY <1>1, <1>2, EachPiece

LEMMA TickKept ==
  ASSUME EvidenceInv, Tick
  PROVE  EvidenceInv'
<1>1. /\ UNCHANGED <<storageVars, rows, dialog, scope, filed>> /\ \A p \in Pieces : ~Due(p)
      /\ client' = [p \in Pieces |-> IF Timed(p) THEN [client[p] EXCEPT !.timer = @ - 1]
                                     ELSE client[p]]
  BY DEF Tick, TickClients
<1>2. ASSUME NEW p \in Pieces PROVE PieceTyped(p)' /\ PieceOK(p)'
  <2>1. PieceOK(p) /\ PieceTyped(p)
    BY Typed
  <2>2. CASE Timed(p)
    <3>1. client'[p] = [client[p] EXCEPT !.timer = @ - 1] /\ client[p].timer # 0
      BY <1>1, <2>2 DEF Due
    <3>2. /\ PieceTyped(p)' /\ client'[p].at = client[p].at
          /\ client'[p].attempt = client[p].attempt /\ client'[p].timer <= client[p].timer
          /\ client'[p].timer \in Nat /\ client[p].timer \in Nat
          /\ client[p].attempt \in 1..5
      BY <1>1, <2>1, <3>1 DEF PieceTyped, maxAttempts
    <3>3. Pause(client[p].attempt) \in Nat
      BY <3>2 DEF Pause, SECOND
    <3>4. PieceOK(p)'
      BY <1>1, <2>1, <2>2, <3>2, <3>3, Delays DEF PieceOK, Unknown, storageVars
    <3>5. QED
      BY <3>2, <3>4
  <2>3. CASE ~Timed(p)
    <3>1. client'[p] = client[p]
      BY <1>1, <2>3
    <3>2. QED
      BY <1>1, <2>1, <3>1, PieceFrame DEF storageVars
  <2>4. QED
    BY <2>2, <2>3
<1>3. client' = [p \in Pieces |-> client'[p]]
  BY <1>1
<1>4. QED
  BY <1>1, <1>2, <1>3, EachPiece

LEMMA RestartKept ==
  ASSUME EvidenceInv, Restart
  PROVE  EvidenceInv' /\ \A p \in Pieces : ~Unknown(p) => p \in stored'
<1>1. /\ upload' = [b \in Blobs |-> IF b \in Fetching \cup {Transcript} THEN "none"
                                  ELSE IF Awaited(b) THEN "failed" ELSE upload[b]]
      /\ paid' = paid \ Fetching /\ stored' = stored \ Fetching
      /\ LoseRequests /\ UNCHANGED <<dialog, scope, filed>>
  BY DEF Restart
<1>2. ASSUME NEW b \in Blobs PROVE BlobOK(b)' /\ upload'[b] \in UploadState
  <2>1. BlobOK(b) /\ upload[b] \in UploadState
    BY Typed
  <2>2. upload'[b] \in {"none", "failed"} \/ (upload'[b] = upload[b] /\ b \notin Fetching)
    BY <1>1
  <2>3. QED
    BY <1>1, <2>1, <2>2 DEF BlobOK, UploadState
<1>3. StorageInv'
  <2>1. upload' = [b \in Blobs |-> upload'[b]]
    BY <1>1
  <2>2. stored' \subseteq paid' /\ paid' \subseteq Blobs
    BY <1>1, Typed
  <2>3. QED
    BY <1>2, <2>1, <2>2 DEF StorageInv, StorageTypeOK
<1>4. ASSUME NEW p \in Pieces
      PROVE  PieceTyped(p)' /\ PieceOK(p)' /\ (~Unknown(p) => p \in stored')
  <2>1. PieceOK(p) /\ PieceTyped(p) /\ rows' = rows
    BY <1>1, Typed DEF LoseRequests
  <2>2. client'[p] = CASE client[p].at = "calling"
                            -> [client[p] EXCEPT !.at = "gaveUp", !.timer = 0]
                       [] client[p].at = "fetching" -> Idle
                       [] OTHER -> client[p]
    BY <1>1 DEF LoseRequests
  <2>3. ~Unknown(p) => p \in stored'
    BY <1>1, <2>1 DEF PieceOK, Unknown, Fetching
  <2>4. CASE client[p].at = "calling"
    <3> DEFINE c == [client[p] EXCEPT !.at = "gaveUp", !.timer = 0]
    <3>1. /\ c \in [at : ClientStep, attempt : 1..maxAttempts, timer : Nat]
          /\ c.at = "gaveUp"
      BY <2>1 DEF PieceTyped, ClientStep
    <3>2. client'[p] = c
      BY <2>2, <2>4
    <3> HIDE DEF c
    <3>3. PieceTyped(p)' /\ client'[p].at = "gaveUp"
      BY <2>1, <3>1, <3>2 DEF PieceTyped
    <3>4. PieceOK(p)'
      BY <1>1, <2>1, <2>3, <2>4, <3>3 DEF PieceOK, Unknown
    <3>5. QED
      BY <2>3, <3>3, <3>4
  <2>5. CASE client[p].at = "fetching"
    <3>1. client'[p] = Idle
      BY <2>2, <2>5
    <3>2. PieceTyped(p)' /\ client'[p].at = "choosing"
      BY <2>1, <3>1 DEF PieceTyped, Idle, ClientStep, maxAttempts
    <3>3. PieceOK(p)'
      BY <1>1, <2>1, <2>5, <3>2 DEF PieceOK, Unknown
    <3>4. QED
      BY <2>3, <3>2, <3>3
  <2>6. CASE client[p].at \notin {"calling", "fetching"}
    <3>1. client'[p] = client[p] /\ p \notin Fetching
      BY <2>2, <2>6 DEF Fetching
    <3>2. p \in stored => p \in stored'
      BY <1>1, <3>1
    <3>3. QED
      BY <1>1, <2>1, <2>3, <3>1, <3>2, PieceFrame
  <2>7. QED
    BY <2>4, <2>5, <2>6
<1>5. /\ client' = [p \in Pieces |-> client'[p]] /\ rows' = [p \in Pieces |-> rows'[p]]
      /\ DOMAIN client' = Pieces /\ DOMAIN rows' = Pieces
  BY <1>1, Typed DEF LoseRequests, EvidenceInv, EvidenceTypeOK
<1>6. QED
  BY <1>1, <1>3, <1>4, <1>5, PiecesMake

(* The judge's transcript is uploaded, or given up.                        *)
LEMMA TranscriptKept ==
  ASSUME EvidenceInv,
         \/ UploadTranscript \/ TranscriptUploadThrows
         \/ TooLate \/ NoDecision \/ TranscriptLost \/ Throws
  PROVE  EvidenceInv' /\ stored \subseteq stored'
<1>1. UNCHANGED <<evidenceVars, dialog, scope, filed>>
  BY DEF UploadTranscript, TranscriptUploadThrows, TooLate, NoDecision, TranscriptLost,
         Throws, Thrown
<1>2. \/ StartUpload(Transcript) \/ SubmitRoot(Transcript) \/ UploadSegments(Transcript)
      \/ UploadThrows(Transcript)
      \/ upload' = [upload EXCEPT ![Transcript] = "none"] /\ UNCHANGED <<paid, stored>>
  BY DEF UploadTranscript, TranscriptUploadThrows, TooLate, NoDecision, TranscriptLost,
         Throws, Thrown
<1>3. QED
  BY <1>1, <1>2, UploadKept, Typed, StorageStep DEF EvidenceInv

LEMMA EvidenceKept == ASSUME EvidenceInv, Next PROVE EvidenceInv'
<1>1. ASSUME NEW p \in Pieces,
             \/ UploadFile(p) \/ FileUploadThrows(p) \/ RegisterFile(p)
             \/ SnapshotFile(p) \/ SnapshotFails(p)
             \/ AttachAnswered(p) \/ AttachAgain(p) \/ BrowserFails(p)
      PROVE  EvidenceInv'
  <2>1. CASE BrowserFails(p) /\ CloseTab
    BY <2>1, CloseKept DEF BrowserFails
  <2>2. CASE ~(BrowserFails(p) /\ CloseTab)
    BY <1>1, <2>2, UploadFileKept, RegisterKept, SnapshotKept, SnapshotFailsKept, AttachKept
       DEF BrowserFails
  <2>3. QED
    BY <2>1, <2>2
<1>2. CASE \/ SendCase \/ SendAnswer \/ CaseMined
           \/ HearReceipt(dialog.files) \/ HearReceipt(dialog.answers)
  BY <1>2, SendKept, CaseMinedKept, ReceiptKept
<1>3. CASE \/ UploadTranscript \/ TranscriptUploadThrows
           \/ TooLate \/ NoDecision \/ TranscriptLost \/ Throws
  BY <1>3, TranscriptKept
<1>4. CASE Tick \/ Restart
  BY <1>4, TickKept, RestartKept
<1>5. ASSUME \/ InsertRow \/ AddJob \/ MirrorVerdict
             \/ Load \/ Poll \/ AskModel \/ Decide \/ SubmitVerdict \/ UpdateOutcome
             \/ Tell \/ Failed
      PROVE  UNCHANGED <<storageVars, evidenceVars, dialog, scope, filed>>
  BY <1>5 DEF InsertRow, AddJob, MirrorVerdict, Load, Poll, AskModel, Decide, SubmitVerdict,
              UpdateOutcome, Tell, Failed, caseVars
<1>6. ASSUME CallsProceed \/ CallThrows \/ (\E c \in Calls : OtherCall(c))
      PROVE  UNCHANGED <<storageVars, evidenceVars, dialog, scope, filed>>
  BY <1>6 DEF CallsProceed, CallThrows, OtherCall, others, caseVars
<1>7. ASSUME NEW v \in Viewers, OpenPage(v) \/ Replay(v) \/ ReopenStream(v) \/ LeavePage(v)
      PROVE  UNCHANGED <<storageVars, evidenceVars, dialog, scope, filed>>
  BY <1>7 DEF OpenPage, Replay, ReopenStream, LeavePage, parts, caseVars
<1>8. CASE UNCHANGED <<storageVars, evidenceVars, dialog, scope, filed>>
  BY <1>8, UploadKept, Typed, StorageStep DEF EvidenceInv
<1>9. QED
  BY <1>1, <1>2, <1>3, <1>4, <1>5, <1>6, <1>7, <1>8 DEF Next, JudgeNext
-----------------------------------------------------------------------------
CourtTyped ==
  /\ StreamTypeOK(Rulings)
  /\ scope \in Scopes /\ filed \in BOOLEAN
  /\ ruling \in Rulings \cup {NoOutcome}
  /\ row \in Rulings \cup {"NONE", "PENDING"}
  /\ judge \in Job
  /\ faults \in 0..MaxFaults

(* An attempt carries a decision from its upload on, its transcript is     *)
(* final before the verdict is sent, and it goes on after the transaction  *)
(* only with the verdict that is on chain.                                 *)
AttemptOK ==
  /\ judge.polls < MaxPolls
  /\ judge.step \in {"upload", "submit", "update", "tell"} => judge.decision \in Rulings
  /\ judge.step \in {"submit", "update", "tell"} => Transcript \in stored
  /\ judge.step \in {"update", "tell"} => judge.decision = ruling
  /\ judge.step # "none" => row # "NONE"
  /\ judge.step = "wait" => judge.expected = dialog.cites

VerdictOK ==
  /\ ruling # NoOutcome => Transcript \in stored
  /\ Decided => row = ruling
  /\ \A v \in Viewers : viewer[v].shown \in {NoOutcome, ruling}

CourtInv == CourtTyped /\ AttemptOK /\ VerdictOK
-----------------------------------------------------------------------------
LEMMA Polls == MaxPolls = 10 /\ POLL = 3 /\ EVIDENCE_WAIT = 30
  BY DEF MaxPolls, POLL, EVIDENCE_WAIT, SECOND

LEMMA CourtStart == ASSUME Init PROVE CourtInv
<1>1. /\ scope \in Scopes /\ filed \in BOOLEAN /\ viewer = AllAway /\ ruling = NoOutcome
      /\ faults = 0 /\ judge = NoJob /\ row = "NONE"
  BY DEF Init
<1>2. NoJob \in Job
  BY Polls, CaseConstants DEF NoJob, Job, JudgeStep
<1>3. CourtTyped
  BY <1>1, <1>2, CaseConstants DEF CourtTyped, StreamTypeOK, AllAway, ViewerStep
<1>4. AttemptOK
  BY <1>1, Polls DEF AttemptOK, NoJob
<1>5. VerdictOK
  BY <1>1 DEF VerdictOK, AllAway, Decided, Rulings
<1>6. QED
  BY <1>3, <1>4, <1>5 DEF CourtInv

(* Once final, a transcript stays.                                         *)
LEMMA TranscriptStays ==
  ASSUME EvidenceInv, Next, Transcript \in stored
  PROVE  Transcript \in stored'
<1>1. ASSUME NEW p \in Pieces, UploadFile(p) \/ FileUploadThrows(p)
      PROVE  Transcript \in stored'
  <2>1. StartUpload(p) \/ SubmitRoot(p) \/ UploadSegments(p) \/ UploadThrows(p)
    BY <1>1 DEF UploadFile, FileUploadThrows
  <2>2. QED
    BY <2>1, UploadKept, Typed DEF EvidenceInv
<1>2. ASSUME NEW p \in Pieces, SnapshotFile(p)
      PROVE  Transcript \in stored'
  <2>1. StartUpload(p) \/ SubmitRoot(p) \/ UploadSegments(p) \/ UNCHANGED storageVars
    BY <1>2 DEF SnapshotFile, FetchFlight, OracleRefuses, UploadSnapshot, RegisterSnapshot
  <2>2. QED
    BY <2>1, UploadKept, Typed DEF EvidenceInv
<1>3. ASSUME NEW p \in Pieces,
             \/ RegisterFile(p) \/ AttachAnswered(p) \/ AttachAgain(p) \/ BrowserFails(p)
      PROVE  stored' = stored
  BY <1>3 DEF RegisterFile, AttachAnswered, AttachAgain, BrowserFails, storageVars
<1>4. ASSUME NEW p \in Pieces, SnapshotFails(p)
      PROVE  Transcript \in stored'
  BY <1>4, CaseConstants DEF SnapshotFails, SnapshotLost
<1>5. CASE Restart
  BY <1>5, CaseConstants DEF Restart, Fetching
<1>6. CASE \/ UploadTranscript \/ TranscriptUploadThrows
           \/ TooLate \/ NoDecision \/ TranscriptLost \/ Throws
  BY <1>6, TranscriptKept
<1>7. ASSUME \/ SendCase \/ SendAnswer \/ CaseMined
             \/ HearReceipt(dialog.files) \/ HearReceipt(dialog.answers)
             \/ InsertRow \/ AddJob \/ MirrorVerdict \/ Tick
      PROVE  stored' = stored
  BY <1>7 DEF SendCase, SendAnswer, CaseMined, HearReceipt, InsertRow, AddJob, MirrorVerdict, Tick,
              storageVars
<1>8. ASSUME \/ Load \/ Poll \/ AskModel \/ Decide \/ SubmitVerdict \/ UpdateOutcome
             \/ Tell \/ Failed
      PROVE  stored' = stored
  BY <1>8 DEF Load, Poll, AskModel, Decide, SubmitVerdict, UpdateOutcome, Tell, Failed,
              storageVars
<1>9. ASSUME CallsProceed \/ CallThrows \/ (\E c \in Calls : OtherCall(c))
      PROVE  stored' = stored
  BY <1>9 DEF CallsProceed, CallThrows, OtherCall, others, storageVars
<1>10. ASSUME NEW v \in Viewers, OpenPage(v) \/ Replay(v) \/ ReopenStream(v) \/ LeavePage(v)
      PROVE  stored' = stored
  BY <1>10 DEF OpenPage, Replay, ReopenStream, LeavePage, parts, storageVars
<1>11. QED
  BY <1>1, <1>2, <1>3, <1>4, <1>5, <1>6, <1>7, <1>8, <1>9, <1>10 DEF Next, JudgeNext

(* A page shows nothing, or what it showed or is told: the verdict.        *)
LEMMA PublishKept ==
  ASSUME CourtInv,
         \/ PublishError \/ PublishDone \/ viewer' = viewer
         \/ ruling \in Rulings /\ PublishOutcome(ruling)
  PROVE  /\ StreamTypeOK(Rulings)'
         /\ \A v \in Viewers : viewer'[v].shown \in {NoOutcome, ruling}
<1>1. /\ viewer \in [Viewers -> [at : ViewerStep, shown : Rulings \cup {NoOutcome}]]
      /\ \A v \in Viewers : viewer[v].shown \in {NoOutcome, ruling}
  BY DEF CourtInv, CourtTyped, VerdictOK, StreamTypeOK
<1> DEFINE Fine(w) == /\ w \in [at : ViewerStep, shown : Rulings \cup {NoOutcome}]
                      /\ w.shown \in {NoOutcome, ruling}
<1>2. ASSUME NEW v \in Viewers
      PROVE  /\ Fine(viewer[v])
             /\ Fine([viewer[v] EXCEPT !.at = "lost"])
             /\ Fine([viewer[v] EXCEPT !.at = "closed"])
             /\ ruling \in Rulings => Fine([at |-> "closed", shown |-> ruling])
  BY <1>1 DEF ViewerStep
<1> HIDE DEF Fine
<1>3. CASE viewer' = viewer
  BY <1>1, <1>3 DEF StreamTypeOK
<1>4. CASE PublishError
  <2>1. viewer' = [v \in Viewers |-> IF Subscribed(v) THEN [viewer[v] EXCEPT !.at = "lost"]
                                    ELSE viewer[v]]
    BY <1>4 DEF PublishError, Publish
  <2>2. \A v \in Viewers : Fine(viewer'[v])
    BY <1>2, <2>1
  <2>3. QED
    BY <2>1, <2>2 DEF Fine, StreamTypeOK
<1>5. CASE PublishDone
  <2>1. viewer' = [v \in Viewers |-> IF Subscribed(v) THEN [viewer[v] EXCEPT !.at = "closed"]
                                    ELSE viewer[v]]
    BY <1>5 DEF PublishDone, Publish
  <2>2. \A v \in Viewers : Fine(viewer'[v])
    BY <1>2, <2>1
  <2>3. QED
    BY <2>1, <2>2 DEF Fine, StreamTypeOK
<1>6. CASE ruling \in Rulings /\ PublishOutcome(ruling)
  <2>1. viewer' = [v \in Viewers |-> IF Subscribed(v) THEN [at |-> "closed", shown |-> ruling]
                                    ELSE viewer[v]]
    BY <1>6 DEF PublishOutcome, Publish
  <2>2. \A v \in Viewers : Fine(viewer'[v])
    BY <1>2, <1>6, <2>1
  <2>3. QED
    BY <2>1, <2>2 DEF Fine, StreamTypeOK
<1>7. QED
  BY <1>3, <1>4, <1>5, <1>6
-----------------------------------------------------------------------------
(* The job moves on, or its attempt is over, and perhaps a verdict is      *)
(* mined.                                                                  *)
LEMMA JobMoves ==
  ASSUME CourtInv, UNCHANGED <<scope, dialog, filed, row>>, faults' \in 0..MaxFaults,
         Transcript \in stored => Transcript \in stored',
         NEW j \in Job, judge' = j, judge.step # "none", j.step # "none",
         j.polls < MaxPolls,
         j.step \in {"upload", "submit", "update", "tell"} => j.decision \in Rulings,
         j.step \in {"submit", "update", "tell"} => Transcript \in stored,
         j.step \in {"update", "tell"} => j.decision = ruling',
         j.step = "wait" => j.expected = dialog.cites,
         \/ ruling' = ruling
         \/ ruling = NoOutcome /\ ruling' \in Rulings /\ Transcript \in stored,
         StreamTypeOK(Rulings)',
         \A v \in Viewers : viewer'[v].shown \in {NoOutcome, ruling}
  PROVE  CourtInv'
<1>1. CourtTyped'
  BY DEF CourtInv, CourtTyped
<1>2. AttemptOK'
  BY DEF CourtInv, AttemptOK
<1>3. VerdictOK'
  BY CaseConstants DEF CourtInv, VerdictOK, Decided, Rulings
<1>4. QED
  BY <1>1, <1>2, <1>3 DEF CourtInv

(* Nothing the court knows changes, but for the assertion being on chain.  *)
LEMMA CourtFrame ==
  ASSUME CourtInv, UNCHANGED <<scope, dialog, row, ruling, judge>>, filed' \in BOOLEAN,
         faults' \in 0..MaxFaults,
         Transcript \in stored => Transcript \in stored',
         StreamTypeOK(Rulings)',
         \A v \in Viewers : viewer'[v].shown \in {NoOutcome, ruling}
  PROVE  CourtInv'
<1>1. CourtTyped'
  BY DEF CourtInv, CourtTyped
<1>2. AttemptOK'
  BY DEF CourtInv, AttemptOK
<1>3. VerdictOK'
  BY DEF CourtInv, VerdictOK, Decided
<1>4. QED
  BY <1>1, <1>2, <1>3 DEF CourtInv

LEMMA FaultCounted == ASSUME CourtInv, faults' = faults \/ Fault PROVE faults' \in 0..MaxFaults
  BY CaseConstants DEF CourtInv, CourtTyped, Fault

LEMMA CourtIs ==
  ASSUME CourtInv
  PROVE  /\ judge \in Job /\ judge.polls < MaxPolls /\ AttemptOK /\ VerdictOK /\ CourtTyped
         /\ judge.step # "none" => row # "NONE"
  BY DEF CourtInv, CourtTyped, AttemptOK

(* What a job is made of, and the jobs its steps make of it.               *)
LEMMA JobParts ==
  ASSUME NEW m \in Job
  PROVE  /\ m.step \in JudgeStep /\ m.attempt \in 1..ATTEMPTS /\ m.expected \in 0..2
         /\ m.polls \in 0..MaxPolls /\ m.timer \in 0..POLL
         /\ m.decision \in Rulings \cup {NoOutcome}
  BY DEF Job

LEMMA JobMade ==
  ASSUME NEW s \in JudgeStep, NEW a \in 1..ATTEMPTS, NEW x \in 0..2, NEW n \in 0..MaxPolls,
         NEW t \in 0..POLL, NEW d \in Rulings \cup {NoOutcome}
  PROVE  [step |-> s, attempt |-> a, expected |-> x, polls |-> n, timer |-> t,
          decision |-> d] \in Job
  BY DEF Job

LEMMA JobAt ==
  ASSUME judge \in Job, NEW s \in JudgeStep
  PROVE  LET j == [judge EXCEPT !.step = s] IN
         /\ j \in Job /\ j.step = s /\ j.polls = judge.polls
         /\ j.decision = judge.decision /\ j.expected = judge.expected
  BY DEF Job

Anew(s) == judge' = [NoJob EXCEPT !.step = s, !.attempt = judge.attempt]

LEMMA JobAnew ==
  ASSUME judge \in Job, NEW s \in JudgeStep, Anew(s)
  PROVE  judge' \in Job /\ judge'.step = s /\ judge'.polls = 0
<1> DEFINE j == judge'
<1>1. j = [step |-> s, attempt |-> judge.attempt, expected |-> 0, polls |-> 0, timer |-> 0,
           decision |-> NoOutcome]
  BY DEF NoJob, Anew
<1> HIDE DEF j
<1>2. /\ judge.attempt \in 1..ATTEMPTS
      /\ 0 \in 0..2 /\ 0 \in 0..MaxPolls /\ 0 \in 0..POLL
  BY JobParts, Polls
<1>3. j \in Job
  BY <1>1, <1>2, JobMade
<1>4. QED
  BY <1>1, <1>3 DEF j

LEMMA ReadsMake ==
  ASSUME judge \in Job, Reads
  PROVE  judge' \in Job /\ judge'.step = "infer" /\ judge'.polls = 0
<1> DEFINE m == judge
           j == judge'
<1>0. m \in Job
  OBVIOUS
<1>1. j = [m EXCEPT !.step = "infer", !.timer = 0, !.polls = 0, !.expected = 0]
  BY DEF Reads
<1> HIDE DEF m, j
<1>2. j = [step |-> "infer", attempt |-> m.attempt, expected |-> 0, polls |-> 0, timer |-> 0,
           decision |-> m.decision]
  BY <1>0, <1>1 DEF Job
<1>3. /\ "infer" \in JudgeStep /\ 0 \in 0..2 /\ 0 \in 0..MaxPolls /\ 0 \in 0..POLL
  BY Polls DEF JudgeStep
<1>4. j \in Job
  BY <1>0, <1>2, <1>3, JobMade, JobParts
<1>5. QED
  BY <1>2, <1>4 DEF j
-----------------------------------------------------------------------------
LEMMA MirrorKept ==
  ASSUME EvidenceInv, CourtInv, InsertRow \/ AddJob \/ MirrorVerdict
  PROVE  CourtInv'
<1>1. /\ UNCHANGED <<storageVars, viewer, scope, dialog, filed, ruling, faults>>
      /\ stored' = stored
  BY DEF InsertRow, AddJob, MirrorVerdict, storageVars
<1>2. CASE InsertRow
  <2>1. row = "NONE" /\ row' = "PENDING" /\ judge' = judge
    BY <1>2 DEF InsertRow
  <2>2. CourtTyped'
    BY <1>1, <2>1, CourtIs DEF CourtTyped, StreamTypeOK
  <2>3. AttemptOK'
    BY <1>1, <2>1, CourtIs DEF AttemptOK
  <2>4. VerdictOK'
    BY <1>1, <2>1, CourtIs DEF VerdictOK, Decided, Rulings
  <2>5. QED
    BY <2>2, <2>3, <2>4 DEF CourtInv
<1>2a. CASE AddJob
  <2>1. /\ row # "NONE" /\ row' = row /\ judge' = [judge EXCEPT !.step = "queued"]
        /\ "queued" \in JudgeStep
    BY <1>2a DEF AddJob, JudgeStep
  <2>2. judge' \in Job /\ judge'.step = "queued" /\ judge'.polls = judge.polls
    BY <2>1, CourtIs, JobAt
  <2>3. CourtTyped'
    BY <1>1, <2>1, <2>2, CourtIs DEF CourtTyped, StreamTypeOK
  <2>4. AttemptOK'
    BY <1>1, <2>1, <2>2, CourtIs DEF AttemptOK
  <2>5. VerdictOK'
    BY <1>1, <2>1, CourtIs DEF VerdictOK, Decided
  <2>6. QED
    BY <2>3, <2>4, <2>5 DEF CourtInv
<1>3. CASE MirrorVerdict
  <2>1. row = "PENDING" /\ row' = ruling /\ ruling \in Rulings /\ judge' = judge
    BY <1>3, CourtIs DEF MirrorVerdict, CourtTyped
  <2>2. CourtTyped'
    BY <1>1, <2>1, CourtIs DEF CourtTyped, StreamTypeOK
  <2>3. AttemptOK'
    BY <1>1, <2>1, CourtIs DEF AttemptOK, Rulings
  <2>4. VerdictOK'
    BY <1>1, <2>1, CourtIs DEF VerdictOK, Decided
  <2>5. QED
    BY <2>2, <2>3, <2>4 DEF CourtInv
<1>4. QED
  BY <1>2, <1>2a, <1>3

(* The attempt goes on.                                                    *)
LEMMA LoadKept ==
  ASSUME EvidenceInv, CourtInv, Load \/ Poll
  PROVE  CourtInv'
<1>1. /\ UNCHANGED <<scope, dialog, filed, row, ruling, viewer, storageVars>>
      /\ stored' = stored /\ faults' \in 0..MaxFaults
      /\ judge.step \in {"queued", "wait"} /\ judge \in Job
      /\ faults' = faults \/ Fault
  BY CourtIs, FaultCounted DEF Load, Poll, storageVars
<1>2. StreamTypeOK(Rulings)' /\ \A v \in Viewers : viewer'[v].shown \in {NoOutcome, ruling}
  BY <1>1, PublishKept
<1>3. CASE Reads
  BY <1>1, <1>2, <1>3, ReadsMake, Polls, JobMoves
<1>4. CASE Load /\ ~Reads
  <2>1. judge' = [judge EXCEPT !.step = "wait", !.timer = POLL, !.expected = dialog.cites]
    BY <1>4 DEF Load
  <2>2. dialog.cites \in 0..2
    BY DialogIs DEF EvidenceInv
  <2> DEFINE m == judge
             j == judge'
             x == dialog.cites
  <2>0. m \in Job
    BY <1>1
  <2>3. j = [m EXCEPT !.step = "wait", !.timer = POLL, !.expected = x]
    BY <2>1
  <2> HIDE DEF m, j, x
  <2>4. j = [step |-> "wait", attempt |-> m.attempt, expected |-> x, polls |-> m.polls,
             timer |-> POLL, decision |-> m.decision]
    BY <2>0, <2>3 DEF Job
  <2>5. "wait" \in JudgeStep /\ POLL \in 0..POLL /\ x \in 0..2
    BY <2>2, Polls DEF JudgeStep, x
  <2>6. j \in Job
    BY <2>0, <2>4, <2>5, JobMade, JobParts
  <2>7. j.step = "wait" /\ j.polls = m.polls /\ j.expected = x
    BY <2>4
  <2>8. /\ judge' \in Job /\ judge'.step = "wait" /\ judge'.polls = judge.polls
        /\ judge'.expected = dialog.cites
    BY <2>6, <2>7 DEF m, j, x
  <2>9. QED
    BY <1>1, <1>2, <2>8, CourtIs, JobMoves
<1>5. CASE Poll /\ ~Reads
  <2>1. judge' = [judge EXCEPT !.polls = @ + 1, !.timer = POLL]
    BY <1>5 DEF Poll
  <2>10. judge.polls + 1 # MaxPolls /\ judge.step = "wait"
    BY <1>5 DEF Poll
  <2> DEFINE m == judge
             j == judge'
             n == judge.polls + 1
  <2>0. m \in Job
    BY <1>1
  <2>2. j = [m EXCEPT !.polls = n, !.timer = POLL]
    BY <2>1
  <2>3. n \in 0..MaxPolls /\ n < MaxPolls /\ POLL \in 0..POLL
    BY <2>0, CourtIs, JobParts, Polls, <2>10
  <2> HIDE DEF m, j, n
  <2>4. j = [step |-> m.step, attempt |-> m.attempt, expected |-> m.expected, polls |-> n,
             timer |-> POLL, decision |-> m.decision]
    BY <2>0, <2>2 DEF Job
  <2>5. j \in Job
    BY <2>0, <2>3, <2>4, JobMade, JobParts
  <2>6. j.step = m.step /\ j.polls = n /\ j.expected = m.expected
    BY <2>4
  <2>7. judge.expected = dialog.cites
    BY <2>10, CourtIs DEF AttemptOK
  <2>8. /\ judge' \in Job /\ judge'.step = "wait" /\ judge'.polls < MaxPolls
        /\ judge'.expected = dialog.cites
    BY <2>10, <2>3, <2>5, <2>6, <2>7 DEF m, j
  <2>9. QED
    BY <1>1, <1>2, <2>8, JobMoves
<1>6. QED
  BY <1>3, <1>4, <1>5

LEMMA DecideKept ==
  ASSUME EvidenceInv, CourtInv, Decide \/ UploadTranscript
  PROVE  CourtInv'
<1>1. /\ UNCHANGED <<scope, dialog, filed, row, ruling, viewer, faults>>
      /\ judge.step # "none" /\ judge \in Job /\ faults' \in 0..MaxFaults
  BY CourtIs, FaultCounted DEF Decide, UploadTranscript
<1>2. StreamTypeOK(Rulings)' /\ \A v \in Viewers : viewer'[v].shown \in {NoOutcome, ruling}
  BY <1>1, PublishKept
<1>3. Transcript \in stored => Transcript \in stored'
  BY TranscriptKept DEF Decide, storageVars
<1>4. CASE Decide
  <2>1. PICK r \in Rulings : judge' = [judge EXCEPT !.step = "upload", !.decision = r]
    BY <1>4 DEF Decide
  <2>2. /\ judge' \in Job /\ judge'.step = "upload" /\ judge'.polls = judge.polls
        /\ judge'.decision \in Rulings
    BY <1>1, <2>1 DEF Job, JudgeStep
  <2>3. QED
    BY <1>1, <1>2, <1>3, <2>2, CourtIs, JobMoves
<1>5. CASE UploadTranscript /\ upload[Transcript] = "returned"
  <2>1. Transcript \in stored /\ Step("submit") /\ "submit" \in JudgeStep
        /\ judge.decision \in Rulings
    BY <1>5, Typed, CourtIs DEF UploadTranscript, BlobOK, JudgeStep, AttemptOK
  <2>2. /\ judge' \in Job /\ judge'.step = "submit" /\ judge'.polls = judge.polls
        /\ judge'.decision = judge.decision
    BY <1>1, <2>1, JobAt DEF Step
  <2>3. QED
    BY <1>1, <1>2, <1>3, <2>1, <2>2, CourtIs, JobMoves
<1>6. CASE UploadTranscript /\ upload[Transcript] # "returned"
  <2>1. judge' = judge
    BY <1>6 DEF UploadTranscript
  <2>2. QED
    BY <1>1, <1>2, <1>3, <2>1, CourtFrame, CourtIs DEF CourtTyped
<1>7. QED
  BY <1>4, <1>5, <1>6

LEMMA VerdictKept ==
  ASSUME EvidenceInv, CourtInv, SubmitVerdict
  PROVE  CourtInv'
<1>1. /\ UNCHANGED <<scope, dialog, filed, row, viewer, faults, storageVars>>
      /\ stored' = stored /\ ruling = NoOutcome /\ ruling' = judge.decision
      /\ judge.step = "submit" /\ judge \in Job /\ faults' \in 0..MaxFaults
      /\ judge' = [judge EXCEPT !.step = "update"] /\ "update" \in JudgeStep
  BY CourtIs, FaultCounted DEF SubmitVerdict, storageVars, JudgeStep, Step
<1>2. StreamTypeOK(Rulings)' /\ \A v \in Viewers : viewer'[v].shown \in {NoOutcome, ruling}
  BY <1>1, PublishKept
<1>3. judge.decision \in Rulings /\ Transcript \in stored
  BY <1>1, CourtIs DEF AttemptOK
<1>4. /\ judge' \in Job /\ judge'.step = "update" /\ judge'.polls = judge.polls
      /\ judge'.decision = judge.decision
  BY <1>1, JobAt
<1>5. QED
  BY <1>1, <1>2, <1>3, <1>4, CourtIs, JobMoves

LEMMA OutcomeKept ==
  ASSUME EvidenceInv, CourtInv, UpdateOutcome
  PROVE  CourtInv'
<1>1. /\ UNCHANGED <<scope, dialog, filed, ruling, viewer, faults, storageVars>>
      /\ stored' = stored /\ row' = judge.decision
      /\ judge.step = "update" /\ judge \in Job
      /\ judge' = [judge EXCEPT !.step = "tell"] /\ "tell" \in JudgeStep
  BY CourtIs DEF UpdateOutcome, storageVars, JudgeStep, Step
<1>2. judge.decision = ruling /\ ruling \in Rulings /\ Transcript \in stored
  BY <1>1, CourtIs DEF AttemptOK
<1>3. /\ judge' \in Job /\ judge'.step = "tell" /\ judge'.polls = judge.polls
      /\ judge'.decision = judge.decision
  BY <1>1, JobAt
<1>4. CourtTyped'
  BY <1>1, <1>2, <1>3, CourtIs DEF CourtTyped, StreamTypeOK
<1>5. AttemptOK'
  BY <1>1, <1>2, <1>3, CourtIs DEF AttemptOK, Rulings
<1>6. VerdictOK'
  BY <1>1, <1>2, CourtIs DEF VerdictOK, Decided
<1>7. QED
  BY <1>4, <1>5, <1>6 DEF CourtInv

LEMMA TellKept ==
  ASSUME EvidenceInv, CourtInv, Tell
  PROVE  CourtInv'
<1>1. /\ UNCHANGED <<scope, dialog, filed, row, ruling, faults, storageVars>>
      /\ stored' = stored /\ judge.step = "tell" /\ judge \in Job /\ faults' \in 0..MaxFaults
      /\ Anew("done") /\ "done" \in JudgeStep
  BY CourtIs, FaultCounted DEF Tell, storageVars, JudgeStep, Anew
<1>2. judge.decision = ruling /\ ruling \in Rulings
  BY <1>1, CourtIs DEF AttemptOK
<1>3. StreamTypeOK(Rulings)' /\ \A v \in Viewers : viewer'[v].shown \in {NoOutcome, ruling}
  BY <1>2, PublishKept DEF Tell
<1>4. judge' \in Job /\ judge'.step = "done" /\ judge'.polls = 0
  BY <1>1, JobAnew
<1>5. QED
  BY <1>1, <1>3, <1>4, Polls, JobMoves

(* An attempt is over, whatever ended it.                                  *)
LEMMA ThrownKept ==
  ASSUME EvidenceInv, CourtInv, TooLate \/ NoDecision \/ TranscriptLost \/ Throws
  PROVE  CourtInv'
<1>1. /\ UNCHANGED <<scope, dialog, filed, row>> /\ stored' = stored
      /\ judge \in Job /\ Anew("failing") /\ PublishError /\ "failing" \in JudgeStep
  BY CourtIs DEF TooLate, NoDecision, TranscriptLost, Throws, Thrown, Anew, JudgeStep
<1>2. judge.step # "none" /\ (faults' = faults \/ Fault)
  BY DEF TooLate, NoDecision, TranscriptLost, Throws, ProviderUnpicked
<1>3. \/ ruling' = ruling
      \/ ruling = NoOutcome /\ judge.step = "submit" /\ ruling' = judge.decision
  BY DEF TooLate, NoDecision, TranscriptLost, Throws
<1>4. \/ ruling' = ruling
      \/ ruling = NoOutcome /\ ruling' \in Rulings /\ Transcript \in stored
  BY <1>3, CourtIs DEF AttemptOK
<1>5. /\ StreamTypeOK(Rulings)' /\ \A v \in Viewers : viewer'[v].shown \in {NoOutcome, ruling}
      /\ faults' \in 0..MaxFaults
  BY <1>1, <1>2, PublishKept, FaultCounted
<1>6. judge' \in Job /\ judge'.step = "failing" /\ judge'.polls = 0
  BY <1>1, JobAnew
<1> HIDE DEF Thrown
<1>7. QED
  BY <1>1, <1>2, <1>4, <1>5, <1>6, Polls, JobMoves

LEMMA FailedKept ==
  ASSUME EvidenceInv, CourtInv, Failed
  PROVE  CourtInv'
<1>1. /\ UNCHANGED <<scope, dialog, filed, row, ruling, faults>> /\ stored' = stored
      /\ judge \in Job /\ judge.step = "failing"
      /\ PublishDone \/ viewer' = viewer
  BY CourtIs DEF Failed, storageVars
<1>2. /\ StreamTypeOK(Rulings)' /\ \A v \in Viewers : viewer'[v].shown \in {NoOutcome, ruling}
      /\ faults' \in 0..MaxFaults
  BY <1>1, PublishKept, FaultCounted
<1>3. CASE judge.attempt < ATTEMPTS
  <2> DEFINE m == judge
             j == judge'
             n == judge.attempt + 1
  <2>1. m \in Job /\ n \in 1..ATTEMPTS
    BY <1>1, <1>3, JobParts, CaseConstants
  <2>2. j = [m EXCEPT !.step = "queued", !.attempt = n]
    BY <1>3 DEF Failed
  <2> HIDE DEF m, j, n
  <2>3. j = [step |-> "queued", attempt |-> n, expected |-> m.expected, polls |-> m.polls,
             timer |-> m.timer, decision |-> m.decision]
    BY <2>1, <2>2 DEF Job
  <2>4. "queued" \in JudgeStep
    BY DEF JudgeStep
  <2>5. j \in Job /\ j.step = "queued" /\ j.polls = m.polls
    BY <2>1, <2>3, <2>4, JobMade, JobParts
  <2>6. judge' \in Job /\ judge'.step = "queued" /\ judge'.polls = judge.polls
    BY <2>5 DEF m, j
  <2>7. QED
    BY <1>1, <1>2, <2>6, CourtIs, JobMoves
<1>4. CASE ~(judge.attempt < ATTEMPTS)
  <2>1. judge' = [judge EXCEPT !.step = "failed"] /\ "failed" \in JudgeStep
    BY <1>4 DEF Failed, Step, JudgeStep
  <2>2. judge' \in Job /\ judge'.step = "failed" /\ judge'.polls = judge.polls
    BY <1>1, <2>1, JobAt
  <2>3. QED
    BY <1>1, <1>2, <2>2, CourtIs, JobMoves
<1>5. QED
  BY <1>3, <1>4

(* Time passes for a judge that waits.                                     *)
LEMMA CourtTickKept ==
  ASSUME EvidenceInv, CourtInv, Tick
  PROVE  CourtInv'
<1>1. /\ UNCHANGED <<scope, dialog, filed, row, ruling, faults, viewer>> /\ stored' = stored
      /\ judge \in Job
  BY CourtIs DEF Tick, storageVars
<1>2. /\ StreamTypeOK(Rulings)' /\ \A v \in Viewers : viewer'[v].shown \in {NoOutcome, ruling}
      /\ faults' \in 0..MaxFaults
  BY <1>1, PublishKept, FaultCounted
<1>3. CASE judge.step = "wait"
  <2> DEFINE m == judge
             j == judge'
             t == judge.timer - 1
  <2>1. judge.timer > 0
    BY <1>3 DEF Tick
  <2>2. m \in Job /\ t \in 0..POLL
    BY <1>1, <2>1, JobParts, Polls
  <2>3. j = [m EXCEPT !.timer = t]
    BY <1>3 DEF Tick
  <2> HIDE DEF m, j, t
  <2>4. j = [step |-> m.step, attempt |-> m.attempt, expected |-> m.expected,
             polls |-> m.polls, timer |-> t, decision |-> m.decision]
    BY <2>2, <2>3 DEF Job
  <2>5. j \in Job /\ j.step = m.step /\ j.polls = m.polls /\ j.expected = m.expected
    BY <2>2, <2>4, JobMade, JobParts
  <2>6. /\ judge' \in Job /\ judge'.step = "wait" /\ judge'.polls = judge.polls
        /\ judge'.expected = judge.expected
    BY <1>3, <2>5 DEF m, j
  <2>7. QED
    BY <1>1, <1>2, <1>3, <2>6, CourtIs, JobMoves DEF AttemptOK
<1>4. CASE judge.step # "wait"
  <2>1. judge' = judge
    BY <1>4 DEF Tick
  <2>2. QED
    BY <1>1, <1>2, <2>1, CourtFrame, CourtIs DEF CourtTyped
<1>5. QED
  BY <1>3, <1>4

LEMMA CourtRestartKept ==
  ASSUME EvidenceInv, CourtInv, Restart
  PROVE  CourtInv'
<1>1. /\ UNCHANGED <<scope, dialog, filed, row, ruling>>
      /\ judge \in Job /\ "queued" \in JudgeStep /\ PublishError /\ Fault
  BY CourtIs DEF Restart, LoseStreams, JudgeStep
<1>2. /\ StreamTypeOK(Rulings)' /\ \A v \in Viewers : viewer'[v].shown \in {NoOutcome, ruling}
      /\ faults' \in 0..MaxFaults
  BY <1>1, PublishKept, FaultCounted
<1>3. Transcript \in stored => Transcript \in stored'
  BY CaseConstants DEF Restart, Fetching
<1>4. CASE Running
  <2>1. Anew("queued")
    BY <1>4 DEF Restart, Anew
  <2>2. judge.step # "none"
    BY <1>4 DEF Running
  <2>3. judge' \in Job /\ judge'.step = "queued" /\ judge'.polls = 0
    BY <1>1, <2>1, JobAnew
  <2>4. QED
    BY <1>1, <1>2, <1>3, <2>2, <2>3, Polls, JobMoves
<1>5. CASE ~Running
  <2>1. judge' = judge
    BY <1>5 DEF Restart
  <2>2. QED
    BY <1>1, <1>2, <1>3, <2>1, CourtFrame, CourtIs DEF CourtTyped
<1>6. QED
  BY <1>4, <1>5

(* A page is opened, replayed, opened again or left.                       *)
LEMMA PageKept ==
  ASSUME CourtInv, NEW v \in Viewers,
         OpenPage(v) \/ Replay(v) \/ ReopenStream(v) \/ LeavePage(v)
  PROVE  /\ StreamTypeOK(Rulings)'
         /\ \A u \in Viewers : viewer'[u].shown \in {NoOutcome, ruling}
<1> DEFINE Fine(w) == /\ w \in [at : ViewerStep, shown : Rulings \cup {NoOutcome}]
                      /\ w.shown \in {NoOutcome, ruling}
<1>1. /\ viewer \in [Viewers -> [at : ViewerStep, shown : Rulings \cup {NoOutcome}]]
      /\ \A u \in Viewers : viewer[u].shown \in {NoOutcome, ruling}
  BY DEF CourtInv, CourtTyped, VerdictOK, StreamTypeOK
<1>2. \A u \in Viewers : Fine(viewer[u])
  BY <1>1
<1>3. /\ Fine([viewer[v] EXCEPT !.at = "subscribed"])
      /\ Fine([viewer[v] EXCEPT !.at = "live"])
      /\ Fine([viewer[v] EXCEPT !.at = "lost"])
      /\ Fine([viewer[v] EXCEPT !.at = "refused"])
      /\ Fine([at |-> "away", shown |-> NoOutcome])
  BY <1>1 DEF ViewerStep
<1>4. Decided => Fine([at |-> "closed", shown |-> row])
  BY DEF ViewerStep, Decided, CourtInv, VerdictOK
<1> HIDE DEF Fine
<1>5. ASSUME NEW w, Fine(w), viewer' = [viewer EXCEPT ![v] = w]
      PROVE  /\ StreamTypeOK(Rulings)'
             /\ \A u \in Viewers : viewer'[u].shown \in {NoOutcome, ruling}
  <2>1. \A u \in Viewers : Fine(viewer'[u])
    BY <1>1, <1>2, <1>5
  <2>2. viewer' = [u \in Viewers |-> viewer'[u]]
    BY <1>1, <1>5
  <2>3. QED
    BY <2>1, <2>2 DEF Fine, StreamTypeOK
<1>6. CASE OpenPage(v) \/ ReopenStream(v)
  <2>1. viewer' = [viewer EXCEPT ![v] = [viewer[v] EXCEPT !.at = "subscribed"]]
    BY <1>1, <1>6 DEF OpenPage, ReopenStream, Open, Reconnect
  <2>2. QED
    BY <1>3, <1>5, <2>1
<1>7. CASE Replay(v) /\ Outcome = NoOutcome
  <2>1. viewer' = [viewer EXCEPT ![v] = [viewer[v] EXCEPT !.at = "live"]]
    BY <1>1, <1>7 DEF Replay, ReadRow
  <2>2. QED
    BY <1>3, <1>5, <2>1
<1>8. CASE Replay(v) /\ Outcome # NoOutcome
  <2>1. Decided /\ Outcome = row
    BY <1>8 DEF Outcome
  <2>2. viewer' = [viewer EXCEPT ![v] = [at |-> "closed", shown |-> row]]
    BY <1>8, <2>1 DEF Replay, ReadRow
  <2>3. QED
    BY <1>4, <1>5, <2>1, <2>2
<1>9. CASE LeavePage(v) /\ DropConnection(v)
  <2>1. viewer' = [viewer EXCEPT ![v] = [viewer[v] EXCEPT !.at = "lost"]]
    BY <1>1, <1>9 DEF DropConnection
  <2>2. QED
    BY <1>3, <1>5, <2>1
<1>10. CASE LeavePage(v) /\ Refuse(v)
  <2>1. viewer' = [viewer EXCEPT ![v] = [viewer[v] EXCEPT !.at = "refused"]]
    BY <1>1, <1>10 DEF Refuse
  <2>2. QED
    BY <1>3, <1>5, <2>1
<1>11. CASE LeavePage(v) /\ Leave(v)
  BY <1>3, <1>5, <1>11 DEF Leave
<1>12. QED
  BY <1>6, <1>7, <1>8, <1>9, <1>10, <1>11 DEF LeavePage

LEMMA CourtKept == ASSUME EvidenceInv, CourtInv, Next PROVE CourtInv'
<1>1. ASSUME viewer' = viewer,
             UNCHANGED <<scope, dialog, row, ruling, judge>>, filed' \in BOOLEAN,
             faults' = faults \/ Fault
      PROVE  CourtInv'
  BY <1>1, PublishKept, FaultCounted, TranscriptStays, CourtFrame
<1>2. filed \in BOOLEAN
  BY CourtIs DEF CourtTyped
<1>3. ASSUME NEW p \in Pieces,
             \/ UploadFile(p) \/ RegisterFile(p) \/ SnapshotFile(p)
             \/ AttachAnswered(p) \/ AttachAgain(p)
      PROVE  CourtInv'
  <2>1. UNCHANGED <<viewer, caseVars>>
    BY <1>3 DEF UploadFile, RegisterFile, SnapshotFile, AttachAnswered, AttachAgain
  <2>2. QED
    BY <1>1, <1>2, <2>1 DEF caseVars
<1>4. ASSUME NEW p \in Pieces,
             FileUploadThrows(p) \/ SnapshotFails(p) \/ BrowserFails(p)
      PROVE  CourtInv'
  <2>1. Fault /\ UNCHANGED <<viewer, scope, dialog, filed, ruling, row, judge>>
    BY <1>4 DEF FileUploadThrows, SnapshotFails, BrowserFails
  <2>2. QED
    BY <1>1, <1>2, <2>1
<1>5. CASE \/ SendCase \/ SendAnswer \/ HearReceipt(dialog.files)
           \/ HearReceipt(dialog.answers) \/ AskModel \/ CallsProceed
           \/ (\E c \in Calls : OtherCall(c))
  <2>1. UNCHANGED <<viewer, caseVars>>
    BY <1>5 DEF SendCase, SendAnswer, HearReceipt, AskModel, CallsProceed, OtherCall, others
  <2>2. QED
    BY <1>1, <1>2, <2>1 DEF caseVars
<1>6. CASE CaseMined
  BY <1>1, <1>6 DEF CaseMined
<1>7. CASE CallThrows \/ TranscriptUploadThrows
  <2>1. Fault /\ UNCHANGED <<viewer, scope, dialog, filed, ruling, row, judge>>
    BY <1>7 DEF CallThrows, TranscriptUploadThrows
  <2>2. QED
    BY <1>1, <1>2, <2>1
<1>8. ASSUME NEW v \in Viewers, OpenPage(v) \/ Replay(v) \/ ReopenStream(v) \/ LeavePage(v)
      PROVE  CourtInv'
  <2>1. /\ UNCHANGED <<scope, dialog, filed, row, ruling, judge>> /\ stored' = stored
        /\ faults' = faults \/ Fault
    BY <1>8 DEF OpenPage, Replay, ReopenStream, LeavePage, parts, caseVars, storageVars
  <2>2. QED
    BY <1>2, <1>8, <2>1, PageKept, FaultCounted, CourtFrame
<1>9. QED
  BY <1>3, <1>4, <1>5, <1>6, <1>7, <1>8, MirrorKept, LoadKept, DecideKept, VerdictKept,
     OutcomeKept, TellKept, ThrownKept, FailedKept, CourtTickKept, CourtRestartKept
     DEF Next, JudgeNext

(* Stuttering, and the opening of records, which is about no case.         *)
LEMMA CaseFrame ==
  ASSUME EvidenceInv, CourtInv, [SiteNext]_siteVars, ~HavingACase
  PROVE  EvidenceInv' /\ CourtInv'
<1>1. /\ UNCHANGED <<storageVars, evidenceVars, viewer,
                     scope, dialog, filed, ruling, row, judge>>
      /\ faults' = faults \/ Fault
  BY DEF SiteNext, OpeningRecords, siteVars, vars
<1>2. EvidenceInv'
  BY <1>1, UploadKept, Typed, StorageStep DEF EvidenceInv
<1>3. stored' = stored /\ filed \in BOOLEAN
  BY <1>1, CourtIs DEF storageVars, CourtTyped
<1>4. CourtInv'
  BY <1>1, <1>3, PublishKept, FaultCounted, CourtFrame
<1>5. QED
  BY <1>2, <1>4

LEMMA CaseAlways == SiteSpec => [](EvidenceInv /\ CourtInv)
<1>1. SiteInit => EvidenceInv /\ CourtInv
  BY EvidenceStart, CourtStart DEF SiteInit
<1>2. EvidenceInv /\ CourtInv /\ [SiteNext]_siteVars => (EvidenceInv /\ CourtInv)'
  <2> SUFFICES ASSUME EvidenceInv, CourtInv, [SiteNext]_siteVars
               PROVE  EvidenceInv' /\ CourtInv'
    OBVIOUS
  <2>1. CASE HavingACase
    BY <2>1, EvidenceKept, CourtKept DEF HavingACase
  <2>2. QED
    BY <2>1, CaseFrame
<1>3. QED
  BY <1>1, <1>2, PTL DEF SiteSpec

(* The files that a dialog uploaded for its assertion, and a verdict's     *)
(* transcript, can be fetched; the row and every page show the verdict on  *)
(* chain or none; an attempt that got past its transaction decided as the  *)
(* chain has it; and the judge has no job without a row (Case!CaseInv).    *)
THEOREM CaseSound == SiteSpec => []CaseInv
<1>1. CallsInv /\ EvidenceInv /\ CourtInv => CaseInv
  <2> SUFFICES ASSUME CallsInv, EvidenceInv, CourtInv PROVE CaseInv
    OBVIOUS
  <2>1. StorageTypeOK /\ EvidenceTypeOK /\ dialog \in Dialogs
    BY DEF EvidenceInv, StorageInv
  <2>2. TypeOK
    BY <2>1 DEF TypeOK, CallsInv, CourtInv, CourtTyped
  <2>3. filed => dialog.files \subseteq stored
    BY DialogIs DEF EvidenceInv, PieceOK
  <2>4. QED
    BY <2>2, <2>3 DEF CaseInv, CourtInv, AttemptOK, VerdictOK
<1>2. QED
  BY <1>1, CallsAlways, CaseAlways, PTL
-----------------------------------------------------------------------------
(* A browser that was refused because the indexer was behind, and how long *)
(* it may be until it asks again and is answered; and how long the judge   *)
(* has waited.                                                             *)
Behind(p) ==
  \/ client[p].at = "sleeping"
  \/ client[p].at = "calling" /\ client[p].attempt > 1

Remaining(p) == client[p].timer + IF client[p].at = "sleeping" THEN Latency ELSE 0
Elapsed == POLL * judge.polls + (POLL - judge.timer)
LongestLag == Pause(maxAttempts - 1) + Latency

(* Nobody is refused once the judge waits, so that whoever is still behind *)
(* has been so since before: the longest lag less what the judge waited    *)
(* bounds what is left of it.                                              *)
WaitInv ==
  /\ row # "NONE" => filed
  /\ judge.step \in {"none", "queued", "failing"} => judge.polls = 0
  /\ judge.step = "wait" =>
       \A p \in Pieces : Behind(p) => Remaining(p) + Elapsed <= LongestLag

(* What a file may do but for the passing of time, once there is a row.    *)
Moves(p) ==
  \/ client'[p] = client[p]
  \/ client'[p].at \notin {"calling", "sleeping"}
  \/ client'[p] = Asking(1)
  \/ /\ client[p].at = "sleeping" /\ client[p].timer = 0
     /\ client'[p] = Asking(client[p].attempt + 1)

LEMMA Lags ==
  ASSUME EvidenceInv, NEW p \in Pieces
  PROVE  /\ client[p].timer \in Nat /\ client[p].attempt \in 1..5
         /\ LongestLag = 8 + Latency
         /\ Behind(p) => Remaining(p) \in Nat /\ Remaining(p) <= LongestLag
<1>1. /\ client[p].timer \in Nat /\ client[p].attempt \in 1..5 /\ PieceOK(p)
  BY Typed DEF PieceTyped, maxAttempts
<1>2. LongestLag = 8 + Latency
  BY DEF LongestLag, Pause, maxAttempts, SECOND
<1>3. CASE client[p].at = "sleeping"
  <2>1. client[p].timer <= 2 * client[p].attempt /\ client[p].attempt < 5
    BY <1>1, <1>3 DEF PieceOK, Pause, maxAttempts, SECOND
  <2>2. client[p].timer <= 8
    BY <1>1, <2>1
  <2>3. QED
    BY <1>1, <1>2, <1>3, <2>2, Delays DEF Remaining
<1>4. CASE client[p].at = "calling"
  <2>1. client[p].timer <= Latency
    BY <1>1, <1>4 DEF PieceOK
  <2>2. QED
    BY <1>1, <1>2, <1>4, <2>1, Delays DEF Remaining
<1>5. QED
  BY <1>1, <1>2, <1>3, <1>4 DEF Behind

LEMMA MovesOn ==
  ASSUME EvidenceInv, NEW p \in Pieces, Moves(p), Behind(p)'
  PROVE  Behind(p) /\ Remaining(p)' <= Remaining(p)
<1>1. client[p].timer \in Nat /\ client[p].attempt \in 1..5
  BY Lags
<1>2. CASE client'[p] = client[p]
  BY <1>1, <1>2, Delays DEF Behind, Remaining
<1>3. CASE client'[p].at \notin {"calling", "sleeping"}
  BY <1>3 DEF Behind
<1>4. CASE client'[p] = Asking(1)
  BY <1>4 DEF Behind, Asking
<1>5. CASE /\ client[p].at = "sleeping" /\ client[p].timer = 0
           /\ client'[p] = Asking(client[p].attempt + 1)
  <2>1. client'[p].at = "calling" /\ client'[p].timer = Latency
    BY <1>5 DEF Asking
  <2>2. QED
    BY <1>1, <1>5, <2>1, Delays DEF Behind, Remaining
<1>6. QED
  BY <1>2, <1>3, <1>4, <1>5 DEF Moves

LEMMA FilesMove ==
  ASSUME EvidenceInv, row # "NONE", Next, ~Tick, NEW q \in Pieces
  PROVE  Moves(q)
<1>1. client = [p \in Pieces |-> client[p]]
  BY Typed DEF EvidenceInv, EvidenceTypeOK
<1>2. ASSUME NEW p \in Pieces, NEW c, client' = [client EXCEPT ![p] = c],
             \/ c.at \notin {"calling", "sleeping"}
             \/ /\ client[p].at = "sleeping" /\ client[p].timer = 0
                /\ c = Asking(client[p].attempt + 1)
      PROVE  Moves(q)
  <2>1. client'[q] = IF q = p THEN c ELSE client[q]
    BY <1>1, <1>2
  <2>2. QED
    BY <1>2, <2>1 DEF Moves
<1>3. ASSUME NEW p \in Pieces, NEW at \in {"choosing", "fetching", "ready"},
             client' = [client EXCEPT ![p].at = at]
      PROVE  Moves(q)
  <2> DEFINE c == [client[p] EXCEPT !.at = at]
  <2>1. PieceTyped(p) /\ client' = [client EXCEPT ![p] = c]
    BY <1>1, <1>3, Typed
  <2>2. c.at \notin {"calling", "sleeping"}
    BY <1>3, <2>1 DEF PieceTyped
  <2> HIDE DEF c
  <2>3. QED
    BY <1>2, <2>1, <2>2
<1>4. ASSUME NEW p \in Pieces,
             \/ UploadFile(p) \/ FileUploadThrows(p) \/ RegisterFile(p)
             \/ SnapshotFile(p) \/ SnapshotFails(p)
      PROVE  Moves(q)
  <2>1. \/ client' = client
        \/ \E at \in {"choosing", "fetching", "ready"} : client' = [client EXCEPT ![p].at = at]
    BY <1>4 DEF UploadFile, FileUploadThrows, RegisterFile, Register, SnapshotFile,
                SnapshotFails, FetchFlight, OracleRefuses, UploadSnapshot, RegisterSnapshot,
                SnapshotLost, evidenceVars
  <2>2. QED
    BY <1>3, <1>4, <2>1 DEF Moves
<1>5. ASSUME NEW p \in Pieces, AttachAnswered(p)
      PROVE  Moves(q)
  <2> DEFINE c == [client[p] EXCEPT !.at = "attached", !.timer = 0]
  <2>1. PieceTyped(p) /\ client' = [client EXCEPT ![p] = c]
    BY <1>1, <1>5, Typed DEF AttachAnswered, Answer
  <2>2. c.at \notin {"calling", "sleeping"}
    BY <2>1 DEF PieceTyped
  <2> HIDE DEF c
  <2>3. QED
    BY <1>2, <1>5, <2>1, <2>2
<1>6. ASSUME NEW p \in Pieces, AttachAgain(p)
      PROVE  Moves(q)
  <2> DEFINE c == Asking(client[p].attempt + 1)
  <2>1. /\ client' = [client EXCEPT ![p] = c]
        /\ client[p].at = "sleeping" /\ client[p].timer = 0
    BY <1>1, <1>6 DEF AttachAgain, Wake
  <2> HIDE DEF c
  <2>2. QED
    BY <1>2, <1>6, <2>1 DEF c
<1>7. ASSUME NEW p \in Pieces, BrowserFails(p), CallFails(p)
      PROVE  Moves(q)
  <2> DEFINE c == [client[p] EXCEPT !.at = "gaveUp", !.timer = 0]
  <2>1. PieceTyped(p) /\ client' = [client EXCEPT ![p] = c]
    BY <1>1, <1>7, Typed DEF CallFails
  <2>2. c.at \notin {"calling", "sleeping"}
    BY <2>1 DEF PieceTyped
  <2> HIDE DEF c
  <2>3. QED
    BY <1>2, <1>7, <2>1, <2>2
<1>8. CASE CloseTab
  <2> DEFINE c == [client[q] EXCEPT !.at = "closed", !.timer = 0]
  <2>1. PieceTyped(q) /\ (client'[q] = c \/ client'[q] = client[q])
    BY <1>8, Typed DEF CloseTab
  <2>2. c.at = "closed"
    BY <2>1 DEF PieceTyped
  <2> HIDE DEF c
  <2>3. QED
    BY <2>1, <2>2 DEF Moves
<1>9. ASSUME NEW ps, Send(ps)
      PROVE  Moves(q)
  <2> DEFINE c == [client[q] EXCEPT !.at = "mining"]
  <2>1. PieceTyped(q) /\ (client'[q] = c \/ client'[q] = client[q])
    BY <1>9, Typed DEF Send
  <2>2. c.at = "mining"
    BY <2>1 DEF PieceTyped
  <2> HIDE DEF c
  <2>3. QED
    BY <2>1, <2>2 DEF Moves
<1>10. ASSUME NEW ps, Receipt(ps)
      PROVE  Moves(q)
  BY <1>10 DEF Receipt, Moves
<1>11. CASE Restart
  <2> DEFINE c == [client[q] EXCEPT !.at = "gaveUp", !.timer = 0]
  <2>1. PieceTyped(q) /\ client'[q] \in {c, Idle, client[q]}
    BY <1>11, Typed DEF Restart, LoseRequests
  <2>2. c.at = "gaveUp" /\ Idle.at = "choosing"
    BY <2>1 DEF PieceTyped, Idle
  <2> HIDE DEF c
  <2>3. QED
    BY <2>1, <2>2 DEF Moves
<1>12. ASSUME \/ CaseMined \/ InsertRow \/ AddJob \/ MirrorVerdict \/ JudgeNext
              \/ TranscriptUploadThrows \/ Throws
              \/ CallsProceed \/ CallThrows \/ (\E c \in Calls : OtherCall(c))
       PROVE  client' = client
  BY <1>12 DEF CaseMined, InsertRow, AddJob, MirrorVerdict, JudgeNext, Load, Poll, AskModel, Decide,
               UploadTranscript, SubmitVerdict, UpdateOutcome, Tell, TooLate, NoDecision,
               TranscriptLost, Failed, TranscriptUploadThrows, Throws, Thrown, CallsProceed,
               CallThrows, OtherCall, others, evidenceVars
<1>13. ASSUME NEW v \in Viewers, OpenPage(v) \/ Replay(v) \/ ReopenStream(v) \/ LeavePage(v)
       PROVE  client' = client
  BY <1>13 DEF OpenPage, Replay, ReopenStream, LeavePage, parts, evidenceVars
<1>14. CASE client' = client
  BY <1>14 DEF Moves
<1>15. QED
  BY <1>4, <1>5, <1>6, <1>7, <1>8, <1>9, <1>10, <1>11, <1>12, <1>13, <1>14
     DEF Next, BrowserFails, SendCase, SendAnswer, HearReceipt

(* How the job moves: not at all, to another step, on in its wait, or out  *)
(* of it.                                                                  *)
LEMMA JudgeMoves ==
  ASSUME CourtInv, Next, ~Tick
  PROVE  \/ judge' = judge
         \/ AddJob \/ Load \/ Poll
         \/ judge'.step \in {"upload", "submit", "update", "tell", "done", "failed"}
         \/ judge'.step \in {"queued", "failing"} /\ judge.step # "none"
              /\ (judge'.polls = 0 \/ (judge.step = "failing" /\ judge'.polls = judge.polls))
<1> judge \in Job
  BY CourtIs
<1>1. ASSUME \/ \E p \in Pieces :
                   \/ UploadFile(p) \/ FileUploadThrows(p) \/ RegisterFile(p)
                   \/ SnapshotFile(p) \/ SnapshotFails(p)
                   \/ AttachAnswered(p) \/ AttachAgain(p) \/ BrowserFails(p)
             \/ SendCase \/ SendAnswer \/ CaseMined
             \/ HearReceipt(dialog.files) \/ HearReceipt(dialog.answers)
             \/ InsertRow \/ MirrorVerdict \/ AskModel \/ TranscriptUploadThrows
             \/ CallsProceed \/ CallThrows \/ (\E c \in Calls : OtherCall(c))
             \/ (\E v \in Viewers : OpenPage(v) \/ Replay(v) \/ ReopenStream(v) \/ LeavePage(v))
      PROVE  judge' = judge
  BY <1>1 DEF UploadFile, FileUploadThrows, RegisterFile, SnapshotFile, SnapshotFails,
              AttachAnswered, AttachAgain, BrowserFails, SendCase, SendAnswer, CaseMined,
              HearReceipt, InsertRow, MirrorVerdict, AskModel, TranscriptUploadThrows,
              CallsProceed, CallThrows, OtherCall, others, OpenPage, Replay, ReopenStream,
              LeavePage, caseVars
<1>2. ASSUME NEW s \in JudgeStep, Step(s) PROVE judge'.step = s /\ judge'.polls = judge.polls
  BY <1>2, JobAt DEF Step
<1>3. ASSUME NEW s \in JudgeStep, Anew(s) PROVE judge'.step = s /\ judge'.polls = 0
  BY <1>3, JobAnew
<1>4. {"queued", "upload", "submit", "update", "tell", "done", "failed", "failing"}
        \subseteq JudgeStep
  BY DEF JudgeStep
<1>5. CASE Decide
  <2>1. PICK r \in Rulings : judge' = [judge EXCEPT !.step = "upload", !.decision = r]
    BY <1>5 DEF Decide
  <2>2. judge'.step = "upload"
    BY <2>1 DEF Job
  <2>3. QED
    BY <2>2
<1>6. CASE UploadTranscript
  BY <1>2, <1>4, <1>6 DEF UploadTranscript
<1>7. CASE SubmitVerdict \/ UpdateOutcome
  BY <1>2, <1>4, <1>7 DEF SubmitVerdict, UpdateOutcome
<1>8. CASE Tell
  <2>1. Anew("done")
    BY <1>8 DEF Tell, Anew
  <2>2. QED
    BY <1>3, <1>4, <2>1
<1>9. CASE TooLate \/ NoDecision \/ TranscriptLost \/ Throws
  <2>1. Anew("failing") /\ judge.step # "none"
    BY <1>9 DEF TooLate, NoDecision, TranscriptLost, Throws, Thrown, Anew, ProviderUnpicked
  <2>2. QED
    BY <1>3, <1>4, <2>1
<1>10. CASE Failed
  <2>1. judge.step = "failing"
    BY <1>10 DEF Failed
  <2>2. CASE judge.attempt < ATTEMPTS
    <3> DEFINE m == judge
               j == judge'
               n == judge.attempt + 1
    <3>1. m \in Job
      OBVIOUS
    <3>2. j = [m EXCEPT !.step = "queued", !.attempt = n]
      BY <1>10, <2>2 DEF Failed
    <3> HIDE DEF m, j, n
    <3>3. j.step = "queued" /\ j.polls = m.polls
      BY <3>1, <3>2 DEF Job
    <3>4. judge'.step = "queued" /\ judge'.polls = judge.polls
      BY <3>3 DEF m, j
    <3>5. QED
      BY <2>1, <3>4
  <2>3. CASE ~(judge.attempt < ATTEMPTS)
    BY <1>2, <1>4, <1>10, <2>3 DEF Failed
  <2>4. QED
    BY <2>2, <2>3
<1>11. CASE Restart
  <2>1. CASE Running
    <3>1. Anew("queued") /\ judge.step # "none"
      BY <1>11, <2>1 DEF Restart, Anew, Running
    <3>2. QED
      BY <1>3, <1>4, <3>1
  <2>2. CASE ~Running
    BY <1>11, <2>2 DEF Restart
  <2>3. QED
    BY <2>1, <2>2
<1>12. QED
  BY <1>1, <1>5, <1>6, <1>7, <1>8, <1>9, <1>10, <1>11 DEF Next, JudgeNext

LEMMA FiledStays ==
  ASSUME CourtInv, WaitInv, Next, row' # "NONE"
  PROVE  filed'
<1>1. ASSUME \/ \E p \in Pieces :
                   \/ UploadFile(p) \/ FileUploadThrows(p) \/ RegisterFile(p)
                   \/ SnapshotFile(p) \/ SnapshotFails(p)
                   \/ AttachAnswered(p) \/ AttachAgain(p) \/ BrowserFails(p)
             \/ SendCase \/ SendAnswer
             \/ HearReceipt(dialog.files) \/ HearReceipt(dialog.answers)
             \/ AskModel \/ TranscriptUploadThrows
             \/ CallsProceed \/ CallThrows \/ (\E c \in Calls : OtherCall(c))
             \/ (\E v \in Viewers : OpenPage(v) \/ Replay(v) \/ ReopenStream(v) \/ LeavePage(v))
      PROVE  UNCHANGED <<filed, row>>
  BY <1>1 DEF UploadFile, FileUploadThrows, RegisterFile, SnapshotFile, SnapshotFails,
              AttachAnswered, AttachAgain, BrowserFails, SendCase, SendAnswer,
              HearReceipt, AskModel, TranscriptUploadThrows, CallsProceed,
              CallThrows, OtherCall, others, OpenPage, Replay, ReopenStream, LeavePage, caseVars
<1>2. ASSUME \/ Load \/ Poll \/ Decide \/ UploadTranscript \/ SubmitVerdict \/ Tell \/ TooLate
             \/ NoDecision \/ TranscriptLost \/ Throws \/ Failed \/ Tick \/ Restart
      PROVE  UNCHANGED <<filed, row>>
  BY <1>2 DEF Load, Poll, Decide, UploadTranscript, SubmitVerdict, Tell, TooLate, NoDecision,
              TranscriptLost, Throws, Thrown, Failed, Tick, Restart
<1>3. CASE UNCHANGED <<filed, row>>
  BY <1>3 DEF WaitInv
<1>4. CASE CaseMined
  BY <1>4 DEF CaseMined
<1>5. CASE InsertRow \/ AddJob \/ MirrorVerdict
  BY <1>5 DEF InsertRow, AddJob, MirrorVerdict, WaitInv
<1>6. CASE UpdateOutcome
  BY <1>6, CourtIs DEF UpdateOutcome, WaitInv
<1>7. QED
  BY <1>1, <1>2, <1>3, <1>4, <1>5, <1>6 DEF Next, JudgeNext

(* A wait that begins, or goes on after a look at the rows.                *)
LEMMA WaitPolls ==
  ASSUME EvidenceInv, CourtInv, WaitInv, Load \/ Poll
  PROVE  WaitInv'
<1>1. /\ UNCHANGED <<filed, row, client>> /\ judge \in Job
      /\ judge.polls \in 0..10 /\ judge.timer \in 0..3
  BY CourtIs, JobParts, Polls DEF Load, Poll, evidenceVars
<1>2. ASSUME NEW p \in Pieces PROVE Behind(p)' = Behind(p) /\ Remaining(p)' = Remaining(p)
  BY <1>1 DEF Behind, Remaining
<1>3. row' # "NONE" => filed'
  BY <1>1 DEF WaitInv
<1>4. CASE Reads
  BY <1>1, <1>3, <1>4, ReadsMake DEF WaitInv
<1> DEFINE m == judge
           j == judge'
<1>5. CASE Load /\ ~Reads
  <2> DEFINE x == dialog.cites
  <2>1. m \in Job /\ m.polls = 0
    BY <1>1, <1>5 DEF Load, WaitInv
  <2>2. j = [m EXCEPT !.step = "wait", !.timer = POLL, !.expected = x]
    BY <1>5 DEF Load
  <2> HIDE DEF m, j, x
  <2>3. j.step = "wait" /\ j.polls = 0 /\ j.timer = POLL
    BY <2>1, <2>2 DEF Job
  <2>4. judge'.step = "wait" /\ Elapsed' = 0
    BY <2>3, Polls DEF Elapsed, j
  <2>5. ASSUME NEW p \in Pieces, Behind(p)' PROVE Remaining(p)' + Elapsed' <= LongestLag
    BY <1>2, <2>4, <2>5, Lags, Delays
  <2>6. QED
    BY <1>3, <2>4, <2>5 DEF WaitInv, LongestLag
<1>6. CASE Poll /\ ~Reads
  <2> DEFINE n == judge.polls + 1
  <2>1. m \in Job /\ m.step = "wait" /\ judge.timer = 0
    BY <1>1, <1>6 DEF Poll
  <2>2. j = [m EXCEPT !.polls = n, !.timer = POLL]
    BY <1>6 DEF Poll
  <2> HIDE DEF m, j, n
  <2>3. j.step = "wait" /\ j.polls = n /\ j.timer = POLL
    BY <2>1, <2>2 DEF Job
  <2>4. judge'.step = "wait" /\ judge'.polls = judge.polls + 1 /\ judge'.timer = 3
    BY <2>3, Polls DEF j, n
  <2>5. Elapsed' = Elapsed
    BY <1>1, <2>1, <2>4, Polls DEF Elapsed
  <2>6. judge.step = "wait"
    BY <2>1 DEF m
  <2>7. ASSUME NEW p \in Pieces, Behind(p)' PROVE Remaining(p)' + Elapsed' <= LongestLag
    BY <1>2, <2>5, <2>6, <2>7 DEF WaitInv
  <2>8. QED
    BY <1>3, <2>4, <2>7 DEF WaitInv, LongestLag
<1>7. QED
  BY <1>4, <1>5, <1>6

LEMMA WaitTicks ==
  ASSUME EvidenceInv, CourtInv, WaitInv, Tick
  PROVE  WaitInv'
<1>1. /\ UNCHANGED <<filed, row>> /\ judge \in Job
      /\ judge.polls \in 0..10 /\ judge.timer \in 0..3
  BY CourtIs, JobParts, Polls DEF Tick
<1>2. row' # "NONE" => filed'
  BY <1>1 DEF WaitInv
<1>3. CASE judge.step # "wait"
  <2>1. judge' = judge
    BY <1>3 DEF Tick
  <2>2. QED
    BY <1>2, <1>3, <2>1 DEF WaitInv
<1>4. CASE judge.step = "wait"
  <2> DEFINE m == judge
             j == judge'
             t == judge.timer - 1
  <2>1. m \in Job /\ j = [m EXCEPT !.timer = t] /\ m.step = "wait"
    BY <1>1, <1>4 DEF Tick
  <2> HIDE DEF m, j, t
  <2>2. j.step = "wait" /\ j.polls = m.polls /\ j.timer = t
    BY <2>1 DEF Job
  <2>3. judge'.step = "wait" /\ judge'.polls = judge.polls /\ judge'.timer = judge.timer - 1
    BY <2>2 DEF m, j, t
  <2>4. Elapsed' = Elapsed + 1 /\ Elapsed \in Int
    BY <1>1, <2>3, Polls DEF Elapsed
  <2>5. ASSUME NEW p \in Pieces, Behind(p)' PROVE Remaining(p)' + Elapsed' <= LongestLag
    <3>1. /\ ~Due(p) /\ PieceTyped(p)
          /\ client'[p] = IF Timed(p) THEN [client[p] EXCEPT !.timer = @ - 1] ELSE client[p]
      BY Typed DEF Tick, TickClients
    <3>2. client'[p].at = client[p].at /\ client'[p].attempt = client[p].attempt
      BY <3>1 DEF PieceTyped
    <3>3. Behind(p) /\ Timed(p)
      BY <2>5, <3>2 DEF Behind, Timed
    <3>4. client[p].timer \in Nat /\ client'[p].timer = client[p].timer - 1
      BY <3>1, <3>3 DEF PieceTyped
    <3>5. Remaining(p)' = Remaining(p) - 1 /\ Remaining(p) \in Nat
      BY <3>2, <3>4, Delays DEF Remaining
    <3>6. Remaining(p) + Elapsed <= LongestLag /\ LongestLag \in Nat
      BY <1>4, <3>3, Lags, Delays DEF WaitInv
    <3>7. QED
      BY <2>4, <3>5, <3>6
  <2>6. QED
    BY <1>2, <2>3, <2>5 DEF WaitInv, LongestLag
<1>5. QED
  BY <1>3, <1>4

LEMMA WaitKept == ASSUME EvidenceInv, CourtInv, WaitInv, Next PROVE WaitInv'
<1>1. CASE Tick
  BY <1>1, WaitTicks
<1>2. CASE Load \/ Poll
  BY <1>2, WaitPolls
<1>3. row' # "NONE" => filed'
  BY FiledStays
<1>4. CASE ~Tick /\ judge' = judge
  <2>1. Elapsed' = Elapsed /\ Elapsed \in Int
    BY <1>4, CourtIs, JobParts, Polls DEF Elapsed
  <2>2. ASSUME judge.step = "wait", NEW p \in Pieces, Behind(p)'
        PROVE  Remaining(p)' + Elapsed' <= LongestLag
    <3>1. Moves(p)
      BY <1>4, <2>2, CourtIs, FilesMove
    <3>2. Behind(p) /\ Remaining(p)' <= Remaining(p)
      BY <2>2, <3>1, MovesOn
    <3>3. Remaining(p) + Elapsed <= LongestLag
      BY <2>2, <3>2 DEF WaitInv
    <3>4. client'[p] \in [at : ClientStep, attempt : 1..maxAttempts, timer : Nat]
      BY EvidenceKept, <2>2 DEF EvidenceInv, EvidenceTypeOK
    <3>5. Remaining(p)' \in Nat /\ Remaining(p) \in Nat /\ LongestLag \in Nat
      BY <3>2, <3>4, Lags, Delays DEF Remaining
    <3>6. QED
      BY <2>1, <3>2, <3>3, <3>5
  <2>3. QED
    BY <1>3, <1>4, <2>2 DEF WaitInv, LongestLag
<1>5. CASE AddJob
  <2>1. judge.step = "none" /\ judge' = [judge EXCEPT !.step = "queued"] /\ judge \in Job
    BY <1>5, CourtIs DEF AddJob
  <2>2. judge'.step = "queued" /\ judge'.polls = judge.polls
    BY <2>1 DEF Job
  <2>3. QED
    BY <1>3, <2>1, <2>2 DEF WaitInv
<1>6. CASE judge'.step \in {"upload", "submit", "update", "tell", "done", "failed"}
  BY <1>3, <1>6 DEF WaitInv
<1>7. CASE /\ judge'.step \in {"queued", "failing"}
           /\ judge'.polls = 0 \/ (judge.step = "failing" /\ judge'.polls = judge.polls)
  BY <1>3, <1>7 DEF WaitInv
<1>8. QED
  BY <1>1, <1>2, <1>4, <1>5, <1>6, <1>7, JudgeMoves

LEMMA WaitAlways == SiteSpec => []WaitInv
<1>1. SiteInit => WaitInv
  BY DEF SiteInit, Init, WaitInv, NoJob
<1>2. WaitInv /\ EvidenceInv /\ CourtInv /\ [SiteNext]_siteVars => WaitInv'
  <2> SUFFICES ASSUME WaitInv, EvidenceInv, CourtInv, [SiteNext]_siteVars PROVE WaitInv'
    OBVIOUS
  <2>1. CASE HavingACase
    BY <2>1, WaitKept DEF HavingACase
  <2>2. CASE ~HavingACase
    <3>1. UNCHANGED <<client, filed, row, judge>>
      BY <2>2 DEF SiteNext, OpeningRecords, siteVars, vars, evidenceVars
    <3>2. \A p \in Pieces : Behind(p)' = Behind(p) /\ Remaining(p)' = Remaining(p)
      BY <3>1 DEF Behind, Remaining
    <3>3. Elapsed' = Elapsed
      BY <3>1 DEF Elapsed
    <3>4. QED
      BY <3>1, <3>2, <3>3 DEF WaitInv, LongestLag
  <2>3. QED
    BY <2>1, <2>2
<1>3. QED
  BY <1>1, <1>2, CaseAlways, PTL DEF SiteSpec
-----------------------------------------------------------------------------
(* Enough rows, none of a file twice, are those of the files of the case.  *)
LEMMA EnoughRows ==
  ASSUME EvidenceInv, RowsOfCase >= dialog.cites, \A q \in Pieces : ~(rows[q].attached > 1),
         NEW p \in dialog.files
  PROVE  Attached(p)
<1>1. /\ Pieces = {First, Second} /\ First # Second
      /\ p \in Pieces
  BY CaseConstants, DialogIs DEF EvidenceInv
<1>2. ASSUME NEW q \in Pieces
      PROVE  /\ rows[q].attached \in 0..1 /\ PieceOK(q)
  BY Typed DEF PieceTyped, MaxRows
<1>3. CASE "evidence" \notin scope
  BY <1>1, <1>2, <1>3 DEF PieceOK, Attached
<1>4. CASE "evidence" \in scope
  <2>1. ASSUME NEW q \in Pieces, q \notin dialog.files \cup dialog.answers
        PROVE  rows[q].attached = 0
    BY <1>2, <1>4, <2>1 DEF PieceOK, Unknown
  <2>2. rows[First].attached + rows[Second].attached >= dialog.cites
    BY DEF RowsOfCase
  <2>3. rows[First].attached \in 0..1 /\ rows[Second].attached \in 0..1
    BY <1>1, <1>2
  <2>4. ASSUME dialog.files = {First, Second}, dialog.cites = 2
        PROVE  rows[First].attached = 1 /\ rows[Second].attached = 1
    BY <2>2, <2>3, <2>4
  <2>5. ASSUME dialog.cites = 2
        PROVE  rows[First].attached = 1 /\ rows[Second].attached = 1
    BY <2>2, <2>3, <2>5
  <2>6. ASSUME dialog.cites = 1, dialog.files = {First}, dialog.answers = {}
        PROVE  rows[First].attached = 1 /\ p = First
    BY <1>1, <2>1, <2>2, <2>3, <2>6
  <2>7. \/ dialog.cites = 2
        \/ dialog.cites = 1 /\ dialog.files = {First} /\ dialog.answers = {}
    BY DEF EvidenceInv, Dialogs, DisputeDialog, ClaimDialog, ClaimByFlightDialog,
           ClaimUnderSpecDialog, MilestoneSubmitDialog, AuthenticitySubmitPanel
  <2>8. QED
    BY <1>1, <2>5, <2>6, <2>7 DEF Attached
<1>5. QED
  BY <1>3, <1>4

(* When time is up, nobody is behind any more.                             *)
LEMMA NobodyBehind ==
  ASSUME LongestLag < EVIDENCE_WAIT, EvidenceInv, CourtInv, WaitInv,
         judge.step = "wait", judge.timer = 0, judge.polls + 1 = MaxPolls,
         NEW p \in Pieces
  PROVE  ~Behind(p)
<1>1. judge.polls \in 0..10
  BY CourtIs, JobParts, Polls
<1>2. Elapsed = 30
  BY <1>1, Polls DEF Elapsed
<1>3. QED
  BY <1>2, Polls, Lags, Delays DEF WaitInv

(* If a refused browser is answered before the judge's wait is over, that  *)
(* is, if the longest pause and the answer take less time than it, the     *)
(* judge reads a case without a file only if the file's row may never come *)
(* or comes for the first time of asking.                                  *)
THEOREM JudgeReadsWhatArrived ==
  ASSUME LongestLag < EVIDENCE_WAIT PROVE SiteSpec => ReadsWhatArrived
<1> DEFINE Arrived ==
      judge.step \in {"queued", "wait"} /\ judge'.step = "infer" /\ faults' = faults =>
       \A p \in dialog.files :
         \/ Attached(p)
         \/ client[p].at \in {"mining", "closed", "gaveUp"}
         \/ client[p].at = "calling" /\ client[p].attempt = 1
         \/ \E q \in Pieces : rows[q].attached > 1
<1>1. ASSUME EvidenceInv, CourtInv, WaitInv, [SiteNext]_siteVars
      PROVE  [Arrived]_vars
  <2> SUFFICES ASSUME judge.step \in {"queued", "wait"}, judge'.step = "infer",
                      faults' = faults, NEW p \in dialog.files,
                      \A q \in Pieces : ~(rows[q].attached > 1)
               PROVE  \/ Attached(p)
                      \/ client[p].at \in {"mining", "closed", "gaveUp"}
                      \/ client[p].at = "calling" /\ client[p].attempt = 1
    OBVIOUS
  <2>1. Next
    BY <1>1 DEF SiteNext, OpeningRecords, HavingACase, siteVars, vars
  <2>2. ~Tick
    <3>1. ASSUME Tick PROVE judge'.step = judge.step
      <4> DEFINE m == judge
                 t == judge.timer - 1
      <4>1. m \in Job /\ judge' \in {m, [m EXCEPT !.timer = t]}
        BY <1>1, <3>1, CourtIs DEF Tick
      <4> HIDE DEF t
      <4>2. QED
        BY <4>1 DEF Job
    <3>2. QED
      BY <3>1
  <2>3. Load \/ Poll
    <3>1. ~AddJob
      BY <1>1, CourtIs DEF AddJob
    <3>2. QED
      BY <1>1, <2>1, <2>2, <3>1, JudgeMoves
  <2>4. p \in Pieces /\ PieceOK(p) /\ client[p].at \in ClientStep
    BY <1>1, DialogIs, Typed DEF EvidenceInv, PieceTyped
  <2>5. filed /\ ~Unknown(p) /\ client[p].at # "ready"
    BY <1>1, <2>4, CourtIs DEF WaitInv, PieceOK
  <2>6. CASE RowsOfCase >= dialog.cites
    BY <1>1, <2>6, EnoughRows
  <2>7. CASE ~(RowsOfCase >= dialog.cites)
    <3>1. Poll /\ judge.step = "wait" /\ judge.timer = 0 /\ judge.expected = dialog.cites
      <4>1. ~Load
        <5>1. ASSUME Load
              PROVE  judge' = [judge EXCEPT !.step = "wait", !.timer = POLL,
                                            !.expected = dialog.cites]
          <6>1. ~Fault
            BY <1>1, CourtIs DEF Fault, CourtTyped
          <6>2. QED
            BY <2>7, <5>1, <6>1 DEF Load
        <5> DEFINE m == judge
                   x == dialog.cites
        <5>2. m \in Job
          BY <1>1, CourtIs
        <5>3. ASSUME judge' = [m EXCEPT !.step = "wait", !.timer = POLL, !.expected = x]
              PROVE  judge'.step = "wait"
          <6> HIDE DEF m, x
          <6>1. QED
            BY <5>2, <5>3 DEF Job
        <5>4. QED
          BY <5>1, <5>3
      <4>2. QED
        BY <1>1, <2>3, <4>1, CourtIs DEF Poll, AttemptOK
    <3>2. judge.polls + 1 = MaxPolls
      <4>1. ASSUME judge' = [judge EXCEPT !.polls = @ + 1, !.timer = POLL]
            PROVE  judge'.step = judge.step
        <5> DEFINE m == judge
                   n == judge.polls + 1
        <5>1. m \in Job /\ judge' = [m EXCEPT !.polls = n, !.timer = POLL]
          BY <1>1, <4>1, CourtIs
        <5> HIDE DEF n
        <5>2. QED
          BY <5>1 DEF Job
      <4>2. QED
        BY <2>7, <3>1, <4>1 DEF Poll
    <3>3. ~Behind(p)
      BY <1>1, <2>4, <3>1, <3>2, NobodyBehind
    <3>4. client[p].attempt \in 1..5
      BY <1>1, <2>4, Lags
    <3>5. QED
      BY <2>4, <2>5, <3>3, <3>4 DEF Behind, ClientStep, Unknown, PieceOK, Attached
  <2>8. QED
    BY <2>6, <2>7
<1>2. EvidenceInv /\ CourtInv /\ WaitInv /\ [SiteNext]_siteVars => [Arrived]_vars
  BY <1>1
<1>3. SiteSpec => [][Arrived]_vars
  <2> HIDE DEF Arrived
  <2>1. QED
    BY <1>2, CaseAlways, WaitAlways, PTL DEF SiteSpec
<1>4. QED
  BY <1>3 DEF ReadsWhatArrived
-----------------------------------------------------------------------------
(* The forms of the wallet: their shapes.                                  *)
FormRecord == [target : Contracts, step : FormStep, run : 0..Runs, heard : Heard,
               page : Nat, unheard : 0..Runs]
TxRecord == [kind : {"approve", "create", "faucet"}, form : Forms \cup {Someone},
             run : 0..Runs]

FormsTyped ==
  /\ form \in [Forms -> FormRecord]
  /\ sent \in Seq(TxRecord)
  /\ allowance \in [Contracts -> Nat]
  /\ records \in [Contracts -> Seq(Forms \cup {Someone})]
  /\ balance \in Nat /\ hasClaimed \in BOOLEAN
  /\ claim \in [read : BOOLEAN, pending : BOOLEAN]
  /\ crossed \subseteq Forms

(* A transaction of a form that is not mined: the form waits for its       *)
(* receipt unless it gave up or did not come to that; and a creation given *)
(* up is counted.                                                          *)
Knows(tx, m) ==
  /\ tx.run <= m.run
  /\ tx.run = m.run =>
       \/ m.step = "filling"
       \/ /\ m.step = (IF tx.kind = "create" THEN "creating" ELSE "approving")
          /\ m.heard = "nothing"
  /\ tx.kind = "create" => (tx.run = m.run /\ m.step = "creating") \/ m.unheard > 0

OfForm(n, f) == sent[n].kind # "faucet" /\ sent[n].form = f

(* No submission has two transactions that are not mined.                  *)
Alone ==
  \A n, k \in DOMAIN sent : \A f \in Forms :
    n # k /\ OfForm(n, f) /\ OfForm(k, f) => sent[n].run # sent[k].run

SentOK ==
  /\ \A n \in DOMAIN sent : sent[n].kind # "faucet" => sent[n].form \in Forms
  /\ \A n \in DOMAIN sent : \A f \in Forms : OfForm(n, f) => Knows(sent[n], form[f])
  /\ Alone

(* What a form may still count on: the submissions whose creation is sent, *)
(* and the allowance, unless another transaction than the form's own used  *)
(* or set it.                                                              *)
Pending(f) == {sent[n].run : n \in {k \in DOMAIN sent : sent[k].kind = "create" /\ sent[k].form = f}}
Backed(f) == Covered(f) \/ f \in crossed \/ form[f].unheard > 0

Creates(f) ==
  form[f].step = "routed" \/ (form[f].step = "creating" /\ form[f].heard # "reverted")

FormOK(f) ==
  /\ form[f].unheard + (IF Submitting(f) THEN 1 ELSE 0) <= form[f].run
  /\ form[f].step = "approved" => form[f].heard = "nothing"
  /\ form[f].step = "approving" => form[f].heard # "reverted"
  /\ form[f].step = "creating" /\ form[f].heard = "success" => form[f].page \in Opened(f)
  /\ form[f].step = "routed" => form[f].page \in Opened(f)
  /\ Cardinality(Opened(f)) + Cardinality(Pending(f)) <=
       form[f].unheard + (IF Creates(f) THEN 1 ELSE 0)
  /\ \/ form[f].step = "approved"
     \/ form[f].step = "approving" /\ form[f].heard = "success"
     \/ form[f].step = "creating" /\ form[f].heard # "success"
     => Backed(f)

Tokens == IF hasClaimed THEN FAUCET_CAP ELSE 0
WalletOK == SpentOnRecords + balance = Tokens

WalletInv == FormsTyped /\ SentOK /\ (\A f \in Forms : FormOK(f)) /\ WalletOK
-----------------------------------------------------------------------------
LEMMA ContractsAre ==
  /\ Contracts = {"escrow", "grant", "policy"} /\ ByValue = {"policy"}
  /\ ByValue \subseteq Contracts
<1>1. Contracts = {"escrow", "grant", "policy"}
  BY DEF Contracts, PageForms, NewEscrowForm, CreateGrantForm, UnderwriteForm
<1>2. ByValue = {"policy"}
  <2>1. NewEscrowForm.pulls = TRUE /\ CreateGrantForm.pulls = TRUE
    BY DEF NewEscrowForm, CreateGrantForm
  <2>2. UnderwriteForm.pulls = FALSE
    BY DEF UnderwriteForm
  <2>3. \A g \in PageForms : ~g.pulls <=> g = UnderwriteForm
    BY <2>1, <2>2 DEF PageForms
  <2>4. UnderwriteForm \in PageForms /\ UnderwriteForm.opens = "policy"
    BY DEF PageForms, UnderwriteForm
  <2>5. QED
    BY <2>3, <2>4 DEF ByValue
<1>3. QED
  BY <1>1, <1>2

LEMMA FormsConstants ==
  /\ IsFiniteSet(Forms) /\ Someone \notin Forms
  /\ \A f \in Forms : Need[f] \in Nat /\ Need[f] > 0
  /\ FAUCET_CAP \in Nat /\ Runs \in Nat /\ Runs > 0
  BY FormsAssumption

LEMMA FormParts ==
  ASSUME FormsTyped, NEW f \in Forms
  PROVE  /\ form[f] \in FormRecord /\ Target(f) \in Contracts /\ form[f].step \in FormStep
         /\ form[f].run \in 0..Runs /\ form[f].heard \in Heard /\ form[f].page \in Nat
         /\ form[f].unheard \in 0..Runs
         /\ form[f].run \in Nat /\ form[f].unheard \in Nat
<1>1. form[f] \in FormRecord
  BY DEF FormsTyped
<1>2. QED
  BY <1>1, FormsConstants DEF FormRecord, Target

(* One form is put into a new state.                                       *)
Put(f, s, r, h, p, u) ==
  form' = [form EXCEPT ![f] = [target |-> form[f].target, step |-> s, run |-> r, heard |-> h,
                               page |-> p, unheard |-> u]]

LEMMA PutMakes ==
  ASSUME FormsTyped, NEW f \in Forms, NEW s \in FormStep, NEW r \in 0..Runs, NEW h \in Heard,
         NEW p \in Nat, NEW u \in 0..Runs, Put(f, s, r, h, p, u)
  PROVE  /\ form' \in [Forms -> FormRecord]
         /\ form'[f].step = s /\ form'[f].run = r /\ form'[f].heard = h
         /\ form'[f].page = p /\ form'[f].unheard = u /\ form'[f].target = form[f].target
         /\ \A g \in Forms \ {f} : form'[g] = form[g]
         /\ \A g \in Forms : form'[g].target = form[g].target
<1> DEFINE c == [target |-> form[f].target, step |-> s, run |-> r, heard |-> h,
                 page |-> p, unheard |-> u]
<1>1. form' = [form EXCEPT ![f] = c]
  BY DEF Put
<1>2. form[f].target \in Contracts
  BY FormParts DEF Target
<1>3. /\ c \in FormRecord /\ c.step = s /\ c.run = r /\ c.heard = h /\ c.page = p
      /\ c.unheard = u /\ c.target = form[f].target
  BY <1>2 DEF FormRecord
<1> HIDE DEF c
<1>4. form'[f] = c /\ \A g \in Forms \ {f} : form'[g] = form[g]
  BY <1>1 DEF FormsTyped
<1>5. form' \in [Forms -> FormRecord]
  BY <1>1, <1>3 DEF FormsTyped
<1>6. QED
  BY <1>3, <1>4, <1>5

LEMMA PressedPuts ==
  ASSUME FormsTyped, NEW f \in Forms, Pressed(f)
  PROVE  Put(f, IF Covered(f) THEN "approved" ELSE "approving", form[f].run + 1, "nothing",
             form[f].page, form[f].unheard)
<1> DEFINE m == form[f]
           s == IF Covered(f) THEN "approved" ELSE "approving"
           d == [target |-> m.target, step |-> s, run |-> m.run + 1, heard |-> "nothing",
                 page |-> m.page, unheard |-> m.unheard]
<1>1. m \in FormRecord
  BY FormParts
<1>2. form' = [form EXCEPT ![f] = [m EXCEPT !.step = s, !.heard = "nothing", !.run = @ + 1]]
  BY DEF Pressed
<1> HIDE DEF m, s
<1>3. ASSUME NEW c, c = [m EXCEPT !.step = s, !.heard = "nothing", !.run = @ + 1] PROVE c = d
  BY <1>1, <1>3 DEF FormRecord
<1>4. form' = [form EXCEPT ![f] = d]
  BY <1>2, <1>3
<1> HIDE DEF d
<1>5. QED
  BY <1>4 DEF Put, m, s, d

LEMMA StepPuts ==
  ASSUME FormsTyped, NEW f \in Forms, NEW s, form' = [form EXCEPT ![f].step = s]
  PROVE  Put(f, s, form[f].run, form[f].heard, form[f].page, form[f].unheard)
<1> DEFINE m == form[f]
           d == [target |-> m.target, step |-> s, run |-> m.run, heard |-> m.heard,
                 page |-> m.page, unheard |-> m.unheard]
<1>1. m \in FormRecord
  BY FormParts
<1>2. form' = [form EXCEPT ![f] = [m EXCEPT !.step = s]]
  OBVIOUS
<1> HIDE DEF m
<1>3. [m EXCEPT !.step = s] = d
  BY <1>1 DEF FormRecord
<1> HIDE DEF d
<1>4. QED
  BY <1>2, <1>3 DEF Put, m, d

(* Two fields of one form are changed.                                     *)
LEMMA TwoFields ==
  ASSUME FormsTyped, NEW f \in Forms, NEW x, NEW y
  PROVE  /\ [form EXCEPT ![f].step = x, ![f].heard = y] =
              [form EXCEPT ![f] = [form[f] EXCEPT !.step = x, !.heard = y]]
         /\ [form EXCEPT ![f].step = x, ![f].page = y] =
              [form EXCEPT ![f] = [form[f] EXCEPT !.step = x, !.page = y]]
         /\ [form EXCEPT ![f].step = x, ![f].unheard = y] =
              [form EXCEPT ![f] = [form[f] EXCEPT !.step = x, !.unheard = y]]
         /\ [form EXCEPT ![f].heard = x, ![f].page = y] =
              [form EXCEPT ![f] = [form[f] EXCEPT !.heard = x, !.page = y]]
<1>1. f \in DOMAIN form
  BY DEF FormsTyped
<1>2. QED
  BY <1>1

LEMMA TwoPut ==
  ASSUME FormsTyped, NEW f \in Forms, NEW x, NEW y
  PROVE  /\ form' = [form EXCEPT ![f].step = x, ![f].heard = y]
              => Put(f, x, form[f].run, y, form[f].page, form[f].unheard)
         /\ form' = [form EXCEPT ![f].step = x, ![f].page = y]
              => Put(f, x, form[f].run, form[f].heard, y, form[f].unheard)
         /\ form' = [form EXCEPT ![f].step = x, ![f].unheard = y]
              => Put(f, x, form[f].run, form[f].heard, form[f].page, y)
         /\ form' = [form EXCEPT ![f].heard = x, ![f].page = y]
              => Put(f, form[f].step, form[f].run, x, y, form[f].unheard)
<1> DEFINE m == form[f]
<1>1. m \in FormRecord
  BY FormParts
<1> HIDE DEF m
<1>2. ASSUME NEW c, c = [m EXCEPT !.step = x, !.heard = y]
      PROVE  c = [target |-> m.target, step |-> x, run |-> m.run, heard |-> y,
                  page |-> m.page, unheard |-> m.unheard]
  BY <1>1, <1>2 DEF FormRecord
<1>3. ASSUME NEW c, c = [m EXCEPT !.step = x, !.page = y]
      PROVE  c = [target |-> m.target, step |-> x, run |-> m.run, heard |-> m.heard,
                  page |-> y, unheard |-> m.unheard]
  BY <1>1, <1>3 DEF FormRecord
<1>4. ASSUME NEW c, c = [m EXCEPT !.step = x, !.unheard = y]
      PROVE  c = [target |-> m.target, step |-> x, run |-> m.run, heard |-> m.heard,
                  page |-> m.page, unheard |-> y]
  BY <1>1, <1>4 DEF FormRecord
<1>5. ASSUME NEW c, c = [m EXCEPT !.heard = x, !.page = y]
      PROVE  c = [target |-> m.target, step |-> m.step, run |-> m.run, heard |-> x,
                  page |-> y, unheard |-> m.unheard]
  BY <1>1, <1>5 DEF FormRecord
<1>6. ASSUME form' = [form EXCEPT ![f].step = x, ![f].heard = y]
      PROVE  Put(f, x, form[f].run, y, form[f].page, form[f].unheard)
  BY <1>2, <1>6, TwoFields DEF Put, m
<1>7. ASSUME form' = [form EXCEPT ![f].step = x, ![f].page = y]
      PROVE  Put(f, x, form[f].run, form[f].heard, y, form[f].unheard)
  BY <1>3, <1>7, TwoFields DEF Put, m
<1>8. ASSUME form' = [form EXCEPT ![f].step = x, ![f].unheard = y]
      PROVE  Put(f, x, form[f].run, form[f].heard, form[f].page, y)
  BY <1>4, <1>8, TwoFields DEF Put, m
<1>9. ASSUME form' = [form EXCEPT ![f].heard = x, ![f].page = y]
      PROVE  Put(f, form[f].step, form[f].run, x, y, form[f].unheard)
  BY <1>5, <1>9, TwoFields DEF Put, m
<1>10. QED
  BY <1>6, <1>7, <1>8, <1>9
-----------------------------------------------------------------------------
(* The wallet's transactions, one more or one less.                        *)
LEMMA SentAppends ==
  ASSUME FormsTyped, NEW tx \in TxRecord, sent' = Append(sent, tx)
  PROVE  /\ sent' \in Seq(TxRecord)
         /\ DOMAIN sent' = DOMAIN sent \cup {Len(sent) + 1}
         /\ \A n \in DOMAIN sent : n # Len(sent) + 1 /\ sent'[n] = sent[n]
         /\ sent'[Len(sent) + 1] = tx
  BY DEF FormsTyped

LEMMA SentShrinks ==
  ASSUME FormsTyped, sent # <<>>, sent' = Tail(sent)
  PROVE  /\ sent' \in Seq(TxRecord)
         /\ 1 \in DOMAIN sent /\ Head(sent) = sent[1] /\ sent[1] \in TxRecord
         /\ \A n \in DOMAIN sent' : n + 1 \in DOMAIN sent /\ n + 1 # 1 /\ sent'[n] = sent[n + 1]
         /\ \A n \in DOMAIN sent : n # 1 => n - 1 \in DOMAIN sent' /\ sent'[n - 1] = sent[n]
         /\ \A n, k \in DOMAIN sent' : n # k => n + 1 # k + 1
<1>1. sent \in Seq(TxRecord) /\ Len(sent) \in Nat /\ Len(sent) > 0 /\ DOMAIN sent = 1..Len(sent)
  BY DEF FormsTyped
<1>2. /\ sent' \in Seq(TxRecord) /\ DOMAIN sent' = 1..(Len(sent) - 1)
      /\ \A n \in 1..(Len(sent) - 1) : sent'[n] = sent[n + 1]
  BY <1>1
<1>3. Head(sent) = sent[1] /\ sent[1] \in TxRecord
  BY <1>1
<1>4. QED
  BY <1>1, <1>2, <1>3

LEMMA PendingFinite ==
  ASSUME FormsTyped, NEW f \in Forms
  PROVE  IsFiniteSet(Pending(f)) /\ Cardinality(Pending(f)) \in Nat
<1>1. \A n \in DOMAIN sent : sent[n].run \in 0..Runs
  <2>1. \A n \in DOMAIN sent : sent[n] \in TxRecord
    BY DEF FormsTyped
  <2>2. QED
    BY <2>1 DEF TxRecord
<1>2. Pending(f) \subseteq 0..Runs
  BY <1>1 DEF Pending
<1>3. IsFiniteSet(0..Runs)
  BY FormsConstants, FS_Interval
<1>4. IsFiniteSet(Pending(f))
  BY <1>2, <1>3, FS_Subset
<1>5. QED
  BY <1>4, FS_CardinalityType

LEMMA PendingStays == ASSUME sent' = sent, NEW f PROVE Pending(f)' = Pending(f)
  BY DEF Pending

LEMMA PendingGrows ==
  ASSUME FormsTyped, NEW tx \in TxRecord, sent' = Append(sent, tx), NEW f
  PROVE  Pending(f)' = Pending(f) \cup (IF tx.kind = "create" /\ tx.form = f THEN {tx.run} ELSE {})
<1> DEFINE L == Len(sent) + 1
<1>1. /\ DOMAIN sent' = DOMAIN sent \cup {L}
      /\ \A n \in DOMAIN sent : n # L /\ sent'[n] = sent[n]
      /\ sent'[L] = tx
  BY SentAppends
<1> HIDE DEF L
<1>2. \A x : x \in Pending(f)' <=>
               \E n \in DOMAIN sent' : sent'[n].kind = "create" /\ sent'[n].form = f /\ sent'[n].run = x
  BY DEF Pending
<1>3. \A x : x \in Pending(f) <=>
               \E n \in DOMAIN sent : sent[n].kind = "create" /\ sent[n].form = f /\ sent[n].run = x
  BY DEF Pending
<1>4. ASSUME NEW x
      PROVE  x \in Pending(f)' <=>
               x \in Pending(f) \/ (tx.kind = "create" /\ tx.form = f /\ tx.run = x)
  BY <1>1, <1>2, <1>3
<1>5. QED
  BY <1>4

LEMMA PendingShrinks ==
  ASSUME FormsTyped, SentOK, sent # <<>>, sent' = Tail(sent), NEW f \in Forms
  PROVE  LET tx == sent[1] IN
         /\ tx.kind = "create" /\ tx.form = f =>
              tx.run \in Pending(f) /\ Pending(f)' = Pending(f) \ {tx.run}
         /\ ~(tx.kind = "create" /\ tx.form = f) => Pending(f)' = Pending(f)
<1> DEFINE tx == sent[1]
<1>1. /\ 1 \in DOMAIN sent
      /\ \A n \in DOMAIN sent' : n + 1 \in DOMAIN sent /\ n + 1 # 1 /\ sent'[n] = sent[n + 1]
      /\ \A n \in DOMAIN sent : n # 1 => n - 1 \in DOMAIN sent' /\ sent'[n - 1] = sent[n]
  BY SentShrinks
<1>2. \A x : x \in Pending(f)' <=>
               \E n \in DOMAIN sent' : sent'[n].kind = "create" /\ sent'[n].form = f /\ sent'[n].run = x
  BY DEF Pending
<1>3. \A x : x \in Pending(f) <=>
               \E n \in DOMAIN sent : sent[n].kind = "create" /\ sent[n].form = f /\ sent[n].run = x
  BY DEF Pending
<1>4. \A x : x \in Pending(f)' <=>
               \E n \in DOMAIN sent : n # 1 /\ sent[n].kind = "create" /\ sent[n].form = f
                                      /\ sent[n].run = x
  <2>1. ASSUME NEW x, NEW n \in DOMAIN sent', sent'[n].kind = "create", sent'[n].form = f,
               sent'[n].run = x
        PROVE  /\ n + 1 \in DOMAIN sent /\ n + 1 # 1 /\ sent[n + 1].kind = "create"
               /\ sent[n + 1].form = f /\ sent[n + 1].run = x
    BY <1>1, <2>1
  <2>2. ASSUME NEW x, NEW n \in DOMAIN sent, n # 1, sent[n].kind = "create", sent[n].form = f,
               sent[n].run = x
        PROVE  /\ n - 1 \in DOMAIN sent' /\ sent'[n - 1].kind = "create"
               /\ sent'[n - 1].form = f /\ sent'[n - 1].run = x
    BY <1>1, <2>2
  <2>3. ASSUME NEW x, x \in Pending(f)'
        PROVE  \E n \in DOMAIN sent : n # 1 /\ sent[n].kind = "create" /\ sent[n].form = f
                                       /\ sent[n].run = x
    <3>1. PICK n \in DOMAIN sent' : sent'[n].kind = "create" /\ sent'[n].form = f
                                   /\ sent'[n].run = x
      BY <1>2, <2>3
    <3>2. QED
      BY <2>1, <3>1
  <2>4. ASSUME NEW x, NEW n \in DOMAIN sent, n # 1, sent[n].kind = "create", sent[n].form = f,
               sent[n].run = x
        PROVE  x \in Pending(f)'
    <3>1. /\ n - 1 \in DOMAIN sent' /\ sent'[n - 1].kind = "create"
          /\ sent'[n - 1].form = f /\ sent'[n - 1].run = x
      BY <2>2, <2>4
    <3>2. QED
      BY <1>2, <3>1
  <2>5. QED
    BY <2>3, <2>4
<1>5. ASSUME NEW n \in DOMAIN sent, n # 1, sent[n].kind = "create", sent[n].form = f,
             tx.kind = "create", tx.form = f
      PROVE  sent[n].run # tx.run
  BY <1>1, <1>5 DEF SentOK, Alone, OfForm
<1>6. CASE tx.kind = "create" /\ tx.form = f
  <2>1. tx.run \in Pending(f)
    BY <1>1, <1>3, <1>6
  <2>2. ASSUME NEW x PROVE x \in Pending(f)' <=> x \in Pending(f) \ {tx.run}
    BY <1>1, <1>3, <1>4, <1>5, <1>6
  <2>3. QED
    BY <1>6, <2>1, <2>2
<1>7. CASE ~(tx.kind = "create" /\ tx.form = f)
  <2>1. ASSUME NEW x PROVE x \in Pending(f)' <=> x \in Pending(f)
    BY <1>1, <1>3, <1>4, <1>7
  <2>2. QED
    BY <1>7, <2>1
<1>8. QED
  BY <1>6, <1>7
-----------------------------------------------------------------------------
(* The records a form opened.                                              *)
LEMMA OpenedFinite ==
  ASSUME FormsTyped, NEW f \in Forms
  PROVE  IsFiniteSet(Opened(f)) /\ Cardinality(Opened(f)) \in Nat
<1>1. records[Target(f)] \in Seq(Forms \cup {Someone})
  BY FormParts DEF FormsTyped
<1>2. Opened(f) \subseteq 1..Len(records[Target(f)]) /\ Len(records[Target(f)]) \in Nat
  BY <1>1 DEF Opened
<1>3. IsFiniteSet(1..Len(records[Target(f)]))
  BY <1>2, FS_Interval
<1>4. IsFiniteSet(Opened(f))
  BY <1>2, <1>3, FS_Subset
<1>5. QED
  BY <1>4, FS_CardinalityType

LEMMA OpenedStays ==
  ASSUME NEW f \in Forms, Target(f)' = Target(f), records' = records
  PROVE  Opened(f)' = Opened(f)
  BY DEF Opened

LEMMA OpenedGrows ==
  ASSUME FormsTyped, NEW t \in Contracts, NEW w \in Forms \cup {Someone},
         records' = [records EXCEPT ![t] = Append(@, w)],
         NEW f \in Forms, Target(f)' = Target(f)
  PROVE  /\ records' \in [Contracts -> Seq(Forms \cup {Someone})]
         /\ w = f /\ t = Target(f) =>
              /\ Opened(f)' = Opened(f) \cup {Len(records[t]) + 1}
              /\ Len(records[t]) + 1 \notin Opened(f)
         /\ ~(w = f /\ t = Target(f)) => Opened(f)' = Opened(f)
<1> DEFINE s == records[t]
           L == Len(s) + 1
<1>1. /\ s \in Seq(Forms \cup {Someone}) /\ Append(s, w) \in Seq(Forms \cup {Someone})
      /\ DOMAIN Append(s, w) = DOMAIN s \cup {L} /\ L \notin DOMAIN s
      /\ \A n \in DOMAIN s : Append(s, w)[n] = s[n]
      /\ Append(s, w)[L] = w
  BY DEF FormsTyped
<1>2. /\ records' \in [Contracts -> Seq(Forms \cup {Someone})]
      /\ records'[t] = Append(s, w)
      /\ \A u \in Contracts : u # t => records'[u] = records[u]
  BY <1>1 DEF FormsTyped
<1> HIDE DEF s, L
<1>3. CASE t = Target(f)
  <2>1. Opened(f) = {k \in DOMAIN s : s[k] = f}
    BY <1>3 DEF Opened, s
  <2>2. Opened(f)' = {k \in DOMAIN s \cup {L} : Append(s, w)[k] = f}
    BY <1>1, <1>2, <1>3 DEF Opened
  <2>3. ASSUME NEW k PROVE k \in Opened(f)' <=> k \in Opened(f) \/ (k = L /\ w = f)
    BY <1>1, <2>1, <2>2
  <2>4. L \notin Opened(f)
    BY <1>1, <2>1
  <2>5. QED
    BY <1>2, <1>3, <2>3, <2>4 DEF s, L
<1>4. CASE t # Target(f)
  <2>1. records'[Target(f)] = records[Target(f)]
    BY <1>2, <1>4, FormParts
  <2>2. QED
    BY <1>2, <1>4, <2>1 DEF Opened
<1>5. QED
  BY <1>3, <1>4
-----------------------------------------------------------------------------
(* The transactions that are not mined, after a step of one form.          *)
LEMMA SentMake ==
  ASSUME \A n \in DOMAIN sent' : sent'[n].kind # "faucet" => sent'[n].form \in Forms,
         \A n \in DOMAIN sent' : \A f \in Forms :
           sent'[n].kind # "faucet" /\ sent'[n].form = f => Knows(sent'[n], form'[f]),
         Alone'
  PROVE  SentOK'
  BY DEF SentOK, OfForm, Knows

LEMMA SentSame ==
  ASSUME FormsTyped, SentOK, sent' = sent, NEW f, \A g \in Forms \ {f} : form'[g] = form[g],
         \A n \in DOMAIN sent : f \in Forms /\ OfForm(n, f) => Knows(sent[n], form'[f])
  PROVE  SentOK'
<1>1. Alone'
  BY DEF SentOK, Alone, OfForm
<1>2. \A n \in DOMAIN sent : \A g \in Forms : OfForm(n, g) => Knows(sent[n], form'[g])
  BY DEF SentOK
<1>3. \A n \in DOMAIN sent : sent[n].kind # "faucet" => sent[n].form \in Forms
  BY DEF SentOK
<1>4. QED
  BY <1>1, <1>2, <1>3, SentMake DEF OfForm

LEMMA SentMore ==
  ASSUME FormsTyped, SentOK, NEW tx \in TxRecord, sent' = Append(sent, tx), NEW f,
         \A g \in Forms \ {f} : form'[g] = form[g],
         \A n \in DOMAIN sent : f \in Forms /\ OfForm(n, f) => Knows(sent[n], form'[f]),
         \/ tx.kind = "faucet"
         \/ /\ f \in Forms /\ tx.form = f /\ Knows(tx, form'[f])
            /\ \A n \in DOMAIN sent : OfForm(n, f) => sent[n].run # tx.run
  PROVE  SentOK'
<1> DEFINE L == Len(sent) + 1
<1>1. /\ DOMAIN sent' = DOMAIN sent \cup {L}
      /\ \A n \in DOMAIN sent : n # L /\ sent'[n] = sent[n]
      /\ sent'[L] = tx
  BY SentAppends
<1> HIDE DEF L
<1>2. \A n \in DOMAIN sent : \A g \in Forms : OfForm(n, g) => Knows(sent[n], form'[g])
  BY DEF SentOK
<1>3. \A n \in DOMAIN sent' : sent'[n].kind # "faucet" => sent'[n].form \in Forms
  BY <1>1 DEF SentOK
<1>4. \A n \in DOMAIN sent' : \A g \in Forms :
        sent'[n].kind # "faucet" /\ sent'[n].form = g => Knows(sent'[n], form'[g])
  BY <1>1, <1>2 DEF OfForm
<1>5. ASSUME NEW n \in DOMAIN sent', NEW k \in DOMAIN sent', NEW g \in Forms, n # k,
             sent'[n].kind # "faucet", sent'[n].form = g,
             sent'[k].kind # "faucet", sent'[k].form = g
      PROVE  sent'[n].run # sent'[k].run
  <2>1. CASE n \in DOMAIN sent /\ k \in DOMAIN sent
    BY <1>1, <1>5, <2>1 DEF SentOK, Alone, OfForm
  <2>2. CASE n = L /\ k \in DOMAIN sent
    BY <1>1, <1>5, <2>2 DEF OfForm
  <2>3. CASE k = L /\ n \in DOMAIN sent
    BY <1>1, <1>5, <2>3 DEF OfForm
  <2>4. QED
    BY <1>1, <1>5, <2>1, <2>2, <2>3
<1>6. Alone'
  BY <1>5 DEF Alone, OfForm
<1>7. QED
  BY <1>3, <1>4, <1>6, SentMake

LEMMA SentLess ==
  ASSUME FormsTyped, SentOK, sent # <<>>, sent' = Tail(sent), NEW f,
         \A g \in Forms \ {f} : form'[g] = form[g],
         \A n \in DOMAIN sent : n # 1 /\ f \in Forms /\ OfForm(n, f) => Knows(sent[n], form'[f])
  PROVE  SentOK'
<1>1. /\ \A n \in DOMAIN sent' : n + 1 \in DOMAIN sent /\ n + 1 # 1 /\ sent'[n] = sent[n + 1]
      /\ \A n, k \in DOMAIN sent' : n # k => n + 1 # k + 1
  BY SentShrinks
<1>2. \A n \in DOMAIN sent : \A g \in Forms :
        n # 1 /\ OfForm(n, g) => Knows(sent[n], form'[g])
  BY DEF SentOK
<1>3. ASSUME NEW n \in DOMAIN sent', sent'[n].kind # "faucet"
      PROVE  /\ sent'[n].form \in Forms
             /\ \A g \in Forms : sent'[n].form = g => Knows(sent'[n], form'[g])
  <2>1. n + 1 \in DOMAIN sent /\ n + 1 # 1 /\ sent'[n] = sent[n + 1]
    BY <1>1
  <2>2. sent[n + 1].form \in Forms
    BY <1>3, <2>1 DEF SentOK
  <2>3. \A g \in Forms : sent[n + 1].form = g => Knows(sent[n + 1], form'[g])
    BY <1>2, <1>3, <2>1 DEF OfForm
  <2>4. QED
    BY <2>1, <2>2, <2>3
<1>4. ASSUME NEW n \in DOMAIN sent', NEW k \in DOMAIN sent', NEW g \in Forms, n # k,
             sent'[n].kind # "faucet", sent'[n].form = g,
             sent'[k].kind # "faucet", sent'[k].form = g
      PROVE  sent'[n].run # sent'[k].run
  <2>1. /\ n + 1 \in DOMAIN sent /\ sent'[n] = sent[n + 1]
        /\ k + 1 \in DOMAIN sent /\ sent'[k] = sent[k + 1] /\ n + 1 # k + 1
    BY <1>1, <1>4
  <2>2. QED
    BY <1>4, <2>1 DEF SentOK, Alone, OfForm
<1>5. Alone'
  BY <1>4 DEF Alone, OfForm
<1>6. QED
  BY <1>3, <1>5, SentMake
-----------------------------------------------------------------------------
(* What was spent.                                                         *)
LEMMA SpentIs ==
  ASSUME FormsTyped, NEW f \in Forms
  PROVE  Spent(f) \in Nat
<1>1. Cardinality(Opened(f)) \in Nat /\ Need[f] \in Nat
  BY OpenedFinite, FormsConstants
<1>2. \A m, n \in Nat : m * n \in Nat
  OBVIOUS
<1>3. QED
  BY <1>1, <1>2 DEF Spent

LEMMA Balances ==
  ASSUME NEW x \in Int, NEW y \in Int, NEW a \in Int, NEW b \in Int, NEW m \in Int,
         NEW n \in Int, NEW t \in Int, NEW u \in Int,
         y = x - a + b, x + m = t, b + n + t = a + m + u
  PROVE  y + n = u
  OBVIOUS

LEMMA WalletKept ==
  ASSUME FormsTyped, FormsTyped', WalletOK, NEW f \in Forms,
         \A g \in Forms \ {f} : Spent(g)' = Spent(g), Spent(f)' \in Nat,
         Spent(f)' + balance' + Tokens = Spent(f) + balance + Tokens'
  PROVE  WalletOK'
<1> DEFINE l == [g \in Forms |-> Spent(g)]
           k == [g \in Forms |-> Spent(g)']
           t == SpentOnRecords
<1>1. \A g \in Forms : l[g] \in Int /\ k[g] \in Int
  <2> SUFFICES ASSUME NEW g \in Forms PROVE Spent(g) \in Nat /\ Spent(g)' \in Nat
    OBVIOUS
  <2>1. Spent(g) \in Nat
    BY SpentIs
  <2>2. Spent(g)' \in Nat
    BY <2>1
  <2>3. QED
    BY <2>1, <2>2
<1>2. \A g \in Forms \ {f} : k[g] = l[g]
  OBVIOUS
<1>3. t = SumFunctionOnSet(l, Forms) /\ SpentOnRecords' = SumFunctionOnSet(k, Forms)
  BY DEF SpentOnRecords
<1>4. l[f] = Spent(f) /\ k[f] = Spent(f)'
  OBVIOUS
<1> HIDE DEF l, k, t
<1>5. SumFunctionOnSet(k, Forms) = SumFunctionOnSet(l, Forms) - l[f] + k[f]
  BY <1>1, <1>2, FormsConstants, SumChanged
<1>6. SumFunctionOnSet(l, Forms) \in Int
  BY <1>1, FormsConstants, SumInt
<1>7. balance \in Int /\ balance' \in Int /\ Tokens \in Int /\ Tokens' \in Int
  BY FormsConstants DEF FormsTyped, Tokens
<1>8. SumFunctionOnSet(l, Forms) + balance = Tokens
  BY <1>3 DEF WalletOK, t
<1>9. SumFunctionOnSet(k, Forms) + balance' = Tokens'
  <2>1. l[f] \in Int /\ k[f] \in Int
    BY <1>1
  <2>2. k[f] + balance' + Tokens = l[f] + balance + Tokens'
    BY <1>4
  <2>3. SumFunctionOnSet(k, Forms) \in Int
    BY <1>5, <1>6, <2>1
  <2>4. QED
    BY <1>5, <1>6, <1>7, <1>8, <2>1, <2>2, <2>3, Balances
<1>10. QED
  BY <1>3, <1>9 DEF WalletOK

(* Nothing is spent.                                                       *)
LEMMA NothingSpent ==
  ASSUME FormsTyped, FormsTyped', WalletOK, UNCHANGED <<records, balance, hasClaimed>>,
         NEW f \in Forms, \A g \in Forms : form'[g].target = form[g].target
  PROVE  WalletOK'
<1>1. \A g \in Forms : Spent(g)' = Spent(g)
  BY DEF Spent, Target, Opened
<1>2. Spent(f) \in Nat /\ Tokens' = Tokens
  BY SpentIs DEF Tokens
<1>3. QED
  BY <1>1, <1>2, WalletKept

(* A form that nothing happens to.                                         *)
LEMMA FormFrame ==
  ASSUME NEW g \in Forms, FormOK(g), form'[g] = form[g], Opened(g)' = Opened(g),
         Pending(g)' = Pending(g), Submitting(g) /\ Backed(g) => Backed(g)'
  PROVE  FormOK(g)'
  BY DEF FormOK, Submitting, Creates

LEMMA BackedFrame ==
  ASSUME NEW g \in Forms, form'[g].target = form[g].target,
         form'[g].unheard = form[g].unheard, UNCHANGED allowance, g \in crossed => g \in crossed'
  PROVE  Backed(g) => Backed(g)'
  BY DEF Backed, Covered, Target

(* A step of the handler of a form, with the chain as it is.               *)
LEMMA HandlerStep ==
  ASSUME WalletInv, NEW f \in Forms,
         form' \in [Forms -> FormRecord], form'[f].target = form[f].target,
         \A g \in Forms \ {f} : form'[g] = form[g],
         UNCHANGED <<chainVars, claim>>, crossed' \subseteq Forms,
         \A g \in Forms \ {f} : g \in crossed => g \in crossed',
         \A n \in DOMAIN sent : OfForm(n, f) => Knows(sent[n], form'[f]),
         \/ sent' = sent
         \/ \E tx \in TxRecord :
              /\ sent' = Append(sent, tx) /\ tx.kind # "faucet" /\ tx.form = f
              /\ Knows(tx, form'[f]) /\ \A n \in DOMAIN sent : OfForm(n, f) => sent[n].run # tx.run,
         FormOK(f)'
  PROVE  WalletInv'
<1>1. /\ FormsTyped /\ SentOK /\ WalletOK /\ \A g \in Forms : FormOK(g)
      /\ UNCHANGED <<allowance, balance, records, hasClaimed>>
      /\ \A g \in Forms : form'[g].target = form[g].target
  BY DEF WalletInv, chainVars
<1>2. sent' \in Seq(TxRecord)
  BY <1>1, SentAppends DEF FormsTyped
<1>3. FormsTyped'
  BY <1>1, <1>2 DEF FormsTyped
<1>4. SentOK'
  <2>1. CASE sent' = sent
    BY <1>1, <2>1, SentSame
  <2>2. CASE sent' # sent
    <3>1. PICK tx \in TxRecord :
            /\ sent' = Append(sent, tx) /\ tx.kind # "faucet" /\ tx.form = f
            /\ Knows(tx, form'[f]) /\ \A n \in DOMAIN sent : OfForm(n, f) => sent[n].run # tx.run
      BY <2>2
    <3>2. QED
      BY <1>1, <3>1, SentMore
  <2>3. QED
    BY <2>1, <2>2
<1>5. WalletOK'
  BY <1>1, <1>3, NothingSpent
<1>6. ASSUME NEW g \in Forms, g # f PROVE FormOK(g)'
  <2>1. Pending(g)' = Pending(g)
    <3>1. CASE sent' = sent
      BY <3>1, PendingStays
    <3>2. CASE sent' # sent
      <4>1. PICK tx \in TxRecord : sent' = Append(sent, tx) /\ tx.form = f
        BY <3>2
      <4>2. QED
        BY <1>1, <1>6, <4>1, PendingGrows
    <3>3. QED
      BY <3>1, <3>2
  <2>2. form'[g] = form[g] /\ (g \in crossed => g \in crossed')
    BY <1>6
  <2>3. Opened(g)' = Opened(g)
    BY <1>1, <2>2, OpenedStays DEF Target
  <2>4. Backed(g) => Backed(g)'
    BY <1>1, <2>2, BackedFrame
  <2>5. QED
    BY <1>1, <2>1, <2>2, <2>3, <2>4, FormFrame
<1>7. QED
  BY <1>3, <1>4, <1>5, <1>6 DEF WalletInv
-----------------------------------------------------------------------------
LEMMA SubmitKept ==
  ASSUME WalletInv, NEW f \in Forms, HandleSubmit(f)
  PROVE  WalletInv'
<1> DEFINE r == form[f].run + 1
           s == IF Covered(f) THEN "approved" ELSE "approving"
<1>1. /\ FormsTyped /\ SentOK /\ FormOK(f) /\ form[f].step = "filling" /\ form[f].run < Runs
      /\ UNCHANGED <<chainVars, claim, allowance, records>> /\ crossed' = crossed \ {f}
      /\ crossed \subseteq Forms
      /\ IF Covered(f) THEN UNCHANGED sent ELSE SendTx("approve", f)
      /\ Pressed(f)
  BY DEF WalletInv, HandleSubmit, chainVars, FormsTyped
<1>2. /\ form[f].run \in Nat /\ form[f].unheard \in Nat /\ form[f].page \in Nat
      /\ r \in 0..Runs /\ s \in FormStep
      /\ "nothing" \in Heard /\ form[f].unheard \in 0..Runs
  BY <1>1, FormParts, FormsConstants DEF FormStep, Heard
<1>3. Put(f, s, r, "nothing", form[f].page, form[f].unheard)
  BY <1>1, PressedPuts
<1> HIDE DEF r, s
<1>4. /\ form' \in [Forms -> FormRecord]
      /\ form'[f].step = s /\ form'[f].run = r /\ form'[f].heard = "nothing"
      /\ form'[f].unheard = form[f].unheard /\ form'[f].target = form[f].target
      /\ \A g \in Forms \ {f} : form'[g] = form[g]
  BY <1>1, <1>2, <1>3, PutMakes
<1>5. ASSUME NEW n \in DOMAIN sent, OfForm(n, f)
      PROVE  Knows(sent[n], form'[f]) /\ sent[n].run # r
  <2>1. Knows(sent[n], form[f])
    BY <1>1, <1>5 DEF SentOK
  <2>2. sent[n].run \in Nat
    <3>1. sent[n] \in TxRecord
      BY <1>1, <1>5 DEF FormsTyped
    <3>2. QED
      BY <3>1, FormsConstants DEF TxRecord
  <2>3. sent[n].run <= form[f].run /\ (sent[n].kind = "create" => form[f].unheard > 0)
    BY <1>1, <2>1 DEF Knows
  <2>4. QED
    BY <1>2, <1>4, <2>2, <2>3 DEF Knows, r
<1>6. \/ sent' = sent /\ Covered(f)
      \/ /\ ~Covered(f)
         /\ sent' = Append(sent, [kind |-> "approve", form |-> f, run |-> r])
  BY <1>1, <1>4 DEF SendTx, Transaction
<1>7. Pending(f)' = Pending(f)
  <2>1. CASE sent' = sent
    BY <2>1, PendingStays
  <2>2. CASE sent' = Append(sent, [kind |-> "approve", form |-> f, run |-> r])
    <3>1. [kind |-> "approve", form |-> f, run |-> r] \in TxRecord
      BY <1>2 DEF TxRecord
    <3>2. QED
      BY <1>1, <2>2, <3>1, PendingGrows
  <2>3. QED
    BY <1>6, <2>1, <2>2
<1>8. FormOK(f)'
  <2>1. Opened(f)' = Opened(f) /\ (Covered(f)' <=> Covered(f))
    BY <1>1, <1>4, OpenedStays DEF Target, Covered
  <2>2. s = "approved" => Covered(f)
    BY DEF s
  <2>3. s \in {"approved", "approving"}
    BY DEF s
  <2>4. form'[f].unheard + 1 <= form'[f].run
    BY <1>1, <1>2, <1>4 DEF FormOK, Submitting, r
  <2>5. Cardinality(Opened(f)) + Cardinality(Pending(f)) <= form[f].unheard
    BY <1>1, <1>2 DEF FormOK, Creates
  <2>6. QED
    BY <1>2, <1>4, <1>7, <2>1, <2>2, <2>3, <2>4, <2>5 DEF FormOK, Submitting, Creates, Backed
<1>9. \/ sent' = sent
      \/ \E tx \in TxRecord :
              /\ sent' = Append(sent, tx) /\ tx.kind # "faucet" /\ tx.form = f
              /\ Knows(tx, form'[f]) /\ \A n \in DOMAIN sent : OfForm(n, f) => sent[n].run # tx.run
  <2>1. CASE sent' # sent
    <3> DEFINE tx == [kind |-> "approve", form |-> f, run |-> r]
    <3>1. tx \in TxRecord /\ tx.kind = "approve" /\ tx.form = f /\ tx.run = r
      BY <1>2 DEF TxRecord
    <3>2. sent' = Append(sent, tx) /\ ~Covered(f)
      BY <1>6, <2>1
    <3> HIDE DEF tx
    <3>3. Knows(tx, form'[f])
      BY <1>2, <1>4, <3>1, <3>2 DEF Knows, s
    <3>4. QED
      BY <1>5, <3>1, <3>2, <3>3
  <2>2. QED
    BY <2>1
<1>10. crossed' \subseteq Forms /\ \A g \in Forms \ {f} : g \in crossed => g \in crossed'
  BY <1>1
<1>11. QED
  BY <1>1, <1>4, <1>5, <1>8, <1>9, <1>10, HandlerStep

(* A step of the handler that sends nothing.                               *)
LEMMA QuietStep ==
  ASSUME WalletInv, NEW f \in Forms, Submitting(f),
         NEW s \in FormStep, NEW h \in Heard, NEW u \in 0..Runs,
         Put(f, s, form[f].run, h, form[f].page, u),
         UNCHANGED <<sent, chainVars, claim, crossed>>,
         u >= form[f].unheard,
         s = "filling" \/ form[f].step = "approved" \/ form[f].heard # "nothing",
         form[f].step # "creating" \/ form[f].heard # "nothing" \/ u > 0,
         s \in {"approved", "creating"} => u < form[f].run /\ s = "approved" /\ h = "nothing",
         s = "approving" => FALSE,
         s = "routed" => form[f].page \in Opened(f),
         s = "filling" => u <= form[f].run,
         s = "routed" => u <= form[f].run,
         Cardinality(Opened(f)) + Cardinality(Pending(f)) <= u + (IF s = "routed" THEN 1 ELSE 0),
         s = "approved" => Backed(f)
  PROVE  WalletInv'
<1>1. /\ FormsTyped /\ SentOK /\ FormOK(f) /\ UNCHANGED <<allowance, records>>
      /\ crossed \subseteq Forms
  BY DEF WalletInv, chainVars, FormsTyped
<1>2. /\ form[f].run \in 0..Runs /\ form[f].page \in Nat
      /\ form[f].run \in Nat /\ form[f].unheard \in Nat /\ u \in Nat
  BY <1>1, FormParts, FormsConstants
<1>3. /\ form' \in [Forms -> FormRecord]
      /\ form'[f].step = s /\ form'[f].run = form[f].run /\ form'[f].heard = h
      /\ form'[f].page = form[f].page
      /\ form'[f].unheard = u /\ form'[f].target = form[f].target
      /\ \A g \in Forms \ {f} : form'[g] = form[g]
  BY <1>1, <1>2, PutMakes
<1>4. ASSUME NEW n \in DOMAIN sent, OfForm(n, f)
      PROVE  Knows(sent[n], form'[f])
  <2>1. Knows(sent[n], form[f])
    BY <1>1, <1>4 DEF SentOK
  <2>2. form[f].step # "filling"
    BY DEF Submitting
  <2>3. sent[n].run = form[f].run => form'[f].step = "filling"
    BY <1>3, <2>1, <2>2 DEF Knows
  <2>4. sent[n].kind = "create" => u > 0
    BY <1>2, <2>1, <2>2 DEF Knows
  <2>5. QED
    BY <1>3, <2>1, <2>3, <2>4 DEF Knows
<1>5. Opened(f)' = Opened(f) /\ Pending(f)' = Pending(f)
  BY <1>1, <1>3, OpenedStays, PendingStays DEF Target
<1>6. Covered(f)' <=> Covered(f)
  BY <1>1, <1>3 DEF Covered, Target
<1>7. FormOK(f)'
  <2>1. form'[f].unheard + (IF Submitting(f)' THEN 1 ELSE 0) <= form'[f].run
    BY <1>2, <1>3 DEF Submitting, FormStep
  <2>2. /\ form'[f].step = "approved" => form'[f].heard = "nothing"
        /\ form'[f].step = "approving" => form'[f].heard # "reverted"
        /\ form'[f].step = "creating" /\ form'[f].heard = "success" => form'[f].page \in Opened(f)'
        /\ form'[f].step = "routed" => form'[f].page \in Opened(f)'
    BY <1>3, <1>5
  <2>3. Cardinality(Opened(f)') + Cardinality(Pending(f)') <=
          form'[f].unheard + (IF Creates(f)' THEN 1 ELSE 0)
    BY <1>2, <1>3, <1>5 DEF Creates
  <2>4. s = "approved" => Backed(f)'
    BY <1>2, <1>3, <1>6 DEF Backed
  <2>5. QED
    BY <1>3, <2>1, <2>2, <2>3, <2>4 DEF FormOK
<1>8. QED
  BY <1>1, <1>3, <1>4, <1>7, HandlerStep

LEMMA GoesOnKept ==
  ASSUME WalletInv, NEW f \in Forms,
         ApprovalHeard(f) \/ CreateRefused(f) \/ Routed(f) \/ RevertHeard(f) \/ SubmitThrows(f)
  PROVE  WalletInv'
<1>1. /\ FormsTyped /\ FormOK(f) /\ UNCHANGED <<sent, chainVars, claim, crossed>>
      /\ form[f].run \in Nat /\ form[f].unheard \in Nat /\ form[f].unheard \in 0..Runs
      /\ form[f].run <= Runs /\ form[f].heard \in Heard
  BY FormParts, FormsConstants
     DEF WalletInv, ApprovalHeard, CreateRefused, Routed, RevertHeard, SubmitThrows
<1>2. {"filling", "approved", "routed"} \subseteq FormStep /\ "nothing" \in Heard
  BY DEF FormStep, Heard
<1>3. /\ Cardinality(Opened(f)) \in Nat /\ Cardinality(Pending(f)) \in Nat
      /\ Submitting(f) => form[f].unheard < form[f].run
      /\ Cardinality(Opened(f)) + Cardinality(Pending(f)) <=
           form[f].unheard + (IF Creates(f) THEN 1 ELSE 0)
  BY <1>1, OpenedFinite, PendingFinite DEF FormOK
<1>4. CASE ApprovalHeard(f)
  <2>1. /\ form[f].step = "approving" /\ form[f].heard = "success"
        /\ Put(f, "approved", form[f].run, "nothing", form[f].page, form[f].unheard)
    BY <1>1, <1>4, TwoPut DEF ApprovalHeard
  <2>2. Submitting(f) /\ ~Creates(f) /\ Backed(f)
    BY <1>1, <2>1 DEF Submitting, Creates, FormOK
  <2>3. QED
    BY <1>1, <1>2, <1>3, <2>1, <2>2, QuietStep
<1>5. CASE CreateRefused(f)
  <2>1. /\ form[f].step = "approved"
        /\ Put(f, "filling", form[f].run, form[f].heard, form[f].page, form[f].unheard)
    BY <1>1, <1>5, StepPuts DEF CreateRefused
  <2>2. Submitting(f) /\ ~Creates(f)
    BY <2>1 DEF Submitting, Creates
  <2>3. QED
    BY <1>1, <1>2, <1>3, <2>1, <2>2, QuietStep
<1>6. CASE Routed(f)
  <2>1. form[f].step = "creating" /\ form[f].heard = "success" /\ form[f].page \in Opened(f)
    BY <1>1, <1>6 DEF Routed, FormOK
  <2>2. Put(f, "routed", form[f].run, form[f].heard, form[f].page, form[f].unheard)
    BY <1>1, <1>6, TwoPut DEF Routed, CreatedId
  <2>3. Submitting(f)
    BY <2>1 DEF Submitting
  <2>4. Cardinality(Opened(f)) + Cardinality(Pending(f)) <= form[f].unheard + 1
    BY <1>1, <1>3
  <2>5. QED
    BY <1>1, <1>2, <1>3, <2>1, <2>2, <2>3, <2>4, QuietStep
<1>7. CASE RevertHeard(f)
  <2>1. /\ Submitting(f) /\ form[f].heard = "reverted"
        /\ Put(f, "filling", form[f].run, form[f].heard, form[f].page, form[f].unheard)
    BY <1>1, <1>7, StepPuts DEF RevertHeard
  <2>2. ~Creates(f)
    BY <2>1 DEF Submitting, Creates
  <2>3. QED
    BY <1>1, <1>2, <1>3, <2>1, <2>2, QuietStep
<1>8. CASE SubmitThrows(f) /\ form[f].step = "creating"
  <2>1. /\ Submitting(f)
        /\ form' = [form EXCEPT ![f].step = "filling",
                                ![f].unheard = IF form[f].step = "creating" THEN @ + 1 ELSE @]
    BY <1>8 DEF SubmitThrows
  <2> DEFINE u == form[f].unheard + 1
  <2>2. form' = [form EXCEPT ![f].step = "filling", ![f].unheard = u]
    BY <1>1, <1>8, <2>1 DEF FormsTyped
  <2>3. /\ u \in 0..Runs /\ u >= form[f].unheard /\ u > 0 /\ u <= form[f].run
        /\ Cardinality(Opened(f)) + Cardinality(Pending(f)) <= u
    <3>1. Submitting(f)
      BY <2>1
    <3>2. form[f].unheard < form[f].run
      BY <1>3, <3>1
    <3>3. Runs \in Nat
      BY FormsConstants
    <3>4. Cardinality(Opened(f)) + Cardinality(Pending(f)) <= form[f].unheard + 1
      BY <1>1, <1>3
    <3>5. QED
      BY <1>1, <3>2, <3>3, <3>4
  <2> HIDE DEF u
  <2>4. Put(f, "filling", form[f].run, form[f].heard, form[f].page, u)
    BY <1>1, <2>2, TwoPut
  <2>5. u \in Nat
    BY <2>3, FormsConstants
  <2>6. QED
    BY <1>1, <1>2, <2>1, <2>3, <2>4, <2>5, QuietStep
<1>9. CASE SubmitThrows(f) /\ form[f].step # "creating"
  <2>1. /\ Submitting(f)
        /\ form' = [form EXCEPT ![f].step = "filling",
                                ![f].unheard = IF form[f].step = "creating" THEN @ + 1 ELSE @]
    BY <1>9 DEF SubmitThrows
  <2> DEFINE u == form[f].unheard
  <2>2. form' = [form EXCEPT ![f].step = "filling", ![f].unheard = u]
    BY <1>1, <1>9, <2>1 DEF FormsTyped
  <2>3. Put(f, "filling", form[f].run, form[f].heard, form[f].page, u)
    BY <1>1, <2>2, TwoPut
  <2>4. ~Creates(f)
    BY <1>9, <2>1 DEF Submitting, Creates
  <2>5. QED
    BY <1>1, <1>2, <1>3, <1>9, <2>1, <2>3, <2>4, QuietStep
<1>10. QED
  BY <1>4, <1>5, <1>6, <1>7, <1>8, <1>9

LEMMA SendCreateKept ==
  ASSUME WalletInv, NEW f \in Forms, SendCreate(f)
  PROVE  WalletInv'
<1> DEFINE r == form[f].run
           tx == [kind |-> "create", form |-> f, run |-> r]
<1>1. /\ FormsTyped /\ SentOK /\ FormOK(f) /\ form[f].step = "approved"
      /\ UNCHANGED <<chainVars, claim, crossed, allowance, records>> /\ crossed \subseteq Forms
  BY DEF WalletInv, SendCreate, chainVars, FormsTyped
<1>2. /\ r \in Nat /\ r \in 0..Runs /\ form[f].page \in Nat /\ form[f].unheard \in Nat
      /\ form[f].unheard \in 0..Runs /\ "creating" \in FormStep /\ form[f].heard \in Heard
  BY <1>1, FormParts DEF FormStep
<1>3. Put(f, "creating", r, form[f].heard, form[f].page, form[f].unheard)
  BY <1>1, StepPuts DEF SendCreate
<1>4. /\ form' \in [Forms -> FormRecord]
      /\ form'[f].step = "creating" /\ form'[f].run = r /\ form'[f].heard = form[f].heard
      /\ form'[f].unheard = form[f].unheard /\ form'[f].target = form[f].target
      /\ \A g \in Forms \ {f} : form'[g] = form[g]
  BY <1>1, <1>2, <1>3, PutMakes
<1>5. form[f].heard = "nothing" /\ Backed(f) /\ Submitting(f) /\ ~Creates(f)
  BY <1>1 DEF FormOK, Submitting, Creates
<1>6. sent' = Append(sent, tx) /\ tx \in TxRecord
  <2>1. sent' = Append(sent, tx)
    BY <1>4 DEF SendCreate, SendTx, Transaction
  <2>2. QED
    BY <1>2, <2>1 DEF TxRecord
<1>7. tx.kind = "create" /\ tx.form = f /\ tx.run = r
  OBVIOUS
<1> HIDE DEF tx
<1>8. ASSUME NEW n \in DOMAIN sent, OfForm(n, f)
      PROVE  Knows(sent[n], form'[f]) /\ sent[n].run # r
  <2>1. Knows(sent[n], form[f])
    BY <1>1, <1>8 DEF SentOK
  <2>2. QED
    BY <1>1, <1>4, <2>1 DEF Knows
<1>9. Knows(tx, form'[f])
  BY <1>2, <1>4, <1>5, <1>7 DEF Knows
<1>10. Pending(f)' = Pending(f) \cup {r}
  BY <1>1, <1>6, <1>7, PendingGrows
<1>11. Cardinality(Pending(f)') <= Cardinality(Pending(f)) + 1
  <2>1. IsFiniteSet(Pending(f)) /\ Cardinality(Pending(f)) \in Nat
    BY <1>1, PendingFinite
  <2>2. \/ Cardinality(Pending(f) \cup {r}) = Cardinality(Pending(f)) + 1
        \/ Cardinality(Pending(f) \cup {r}) = Cardinality(Pending(f))
    BY <2>1, FS_AddElement
  <2>3. QED
    BY <1>10, <2>1, <2>2
<1>12. FormOK(f)'
  <2>1. Opened(f)' = Opened(f) /\ (Covered(f)' <=> Covered(f))
    BY <1>1, <1>4, OpenedStays DEF Target, Covered
  <2>2. Backed(f)'
    BY <1>1, <1>4, <1>5, <2>1 DEF Backed
  <2>3. form'[f].unheard + 1 <= form'[f].run
    BY <1>2, <1>4, <1>5, <1>1 DEF FormOK
  <2>4. Cardinality(Opened(f)') + Cardinality(Pending(f)') <= form'[f].unheard + 1
    <3>1. Cardinality(Opened(f)) + Cardinality(Pending(f)) <= form[f].unheard
      BY <1>1, <1>2, <1>5 DEF FormOK
    <3>2. Cardinality(Opened(f)) \in Nat /\ Cardinality(Pending(f)) \in Nat
      BY <1>1, OpenedFinite, PendingFinite
    <3>3. IsFiniteSet(Pending(f) \cup {r})
      BY <1>1, PendingFinite, FS_AddElement
    <3>4. Cardinality(Pending(f)') \in Nat
      BY <1>10, <3>3, FS_CardinalityType
    <3>5. QED
      BY <1>2, <1>4, <1>11, <2>1, <3>1, <3>2, <3>4
  <2>5. Submitting(f)' /\ Creates(f)'
    BY <1>4, <1>5 DEF Submitting, Creates
  <2>6. QED
    BY <1>4, <1>5, <2>2, <2>3, <2>4, <2>5 DEF FormOK
<1>13. \E x \in TxRecord :
         /\ sent' = Append(sent, x) /\ x.kind # "faucet" /\ x.form = f
         /\ Knows(x, form'[f]) /\ \A n \in DOMAIN sent : OfForm(n, f) => sent[n].run # x.run
  BY <1>6, <1>7, <1>8, <1>9
<1>14. QED
  BY <1>1, <1>4, <1>8, <1>12, <1>13, HandlerStep
-----------------------------------------------------------------------------
(* Steps in which no form moves.                                           *)
LEMMA StillForms ==
  ASSUME WalletInv, form' = form, UNCHANGED <<chainVars, crossed>>, FormsTyped', SentOK',
         \A f \in Forms : Pending(f)' = Pending(f)
  PROVE  WalletInv'
<1>1. UNCHANGED <<allowance, balance, records, hasClaimed>> /\ FormsTyped
  BY DEF chainVars, WalletInv
<1>2. ASSUME NEW f \in Forms PROVE FormOK(f)' /\ WalletOK'
  <2>1. Opened(f)' = Opened(f)
    BY <1>1, OpenedStays DEF Target
  <2>2. Backed(f) => Backed(f)'
    BY <1>1, BackedFrame
  <2>3. FormOK(f)'
    BY <2>1, <2>2, FormFrame DEF WalletInv
  <2>4. QED
    BY <1>1, <2>3, NothingSpent DEF WalletInv
<1>3. WalletOK'
  <2>1. CASE Forms = {}
    BY <1>1, <2>1 DEF WalletInv, WalletOK, SpentOnRecords, Tokens
  <2>2. QED
    BY <1>2, <2>1
<1>4. QED
  BY <1>2, <1>3 DEF WalletInv

LEMMA FaucetKept ==
  ASSUME WalletInv, ClaimTokens \/ ClaimSent \/ ReadHasClaimed
  PROVE  WalletInv'
<1>1. /\ FormsTyped /\ SentOK /\ form' = form /\ UNCHANGED <<chainVars, crossed>>
      /\ UNCHANGED <<allowance, balance, records, hasClaimed>>
  BY DEF WalletInv, ClaimTokens, ClaimSent, ReadHasClaimed, chainVars
<1>2. claim' \in [read : BOOLEAN, pending : BOOLEAN]
  <2> DEFINE R == [read : BOOLEAN, pending : BOOLEAN]
  <2>1. claim \in R /\ hasClaimed \in BOOLEAN
    BY <1>1 DEF FormsTyped
  <2>2. \A m \in R : \A b \in BOOLEAN :
          [m EXCEPT !.pending = TRUE] \in R /\ [m EXCEPT !.read = b] \in R
    OBVIOUS
  <2>3. \A b \in BOOLEAN : [read |-> b, pending |-> FALSE] \in R
    OBVIOUS
  <2> HIDE DEF R
  <2>4. claim' \in R
    BY <2>1, <2>2, <2>3 DEF ClaimTokens, ClaimSent, ReadHasClaimed
  <2>5. QED
    BY <2>4 DEF R
<1>3. CASE sent' = sent
  <2>1. FormsTyped'
    BY <1>1, <1>2, <1>3 DEF FormsTyped
  <2>2. SentOK'
    BY <1>1, <1>3, SentSame DEF SentOK
  <2>3. \A f \in Forms : Pending(f)' = Pending(f)
    BY <1>3, PendingStays
  <2>4. QED
    BY <1>1, <2>1, <2>2, <2>3, StillForms
<1>4. CASE ClaimTokens
  <2> DEFINE tx == [kind |-> "faucet", form |-> Someone, run |-> 0]
  <2>1. tx \in TxRecord /\ tx.kind = "faucet"
    BY FormsConstants DEF TxRecord
  <2>2. sent' = Append(sent, tx)
    BY <1>4 DEF ClaimTokens
  <2> HIDE DEF tx
  <2>3. FormsTyped'
    BY <1>1, <1>2, <2>1, <2>2, SentAppends DEF FormsTyped
  <2>4. \A f \in Forms : Pending(f)' = Pending(f)
    BY <1>1, <2>1, <2>2, PendingGrows
  <2>5. SentOK'
    BY <1>1, <2>1, <2>2, SentMore DEF SentOK
  <2>6. QED
    BY <1>1, <2>3, <2>4, <2>5, StillForms
<1>5. QED
  BY <1>3, <1>4 DEF ClaimSent, ReadHasClaimed

LEMMA OthersKept ==
  ASSUME WalletInv, NEW t \in Contracts, OthersCreate(t)
  PROVE  WalletInv'
<1>1. /\ FormsTyped /\ SentOK /\ WalletOK /\ form' = form /\ sent' = sent
      /\ UNCHANGED <<allowance, balance, hasClaimed, claim, crossed>>
      /\ records' = [records EXCEPT ![t] = Append(@, Someone)]
      /\ \E f \in Forms : Target(f) = t
  BY DEF WalletInv, OthersCreate
<1>2. ASSUME NEW f \in Forms
      PROVE  Opened(f)' = Opened(f) /\ records' \in [Contracts -> Seq(Forms \cup {Someone})]
  <2>1. Target(f)' = Target(f) /\ Someone # f
    BY <1>1, FormsConstants DEF Target
  <2>2. QED
    BY <1>1, <2>1, OpenedGrows
<1>3. FormsTyped'
  BY <1>1, <1>2 DEF FormsTyped
<1>4. ASSUME NEW f \in Forms PROVE FormOK(f)'
  <2>1. Pending(f)' = Pending(f)
    BY <1>1, PendingStays
  <2>2. Backed(f) => Backed(f)'
    BY <1>1, BackedFrame
  <2>3. QED
    BY <1>1, <1>2, <2>1, <2>2, FormFrame DEF WalletInv
<1>5. SentOK'
  BY <1>1, SentSame DEF SentOK
<1>6. WalletOK'
  <2>1. PICK f \in Forms : Target(f) = t
    BY <1>1
  <2>2. ASSUME NEW g \in Forms PROVE Spent(g)' = Spent(g)
    BY <1>1, <1>2 DEF Spent, Target
  <2>3. Spent(f)' \in Nat /\ Tokens' = Tokens
    BY <1>1, <2>2, SpentIs DEF Tokens
  <2>4. QED
    BY <1>1, <1>3, <2>2, <2>3, WalletKept
<1>7. QED
  BY <1>3, <1>4, <1>5, <1>6 DEF WalletInv
-----------------------------------------------------------------------------
(* The first transaction is mined.                                         *)
LEMMA HeadOfSent ==
  ASSUME WalletInv, sent # <<>>, sent' = Tail(sent)
  PROVE  /\ Head(sent) = sent[1] /\ sent[1] \in TxRecord /\ 1 \in DOMAIN sent
         /\ sent[1].kind \in {"approve", "create", "faucet"}
         /\ sent' \in Seq(TxRecord)
         /\ sent[1].kind # "faucet" =>
              /\ sent[1].form \in Forms /\ OfForm(1, sent[1].form)
              /\ Knows(sent[1], form[sent[1].form])
<1>1. /\ Head(sent) = sent[1] /\ sent[1] \in TxRecord /\ 1 \in DOMAIN sent
      /\ sent' \in Seq(TxRecord)
  BY SentShrinks DEF WalletInv
<1>2. sent[1].kind \in {"approve", "create", "faucet"}
  BY <1>1 DEF TxRecord
<1>3. sent[1].kind # "faucet" =>
        /\ sent[1].form \in Forms /\ OfForm(1, sent[1].form)
        /\ Knows(sent[1], form[sent[1].form])
  BY <1>1 DEF WalletInv, SentOK, OfForm
<1>4. QED
  BY <1>1, <1>2, <1>3

LEMMA ReceiptPuts ==
  ASSUME FormsTyped, NEW tx, tx.form \in Forms, NEW status \in Heard, NEW id \in Nat,
         ReceiptFor(tx, status, id)
  PROVE  LET f == tx.form IN
         /\ form' \in [Forms -> FormRecord]
         /\ form'[f].step = form[f].step /\ form'[f].run = form[f].run
         /\ form'[f].unheard = form[f].unheard
         /\ \A g \in Forms \ {f} : form'[g] = form[g]
         /\ \A g \in Forms : form'[g].target = form[g].target
         /\ form[f].run = tx.run /\ Submitting(f) =>
              form'[f].heard = status /\ form'[f].page = id
         /\ ~(form[f].run = tx.run /\ Submitting(f)) => form' = form
<1> DEFINE f == tx.form
<1>1. f \in Forms
  OBVIOUS
<1>2. \/ form[f].run = tx.run /\ Submitting(f)
         /\ form' = [form EXCEPT ![f].heard = status, ![f].page = id]
      \/ ~(form[f].run = tx.run /\ Submitting(f)) /\ form' = form
  BY DEF ReceiptFor
<1> HIDE DEF f
<1>3. CASE form' = form
  <2>1. ASSUME form[f].run = tx.run /\ Submitting(f)
        PROVE  form'[f].heard = status /\ form'[f].page = id
    <3>1. form' = [form EXCEPT ![f].heard = status, ![f].page = id]
      BY <1>2, <2>1
    <3>2. Put(f, form[f].step, form[f].run, status, id, form[f].unheard)
      BY <1>1, <3>1, TwoPut
    <3>3. form[f].step \in FormStep /\ form[f].run \in 0..Runs /\ form[f].unheard \in 0..Runs
      BY <1>1, FormParts
    <3>4. QED
      BY <1>1, <3>2, <3>3, PutMakes
  <2>2. QED
    BY <1>1, <1>2, <1>3, <2>1 DEF FormsTyped, f
<1>4. CASE form' # form
  <2>1. /\ form[f].run = tx.run /\ Submitting(f)
        /\ form' = [form EXCEPT ![f].heard = status, ![f].page = id]
    BY <1>2, <1>4
  <2>2. Put(f, form[f].step, form[f].run, status, id, form[f].unheard)
    BY <1>1, <2>1, TwoPut
  <2>3. form[f].step \in FormStep /\ form[f].run \in 0..Runs /\ form[f].unheard \in 0..Runs
    BY <1>1, FormParts
  <2>4. /\ form' \in [Forms -> FormRecord]
        /\ form'[f].step = form[f].step /\ form'[f].run = form[f].run
        /\ form'[f].unheard = form[f].unheard
        /\ \A g \in Forms \ {f} : form'[g] = form[g]
        /\ \A g \in Forms : form'[g].target = form[g].target
        /\ form'[f].heard = status /\ form'[f].page = id
    BY <1>1, <2>2, <2>3, PutMakes
  <2>5. QED
    BY <1>4, <2>4, <1>2 DEF f
<1>5. QED
  BY <1>3, <1>4

LEMMA MinedSent ==
  ASSUME WalletInv, sent # <<>>, sent' = Tail(sent), sent[1].kind # "faucet",
         NEW status \in Heard, NEW id \in Nat, ReceiptFor(sent[1], status, id)
  PROVE  SentOK'
<1> DEFINE tx == sent[1]
           f == tx.form
<1>1. FormsTyped /\ SentOK /\ 1 \in DOMAIN sent /\ f \in Forms /\ OfForm(1, f)
  BY HeadOfSent DEF WalletInv
<1>2. /\ form'[f].step = form[f].step /\ form'[f].run = form[f].run
      /\ form'[f].unheard = form[f].unheard
      /\ \A g \in Forms \ {f} : form'[g] = form[g]
      /\ ~(form[f].run = tx.run /\ Submitting(f)) => form' = form
  BY <1>1, ReceiptPuts
<1>3. ASSUME NEW n \in DOMAIN sent, n # 1, OfForm(n, f)
      PROVE  Knows(sent[n], form'[f])
  <2>1. Knows(sent[n], form[f]) /\ sent[n].run # tx.run
    BY <1>1, <1>3 DEF SentOK, Alone
  <2>2. QED
    BY <1>2, <2>1 DEF Knows
<1> HIDE DEF f
<1>4. QED
  BY <1>1, <1>2, <1>3, SentLess

(* The forms that share the allowance know that it may have changed.       *)
LEMMA CrossesBack ==
  ASSUME FormsTyped, NEW f \in Forms, Crosses(f), NEW g \in Forms, g # f, form'[g] = form[g],
         \A t \in Contracts : t # Target(f) => allowance'[t] = allowance[t]
  PROVE  /\ crossed' \subseteq Forms
         /\ Submitting(g) /\ Backed(g) => Backed(g)'
<1>1. crossed \subseteq crossed' /\ crossed' \subseteq Forms
  BY DEF Crosses, FormsTyped
<1>2. Target(g) = Target(f) /\ Submitting(g) => g \in crossed'
  BY DEF Crosses
<1>3. Target(g) # Target(f) => allowance'[Target(g)] = allowance[Target(g)]
  BY FormParts
<1>4. QED
  BY <1>1, <1>2, <1>3 DEF Backed, Covered, Target

LEMMA MineApproveKept ==
  ASSUME WalletInv, sent # <<>>, sent' = Tail(sent), NEW tx, tx = sent[1], NEW f, f = tx.form,
         MineApprove(tx)
  PROVE  WalletInv'
<1> DEFINE u == Target(f)
<1>1. /\ FormsTyped /\ SentOK /\ WalletOK /\ \A g \in Forms : FormOK(g)
      /\ tx.kind = "approve" /\ f \in Forms /\ Knows(tx, form[f]) /\ sent' \in Seq(TxRecord)
  BY HeadOfSent DEF WalletInv, MineApprove
<1>2. /\ UNCHANGED <<balance, records, hasClaimed, claim>>
      /\ allowance' = [allowance EXCEPT ![u] = Need[f]]
      /\ ReceiptFor(tx, "success", 0) /\ Crosses(f)
  BY DEF MineApprove
<1>3. "success" \in Heard /\ 0 \in Nat
  BY DEF Heard
<1>4. SentOK'
  BY <1>1, <1>2, <1>3, MinedSent
<1>5. /\ form' \in [Forms -> FormRecord]
      /\ form'[f].step = form[f].step /\ form'[f].run = form[f].run
      /\ form'[f].unheard = form[f].unheard
      /\ \A g \in Forms \ {f} : form'[g] = form[g]
      /\ \A g \in Forms : form'[g].target = form[g].target
      /\ form[f].run = tx.run /\ Submitting(f) => form'[f].heard = "success" /\ form'[f].page = 0
      /\ ~(form[f].run = tx.run /\ Submitting(f)) => form' = form
  BY <1>1, <1>2, <1>3, ReceiptPuts
<1>6. u \in Contracts /\ Need[f] \in Nat /\ Need[f] >= Need[f]
  BY <1>1, FormParts, FormsConstants
<1> HIDE DEF u
<1>7. /\ allowance' \in [Contracts -> Nat] /\ allowance'[u] = Need[f]
      /\ \A t \in Contracts : t # u => allowance'[t] = allowance[t]
  BY <1>1, <1>2, <1>6 DEF FormsTyped
<1>8. crossed' \subseteq Forms
  BY <1>1, <1>2 DEF FormsTyped, Crosses
<1>9. FormsTyped'
  BY <1>1, <1>2, <1>5, <1>7, <1>8 DEF FormsTyped
<1>10. \A g \in Forms : Opened(g)' = Opened(g) /\ Pending(g)' = Pending(g)
  <2>1. ASSUME NEW g \in Forms PROVE Opened(g)' = Opened(g)
    BY <1>2, <1>5, OpenedStays DEF Target
  <2>2. ASSUME NEW g \in Forms PROVE Pending(g)' = Pending(g)
    BY <1>1, PendingShrinks
  <2>3. QED
    BY <2>1, <2>2
<1>11. ASSUME NEW g \in Forms, g # f PROVE FormOK(g)'
  <2>1. form'[g] = form[g]
    BY <1>5, <1>11
  <2>2. Submitting(g) /\ Backed(g) => Backed(g)'
    BY <1>1, <1>2, <1>7, <1>11, <2>1, CrossesBack DEF u
  <2>3. QED
    BY <1>1, <1>10, <2>1, <2>2, FormFrame
<1>12. FormOK(f)'
  <2>1. Backed(f)'
    BY <1>5, <1>6, <1>7, <1>1 DEF Backed, Covered, Target, u
  <2>2. CASE form' = form
    BY <1>1, <1>10, <2>1, <2>2, FormFrame
  <2>3. CASE form' # form
    <3>1. /\ form[f].run = tx.run /\ Submitting(f)
          /\ form'[f].heard = "success" /\ form'[f].page = 0
      BY <1>5, <2>3
    <3>2. form[f].step = "approving"
      BY <1>1, <3>1 DEF Knows, Submitting
    <3>3. FormOK(f)
      BY <1>1
    <3>4. QED
      BY <1>5, <1>10, <1>1, <2>1, <3>1, <3>2, <3>3 DEF FormOK, Submitting, Creates
  <2>4. QED
    BY <2>2, <2>3
<1>13. WalletOK'
  BY <1>1, <1>2, <1>5, <1>9, NothingSpent
<1>14. QED
  BY <1>4, <1>9, <1>11, <1>12, <1>13 DEF WalletInv

LEMMA MineFaucetKept ==
  ASSUME WalletInv, sent # <<>>, sent' = Tail(sent), MineFaucet(sent[1])
  PROVE  WalletInv'
<1>1. /\ FormsTyped /\ SentOK /\ WalletOK /\ \A g \in Forms : FormOK(g)
      /\ sent[1].kind = "faucet" /\ sent' \in Seq(TxRecord)
      /\ hasClaimed' = TRUE /\ UNCHANGED <<form, allowance, records, claim, crossed>>
      /\ balance' = IF hasClaimed THEN balance ELSE balance + FAUCET_CAP
      /\ balance \in Nat /\ hasClaimed \in BOOLEAN
  BY HeadOfSent DEF WalletInv, MineFaucet, FormsTyped
<1>2. balance' \in Nat
  BY <1>1, FormsConstants
<1>3. FormsTyped'
  BY <1>1, <1>2 DEF FormsTyped
<1>4. SentOK'
  BY <1>1, FormsConstants, SentLess DEF SentOK
<1>5. ASSUME NEW g \in Forms PROVE FormOK(g)' /\ Spent(g)' = Spent(g)
  <2>1. Opened(g)' = Opened(g) /\ Pending(g)' = Pending(g)
    BY <1>1, OpenedStays, PendingShrinks DEF Target
  <2>2. Backed(g) => Backed(g)'
    BY <1>1, BackedFrame
  <2>3. QED
    BY <1>1, <2>1, <2>2, FormFrame DEF Spent, Target
<1>6. WalletOK'
  <2> DEFINE l == [g \in Forms |-> Spent(g)]
  <2>1. SpentOnRecords' = SpentOnRecords
    BY <1>5 DEF SpentOnRecords
  <2>2. SpentOnRecords \in Int
    <3>1. \A g \in Forms : l[g] \in Int
      <4>1. \A g \in Forms : Spent(g) \in Nat
        BY <1>1, SpentIs
      <4>2. QED
        BY <4>1
    <3> HIDE DEF l
    <3>2. SumFunctionOnSet(l, Forms) \in Int
      BY <3>1, FormsConstants, SumInt
    <3>3. QED
      BY <3>2 DEF SpentOnRecords, l
  <2> HIDE DEF l
  <2>3. QED
    BY <1>1, <1>2, <2>1, <2>2, FormsConstants DEF WalletOK, Tokens
<1>7. QED
  BY <1>3, <1>4, <1>5, <1>6 DEF WalletInv

LEMMA OneMore == \A n, c \in Nat : n * (c + 1) = n * c + n /\ n * c \in Nat
  OBVIOUS

LEMMA MineCreateKept ==
  ASSUME WalletInv, sent # <<>>, sent' = Tail(sent), NEW tx, tx = sent[1], NEW f, f = tx.form,
         MineCreate(tx)
  PROVE  WalletInv'
<1> DEFINE u == Target(f)
           k == Len(records[u]) + 1
           waits == form[f].run = tx.run /\ Submitting(f)
<1>1. /\ FormsTyped /\ SentOK /\ WalletOK /\ \A g \in Forms : FormOK(g)
      /\ tx.kind = "create" /\ f \in Forms /\ Knows(tx, form[f]) /\ sent' \in Seq(TxRecord)
      /\ UNCHANGED <<hasClaimed, claim>> /\ Crosses(f)
  BY HeadOfSent DEF WalletInv, MineCreate
<1>2. \/ /\ Covered(f) /\ Affordable(f)
         /\ records' = [records EXCEPT ![u] = Append(@, f)]
         /\ ReceiptFor(tx, "success", k)
         /\ IF u \in ByValue THEN UNCHANGED <<allowance, balance>>
            ELSE /\ allowance' = [allowance EXCEPT ![u] = @ - Need[f]]
                 /\ balance' = balance - Need[f]
      \/ ReceiptFor(tx, "reverted", 0) /\ UNCHANGED <<records, allowance, balance>>
  BY DEF MineCreate
<1>3. /\ u \in Contracts /\ Need[f] \in Nat /\ k \in Nat /\ records[u] \in Seq(Forms \cup {Someone})
      /\ allowance[u] \in Nat /\ balance \in Nat
  BY <1>1, FormParts, FormsConstants DEF FormsTyped
<1>4. crossed' \subseteq Forms /\ crossed \subseteq crossed'
  BY <1>1 DEF FormsTyped, Crosses
<1>5. /\ waits => form[f].step = "creating" /\ form[f].heard = "nothing"
      /\ ~waits => form[f].unheard > 0
  BY <1>1 DEF Knows, Submitting
<1>6. PICK h \in {"success", "reverted"}, p \in Nat : ReceiptFor(tx, h, p)
  BY <1>2, <1>3
<1>7. /\ form' \in [Forms -> FormRecord]
      /\ form'[f].step = form[f].step /\ form'[f].run = form[f].run
      /\ form'[f].unheard = form[f].unheard
      /\ \A g \in Forms \ {f} : form'[g] = form[g]
      /\ \A g \in Forms : form'[g].target = form[g].target
  BY <1>1, <1>6, ReceiptPuts DEF Heard
<1>8. SentOK'
  BY <1>1, <1>6, MinedSent DEF Heard
<1>9. /\ tx.run \in Pending(f) /\ Pending(f)' = Pending(f) \ {tx.run}
      /\ \A g \in Forms \ {f} : Pending(g)' = Pending(g)
  BY <1>1, PendingShrinks
<1>10. /\ Cardinality(Pending(f)) \in Nat /\ Cardinality(Pending(f)') = Cardinality(Pending(f)) - 1
       /\ Cardinality(Opened(f)) \in Nat
  <2>1. /\ IsFiniteSet(Pending(f)) /\ Cardinality(Pending(f)) \in Nat
        /\ Cardinality(Opened(f)) \in Nat
    BY <1>1, PendingFinite, OpenedFinite
  <2>2. Cardinality(Pending(f) \ {tx.run}) = Cardinality(Pending(f)) - 1
    BY <1>9, <2>1, FS_RemoveElement
  <2>3. QED
    BY <1>9, <2>1, <2>2
<1>11. form[f].unheard \in Nat
  BY <1>1, FormParts
<1> HIDE DEF u, k, waits
<1>12. CASE ReceiptFor(tx, "reverted", 0) /\ UNCHANGED <<records, allowance, balance>>
  <2>1. /\ waits => form'[f].heard = "reverted" /\ form'[f].page = 0
        /\ ~waits => form' = form
    BY <1>1, <1>12, ReceiptPuts DEF Heard, waits
  <2>2. FormsTyped'
    BY <1>1, <1>4, <1>7, <1>12 DEF FormsTyped
  <2>3. \A g \in Forms : Opened(g)' = Opened(g)
    BY <1>7, <1>12, OpenedStays DEF Target
  <2>4. \A g \in Forms : Backed(g) => Backed(g)'
    BY <1>4, <1>7, <1>12, BackedFrame
  <2>5. ASSUME NEW g \in Forms, g # f PROVE FormOK(g)'
    BY <1>1, <1>7, <1>9, <2>3, <2>4, <2>5, FormFrame
  <2>6. FormOK(f)'
    <3>1. FormOK(f)
      BY <1>1
    <3>2. Cardinality(Opened(f)') + Cardinality(Pending(f)') <=
            form[f].unheard + (IF Creates(f) THEN 1 ELSE 0) - 1
      <4>1. Opened(f)' = Opened(f)
        BY <1>1, <2>3
      <4>2. Cardinality(Opened(f)) + Cardinality(Pending(f)) <=
              form[f].unheard + (IF Creates(f) THEN 1 ELSE 0)
        BY <3>1 DEF FormOK
      <4>3. QED
        BY <1>10, <1>11, <4>1, <4>2
    <3>3. CASE waits
      <4>1. Creates(f) /\ Submitting(f)
        BY <1>5, <3>3 DEF Creates, Submitting
      <4>2. Backed(f)
        BY <1>5, <3>1, <3>3 DEF FormOK
      <4>3. Backed(f)'
        BY <1>1, <2>4, <4>2
      <4>4. QED
        BY <1>5, <1>7, <1>11, <2>1, <3>1, <3>2, <3>3, <4>1, <4>3 DEF FormOK, Creates, Submitting
    <3>4. CASE ~waits
      <4>1. form' = form /\ Opened(f)' = Opened(f) /\ (Backed(f) => Backed(f)')
        BY <1>1, <2>1, <2>3, <2>4, <3>4
      <4>2. (Creates(f)' <=> Creates(f)) /\ (Submitting(f)' <=> Submitting(f))
        BY <4>1 DEF Creates, Submitting
      <4>3. Cardinality(Opened(f)') + Cardinality(Pending(f)') <=
              form'[f].unheard + (IF Creates(f)' THEN 1 ELSE 0)
        <5>1. Cardinality(Pending(f)') \in Int /\ Cardinality(Opened(f)') \in Int
          BY <1>10, <4>1
        <5>2. CASE Creates(f)
          BY <1>11, <3>2, <4>1, <4>2, <5>1, <5>2
        <5>3. CASE ~Creates(f)
          BY <1>11, <3>2, <4>1, <4>2, <5>1, <5>3
        <5>4. QED
          BY <5>2, <5>3
      <4>4. QED
        BY <3>1, <4>1, <4>2, <4>3 DEF FormOK
    <3>5. QED
      BY <3>3, <3>4
  <2>7. WalletOK'
    BY <1>1, <1>7, <1>12, <2>2, NothingSpent
  <2>8. QED
    BY <1>8, <2>2, <2>5, <2>6, <2>7 DEF WalletInv
<1>13. CASE /\ Covered(f) /\ Affordable(f)
            /\ records' = [records EXCEPT ![u] = Append(@, f)]
            /\ ReceiptFor(tx, "success", k)
            /\ IF u \in ByValue THEN UNCHANGED <<allowance, balance>>
               ELSE /\ allowance' = [allowance EXCEPT ![u] = @ - Need[f]]
                    /\ balance' = balance - Need[f]
  <2>1. /\ waits => form'[f].heard = "success" /\ form'[f].page = k
        /\ ~waits => form' = form
    BY <1>1, <1>3, <1>13, ReceiptPuts DEF Heard, waits
  <2>2. /\ records' \in [Contracts -> Seq(Forms \cup {Someone})]
        /\ Opened(f)' = Opened(f) \cup {k} /\ k \notin Opened(f)
        /\ \A g \in Forms : g # f => Opened(g)' = Opened(g)
    <3>1. ASSUME NEW g \in Forms PROVE Target(g)' = Target(g)
      BY <1>7 DEF Target
    <3>2. f \in Forms \cup {Someone}
      BY <1>1
    <3>3. QED
      BY <1>1, <1>3, <1>13, <3>1, <3>2, OpenedGrows DEF u, k
  <2>3. /\ Cardinality(Opened(f)') = Cardinality(Opened(f)) + 1
    <3>1. IsFiniteSet(Opened(f))
      BY <1>1, OpenedFinite
    <3>2. QED
      <4>1. Cardinality(Opened(f) \cup {k}) = Cardinality(Opened(f)) + 1
        BY <2>2, <3>1, FS_AddElement
      <4>2. QED
        BY <2>2, <4>1
  <2>4. u \notin ByValue => allowance[u] >= Need[f] /\ balance >= Need[f]
    BY <1>13 DEF Covered, Affordable, u
  <2>5. /\ allowance' \in [Contracts -> Nat] /\ balance' \in Nat
        /\ \A t \in Contracts : t # u => allowance'[t] = allowance[t]
    <3>1. CASE u \in ByValue
      BY <1>1, <1>13, <3>1 DEF FormsTyped
    <3>2. CASE u \notin ByValue
      <4>1. allowance[u] - Need[f] \in Nat /\ balance - Need[f] \in Nat
        BY <1>3, <2>4, <3>2
      <4>2. QED
        BY <1>1, <1>3, <1>13, <3>2, <4>1 DEF FormsTyped
    <3>3. QED
      BY <3>1, <3>2
  <2>6. FormsTyped'
    BY <1>1, <1>4, <1>7, <2>2, <2>5 DEF FormsTyped
  <2>7. ASSUME NEW g \in Forms, g # f PROVE FormOK(g)'
    <3>1. form'[g] = form[g]
      BY <1>7, <2>7
    <3>2. Submitting(g) /\ Backed(g) => Backed(g)'
      BY <1>1, <2>5, <2>7, <3>1, CrossesBack DEF u
    <3>3. QED
      BY <1>1, <1>9, <2>2, <2>7, <3>1, <3>2, FormFrame
  <2>8. FormOK(f)'
    <3>1. FormOK(f)
      BY <1>1
    <3>2. Cardinality(Opened(f)') + Cardinality(Pending(f)') <=
            form[f].unheard + (IF Creates(f) THEN 1 ELSE 0)
      BY <1>10, <1>11, <2>3, <3>1, <1>1 DEF FormOK
    <3>3. CASE waits
      BY <1>5, <1>7, <1>11, <2>1, <2>2, <3>1, <3>2, <3>3 DEF FormOK, Creates, Submitting
    <3>4. CASE ~waits
      <4>1. Backed(f)'
        BY <1>5, <1>7, <3>4 DEF Backed
      <4>2. QED
        BY <1>1, <1>11, <2>1, <2>2, <3>1, <3>2, <3>4, <4>1 DEF FormOK, Creates, Submitting
    <3>5. QED
      BY <3>3, <3>4
  <2>9. WalletOK'
    <3>1. Target(f)' = u /\ \A g \in Forms : g # f => Target(g)' = Target(g)
      BY <1>1, <1>7 DEF Target, u
    <3>2. \A g \in Forms \ {f} : Spent(g)' = Spent(g)
      BY <2>2, <3>1 DEF Spent
    <3>3. Tokens' = Tokens /\ Tokens \in Nat
      BY <1>1, FormsConstants DEF Tokens, FormsTyped
    <3>4. CASE u \in ByValue
      <4>1. Spent(f)' = 0 /\ Spent(f) = 0 /\ balance' = balance
        BY <1>13, <3>1, <3>4 DEF Spent, u
      <4>2. QED
        BY <1>1, <2>6, <3>2, <3>3, <4>1, WalletKept
    <3>5. CASE u \notin ByValue
      <4> DEFINE c == Cardinality(Opened(f))
      <4>1. Spent(f)' = Need[f] * (c + 1) /\ Spent(f) = Need[f] * c /\ balance' = balance - Need[f]
        BY <1>13, <2>3, <3>1, <3>5 DEF Spent, u
      <4>2. c \in Nat
        BY <1>10
      <4> HIDE DEF c
      <4>3. Spent(f)' = Spent(f) + Need[f] /\ Spent(f) \in Nat
        <5>1. Need[f] \in Nat
          BY <1>3
        <5>2. Need[f] * (c + 1) = Need[f] * c + Need[f] /\ Need[f] * c \in Nat
          BY <4>2, <5>1, OneMore
        <5>3. QED
          BY <4>1, <5>2
      <4>4. Spent(f)' \in Nat /\ Spent(f)' + balance' + Tokens = Spent(f) + balance + Tokens'
        <5>1. balance' = balance - Need[f]
          BY <4>1
        <5>2. Need[f] \in Nat /\ balance \in Nat
          BY <1>3
        <5>3. Spent(f)' = Spent(f) + Need[f] /\ Spent(f) \in Nat
          BY <4>3
        <5>4. Spent(f)' \in Nat
          BY <5>2, <5>3
        <5>5. Spent(f)' + balance' = Spent(f) + balance
          BY <5>1, <5>2, <5>3
        <5>6. QED
          BY <3>3, <5>4, <5>5
      <4>5. QED
        BY <1>1, <2>6, <3>2, <4>4, WalletKept
    <3>6. QED
      BY <3>4, <3>5
  <2>10. QED
    BY <1>8, <2>6, <2>7, <2>8, <2>9 DEF WalletInv
<1>14. QED
  BY <1>2, <1>12, <1>13
-----------------------------------------------------------------------------
LEMMA WalletStart == SiteInit => WalletInv
<1> SUFFICES ASSUME SiteInit PROVE WalletInv
  OBVIOUS
<1>1. PICK target \in Tabs : form = [f \in Forms |-> Blank(target[f])]
  <2>1. [f \in Forms |-> "escrow"] \in Tabs
    BY ContractsAre DEF Tabs
  <2>2. (CHOOSE t \in Tabs : TRUE) \in Tabs
    BY <2>1
  <2>3. QED
    BY <2>2 DEF SiteInit, FormsInit
<1>2. /\ sent = <<>> /\ allowance = [t \in Contracts |-> 0] /\ balance = 0
      /\ records = [t \in Contracts |-> <<>>] /\ hasClaimed = FALSE
      /\ claim = [read |-> FALSE, pending |-> FALSE] /\ crossed = {}
  BY DEF SiteInit, FormsInit
<1>3. ASSUME NEW f \in Forms
      PROVE  /\ form[f] \in FormRecord /\ Target(f) \in Contracts
             /\ form[f].step = "filling" /\ form[f].run = 0 /\ form[f].unheard = 0
  <2> DEFINE t == target[f]
  <2>1. form[f] = Blank(t) /\ t \in Contracts
    BY <1>1 DEF Tabs
  <2> HIDE DEF t
  <2>2. Blank(t) \in FormRecord
    BY <2>1, FormsConstants DEF Blank, FormRecord, FormStep, Heard
  <2>3. QED
    BY <2>1, <2>2 DEF Target, Blank
<1>4. FormsTyped
  <2>1. form \in [Forms -> FormRecord]
    BY <1>1, <1>3
  <2>2. <<>> \in Seq(Forms \cup {Someone}) /\ <<>> \in Seq(TxRecord)
    OBVIOUS
  <2>3. QED
    BY <1>2, <2>1, <2>2 DEF FormsTyped
<1>5. SentOK
  BY <1>2 DEF SentOK, Alone
<1>6. ASSUME NEW f \in Forms
      PROVE  /\ Opened(f) = {} /\ Pending(f) = {} /\ Cardinality(Opened(f)) = 0
             /\ Cardinality(Pending(f)) = 0
  <2>1. records[Target(f)] = <<>>
    BY <1>2, <1>3
  <2>2. Opened(f) = {} /\ Pending(f) = {}
    BY <1>2, <2>1 DEF Opened, Pending
  <2>3. QED
    BY <2>2, FS_EmptySet
<1>7. ASSUME NEW f \in Forms PROVE FormOK(f)
  BY <1>3, <1>6 DEF FormOK, Submitting, Creates
<1>8. WalletOK
  <2> DEFINE l == [f \in Forms |-> Spent(f)]
  <2>1. \A f \in Forms : l[f] = 0
    <3>1. ASSUME NEW f \in Forms PROVE Spent(f) = 0
      <4>1. Need[f] * 0 = 0
        BY FormsConstants
      <4>2. QED
        BY <1>6, <4>1 DEF Spent
    <3>2. QED
      BY <3>1
  <2> HIDE DEF l
  <2>2. SumFunctionOnSet(l, Forms) = 0
    BY <2>1, FormsConstants, SumZero
  <2>3. QED
    BY <1>2, <2>2 DEF WalletOK, SpentOnRecords, Tokens, l
<1>9. QED
  BY <1>4, <1>5, <1>7, <1>8 DEF WalletInv

LEMMA WalletMoves == ASSUME WalletInv, FormsNext PROVE WalletInv'
<1>1. ASSUME NEW f \in Forms, HandleSubmit(f) PROVE WalletInv'
  BY <1>1, SubmitKept
<1>2. ASSUME NEW f \in Forms, HandlerGoesOn(f) PROVE WalletInv'
  BY <1>2, SendCreateKept, GoesOnKept DEF HandlerGoesOn
<1>3. CASE ClaimTokens \/ ClaimSent \/ ReadHasClaimed
  BY <1>3, FaucetKept
<1>4. CASE Mine
  <2>1. sent # <<>> /\ sent' = Tail(sent) /\ Head(sent) = sent[1]
    BY <1>4, HeadOfSent DEF Mine
  <2> DEFINE tx == sent[1]
  <2>2. MineApprove(tx) \/ MineCreate(tx) \/ MineFaucet(tx)
    BY <1>4, <2>1 DEF Mine
  <2>3. QED
    BY <2>1, <2>2, MineApproveKept, MineCreateKept, MineFaucetKept
<1>5. ASSUME NEW t \in Contracts, OthersCreate(t) PROVE WalletInv'
  BY <1>5, OthersKept
<1>6. QED
  BY <1>1, <1>2, <1>3, <1>4, <1>5 DEF FormsNext

LEMMA WalletStands == ASSUME WalletInv, UNCHANGED formsVars PROVE WalletInv'
<1>1. FormsTyped /\ SentOK /\ form' = form /\ sent' = sent
      /\ UNCHANGED <<chainVars, crossed, claim>>
  BY DEF formsVars, chainVars, WalletInv
<1>2. FormsTyped'
  BY <1>1 DEF FormsTyped, chainVars
<1>3. SentOK'
  BY <1>1, SentSame DEF SentOK
<1>4. \A f \in Forms : Pending(f)' = Pending(f)
  BY <1>1, PendingStays
<1>5. QED
  BY <1>1, <1>2, <1>3, <1>4, StillForms

LEMMA WalletKeeps == ASSUME WalletInv, [SiteNext]_siteVars PROVE WalletInv'
<1>1. \/ FormsNext \/ (\E f \in Forms : SubmitThrows(f)) \/ UNCHANGED formsVars
  BY DEF SiteNext, OpeningRecords, HavingACase, siteVars
<1>2. QED
  BY <1>1, WalletMoves, GoesOnKept, WalletStands

LEMMA WalletAlways == SiteSpec => []WalletInv
<1>1. SiteInit => WalletInv
  BY WalletStart
<1>2. WalletInv /\ [SiteNext]_siteVars => WalletInv'
  BY WalletKeeps
<1>3. QED
  BY <1>1, <1>2, PTL DEF SiteSpec

(* Whatever is pressed in whichever tab, given up, mined late or opened by *)
(* others meanwhile, a form goes to the page of a record it opened itself; *)
(* it opens one, and one more only for each receipt it did not hear; and   *)
(* what the wallet holds and what its records hold is what the faucet gave *)
(* it (FundingForms!FormsInv; new/page.tsx of the three forms, runTx,      *)
(* createdIdFromReceipt, vusdc-faucet.tsx).                                *)
THEOREM FormsSound == SiteSpec => []FormsInv
<1>1. WalletInv => FormsInv
  <2> SUFFICES ASSUME WalletInv PROVE FormsInv
    OBVIOUS
  <2>1. FormsTyped /\ WalletOK
    BY DEF WalletInv
  <2>2. ASSUME NEW f \in Forms
        PROVE  /\ form[f].step = "routed" => form[f].page \in Opened(f)
               /\ Cardinality(Opened(f)) <= 1 + form[f].unheard
    <3>1. FormOK(f) /\ form[f].unheard \in Nat
      BY <2>1, FormParts DEF WalletInv
    <3>2. Cardinality(Opened(f)) \in Nat /\ Cardinality(Pending(f)) \in Nat
      BY <2>1, OpenedFinite, PendingFinite
    <3>3. QED
      BY <3>1, <3>2 DEF FormOK
  <2>3. FormsTypeOK
    BY <2>1, FormParts DEF FormsTyped, FormsTypeOK, Target
  <2>4. QED
    BY <2>1, <2>2, <2>3 DEF FormsInv, WalletOK, Tokens
<1>2. QED
  BY <1>1, WalletAlways, PTL

Turned ==
  \A f \in Forms :
    form[f].step \in {"approved", "creating"} /\ form'[f].step = "filling" /\ ~Covered(f)
      /\ (form[f].step = "approved" \/ form[f].heard = "reverted")
    => f \in crossed \/ form[f].unheard > 0

(* A submission is turned down for want of an allowance only if another    *)
(* form of the wallet, or a transaction the form lost sight of, used it    *)
(* (FundingForms!ApprovedInTime; runTx with waitFor, use-write.ts).        *)
THEOREM ApprovalsArrive == SiteSpec => ApprovedInTime
<1>1. WalletInv => Turned
  <2> SUFFICES ASSUME WalletInv, NEW f \in Forms, ~Covered(f),
                      \/ form[f].step = "approved"
                      \/ form[f].step = "creating" /\ form[f].heard = "reverted"
               PROVE  f \in crossed \/ form[f].unheard > 0
    BY DEF Turned, WalletInv, FormOK
  <2>1. Backed(f)
    BY DEF WalletInv, FormOK
  <2>2. QED
    BY <2>1 DEF Backed
<1>2. SiteSpec => [][Turned]_formsVars
  <2> HIDE DEF Turned
  <2>1. QED
    BY <1>1, WalletAlways, PTL
<1>3. QED
  BY <1>2 DEF ApprovedInTime, Turned
=============================================================================
