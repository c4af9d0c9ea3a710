------------------------------ MODULE Inference ------------------------------
(***************************************************************************)
(* Model calls of one process (api/src/services/inference.ts) and the      *)
(* account they are paid from (api/src/services/compute.ts): the judges of *)
(* several questions and the panelists of an appeal call at the same time, *)
(* and every call first makes sure that the ledger holds the minimum.      *)
(*                                                                         *)
(* The calls share one promise for that, ledgerPromise: the first of them  *)
(* tops the ledger up and the others await it.                             *)
(***************************************************************************)
EXTENDS Integers

CONSTANTS
  Calls,       \* runInference in progress at one time
  MIN_LEDGER   \* the minimum, in units of what a call may cost

ASSUME InferenceAssumption == MIN_LEDGER \in Nat \ {0}

VARIABLES
  ledger,     \* available balance, or NoLedger
  inFlight,   \* deposits sent and not mined
  unheard,    \* a deposit was sent and its caller gone before it was mined
  gate,       \* what the holder of ledgerPromise is doing
  holder,     \* the calls that await ledgerPromise
  call,       \* where every call is, and what is known of its chat
  billed      \* calls whose chat was handed to processResponse

inferenceVars == <<ledger, inFlight, unheard, gate, holder, call, billed>>

NoLedger == -1     \* less than any balance
NoCall == [at |-> "idle", chat |-> FALSE, broken |-> FALSE, bodiless |-> FALSE]

CallStep == {"idle", "ledger", "connect", "stream", "settle", "answered", "failed"}

Call == [at : CallStep, chat : BOOLEAN, broken : BOOLEAN, bodiless : BOOLEAN]

InferenceTypeOK ==
  /\ ledger \in Nat \cup {NoLedger}
  /\ inFlight \in Nat
  /\ unheard \in BOOLEAN
  /\ gate \in {"open", "read", "sent"}
  /\ holder \subseteq Calls
  /\ call \in [Calls -> Call]
  /\ billed \subseteq Calls

InferenceInit ==
  /\ inFlight = 0
  /\ unheard = FALSE
  /\ gate = "open"
  /\ holder = {}
  /\ call = [c \in Calls |-> NoCall]
  /\ billed = {}
-----------------------------------------------------------------------------
Goes(c, at) == call' = [call EXCEPT ![c].at = at]

(* Fault: every call tops the ledger up on its own.                        *)
CallModelAlone(c) ==
  /\ call[c].at = "idle"
  /\ Goes(c, "ledger")
  /\ holder' = holder \cup {c}
  /\ gate' = "read"
  /\ billed' = billed \ {c}
  /\ UNCHANGED <<ledger, inFlight, unheard>>

(* ensureLedger: join the promise, or be the one to start it.              *)
CallModel(c) ==
  /\ call[c].at = "idle"
  /\ Goes(c, "ledger")
  /\ holder' = holder \cup {c}
  /\ gate' = IF gate = "open" THEN "read" ELSE gate
  /\ billed' = billed \ {c}
  /\ UNCHANGED <<ledger, inFlight, unheard>>

(* The promise is resolved: everyone who awaited it goes on.               *)
Release ==
  /\ gate' = "open"
  /\ holder' = {}
  /\ call' = [c \in Calls |-> IF c \in holder THEN [call[c] EXCEPT !.at = "connect"]
                              ELSE call[c]]
  /\ UNCHANGED billed

(* getLedger finds enough.                                                 *)
LedgerSuffices ==
  /\ gate = "read"
  /\ ledger >= MIN_LEDGER
  /\ Release
  /\ UNCHANGED <<ledger, inFlight, unheard>>

(* addLedger with the minimum, or depositFund with what is missing.        *)
SendDeposit ==
  /\ gate = "read"
  /\ ledger < MIN_LEDGER
  /\ inFlight' = inFlight + (IF ledger = NoLedger THEN MIN_LEDGER ELSE MIN_LEDGER - ledger)
  /\ gate' = "sent"
  /\ UNCHANGED <<ledger, unheard, holder, call, billed>>

(* Mined whether or not the process still waits for it; a second addLedger *)
(* reverts.                                                                *)
DepositMined ==
  /\ inFlight > 0
  /\ ledger' = IF ledger = NoLedger THEN MIN_LEDGER ELSE ledger + inFlight
  /\ inFlight' = 0
  /\ UNCHANGED <<unheard, gate, holder, call, billed>>

DepositHeard ==
  /\ gate = "sent" /\ inFlight = 0
  /\ Release
  /\ UNCHANGED <<ledger, inFlight, unheard>>

(* The promise rejects: all who awaited it throw, and it is forgotten.     *)
LedgerThrows ==
  /\ gate # "open"
  /\ unheard' = (unheard \/ inFlight > 0)
  /\ gate' = "open"
  /\ holder' = {}
  /\ call' = [c \in Calls |-> IF c \in holder THEN [call[c] EXCEPT !.at = "failed"]
                              ELSE call[c]]
  /\ UNCHANGED <<ledger, inFlight, billed>>
-----------------------------------------------------------------------------
(* acknowledgeProvider, the request headers and the request: an answer may *)
(* name the chat in a header, or not.                                      *)
Connect(c) ==
  /\ call[c].at = "connect"
  /\ \E named \in BOOLEAN :
       call' = [call EXCEPT ![c].at = "stream", ![c].chat = named]
  /\ UNCHANGED <<ledger, inFlight, unheard, gate, holder, billed>>

(* A refusal by the provider, or a throw: no header is read.               *)
ConnectThrows(c) ==
  /\ call[c].at = "connect"
  /\ Goes(c, "failed")
  /\ UNCHANGED <<ledger, inFlight, unheard, gate, holder, billed>>

(* The header may have named the chat, and then there is no body: the call *)
(* throws, and nothing settles the chat.                                   *)
AnswerHasNoBody(c) ==
  /\ call[c].at = "connect"
  /\ \E named \in BOOLEAN :
       call' = [call EXCEPT ![c].at = "failed", ![c].chat = named, ![c].bodiless = TRUE]
  /\ UNCHANGED <<ledger, inFlight, unheard, gate, holder, billed>>

(* The stream ends, breaks off or is aborted after ninety seconds; a first *)
(* line of it may have named the chat.  `broken` stands for an error, and  *)
(* for a stream without content.                                           *)
StreamEnds(c) ==
  /\ call[c].at = "stream"
  /\ \E named, broken \in BOOLEAN :
       call' = [call EXCEPT ![c].at = "settle",
                            ![c].chat = @ \/ named, ![c].broken = broken]
  /\ UNCHANGED <<ledger, inFlight, unheard, gate, holder, billed>>

(* processResponse pays for the chat, or throws, which fails the call too. *)
Settle(c) ==
  /\ call[c].at = "settle"
  /\ IF call[c].chat
       THEN /\ billed' = billed \cup {c}
            /\ \/ /\ ledger > 0
                  /\ ledger' = ledger - 1
                  /\ Goes(c, IF call[c].broken THEN "failed" ELSE "answered")
               \/ Goes(c, "failed") /\ UNCHANGED ledger
       ELSE Goes(c, "failed") /\ UNCHANGED <<ledger, billed>>
  /\ UNCHANGED <<inFlight, unheard, gate, holder>>

(* The caller takes the result.                                            *)
Forgotten(c) == call' = [call EXCEPT ![c] = NoCall]

(* The process stops; a transaction that was sent is still mined.          *)
LoseCalls ==
  /\ gate' = "open"
  /\ holder' = {}
  /\ call' = [c \in Calls |-> NoCall]
  /\ unheard' = (unheard \/ inFlight > 0)
  /\ UNCHANGED <<ledger, inFlight, billed>>
-----------------------------------------------------------------------------
(* However many calls start at once, a shortfall is deposited once: the    *)
(* wallet never puts more than the minimum into the ledger, unless a       *)
(* deposit was mined for a caller that had thrown or gone down.            *)
NeverOverfunded == ~unheard => ledger <= MIN_LEDGER

(* A call is over only when its chat, if it had one, was handed to be      *)
(* settled, also when the stream broke off.  The exception is an answer    *)
(* without a body, whose header named a chat that nobody settles.          *)
IsOver(c) == call[c].at \in {"answered", "failed"}
ChatsSettled == \A c \in Calls : IsOver(c) /\ call[c].chat /\ ~call[c].bodiless => c \in billed
=============================================================================
