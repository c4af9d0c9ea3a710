------------------------------ MODULE Evidence -------------------------------
(***************************************************************************)
(* The rows of uploaded evidence (api/src/services/evidence.ts) and the    *)
(* browser that attaches them to an assertion (attachEvidence of           *)
(* web/src/lib/api.ts): a file is uploaded and registered before the       *)
(* transaction that cites it, and attached once the browser has the        *)
(* receipt.  The service refuses with 409 until the indexer has mirrored   *)
(* the assertion; the browser then waits one second more after every       *)
(* refusal, and gives up after the fifth or on any other error.            *)
(*                                                                         *)
(* Time is counted in half seconds by timers that Tick runs down.          *)
(***************************************************************************)
EXTENDS Naturals

CONSTANTS
  Pieces,    \* files of one case
  Latency    \* half seconds a call to the service takes at most

ASSUME EvidenceAssumption == Latency \in Nat \ {0}

VARIABLES
  rows,     \* rows of each piece: without an assertion, and attached
  client    \* what the browser is doing with each piece

evidenceVars == <<rows, client>>

maxAttempts == 5
SECOND == 2
MaxRows == 2     \* bound: a piece is registered at most twice

ClientStep == {"choosing", "fetching", "ready", "mining", "calling", "sleeping",
               "attached", "gaveUp", "closed"}

EvidenceTypeOK ==
  /\ rows \in [Pieces -> [raw : 0..MaxRows, attached : 0..MaxRows]]
  /\ client \in [Pieces -> [at : ClientStep, attempt : 1..maxAttempts,
                            timer : Nat]]

Idle == [at |-> "choosing", attempt |-> 1, timer |-> 0]

EvidenceInit ==
  /\ rows = [p \in Pieces |-> [raw |-> 0, attached |-> 0]]
  /\ client = [p \in Pieces |-> Idle]

Attached(p) == rows[p].attached > 0
-----------------------------------------------------------------------------
(* uploadAndRegister inserts the row after the upload.  The browser learns *)
(* the root, or only that its request failed: it may then upload the same  *)
(* file again.                                                             *)
Register(p) ==
  /\ client[p].at = "choosing"
  /\ rows[p].raw < MaxRows
  /\ rows' = [rows EXCEPT ![p].raw = @ + 1]
  /\ \/ client' = [client EXCEPT ![p].at = "ready"]
     \/ rows[p].raw = 0 /\ UNCHANGED client

(* The dialog sends its transaction, with every file it asked for.         *)
Send(ps) ==
  /\ \A p \in ps : client[p].at = "ready"
  /\ client' = [p \in Pieces |-> IF p \in ps THEN [client[p] EXCEPT !.at = "mining"]
                                 ELSE client[p]]
  /\ UNCHANGED rows

Asking(attempt) == [at |-> "calling", attempt |-> attempt, timer |-> Latency]

(* The receipt: one call per piece, all at once.                           *)
Receipt(ps) ==
  /\ \A p \in ps : client[p].at \in {"mining", "closed"}
  /\ \E p \in ps : client[p].at = "mining"
  /\ client' = [p \in Pieces |-> IF p \in ps /\ client[p].at = "mining"
                                 THEN Asking(1) ELSE client[p]]
  /\ UNCHANGED rows

(* Fault: the pause doubles with every refusal.                            *)
PauseDoubled(attempt) == SECOND * 2 ^ attempt

Pause(attempt) == SECOND * attempt

Refused(p) ==
  LET attempt == client[p].attempt
  IN client' = [client EXCEPT ![p] =
       IF attempt < maxAttempts
         THEN [at |-> "sleeping", attempt |-> attempt, timer |-> Pause(attempt)]
         ELSE [at |-> "gaveUp", attempt |-> attempt, timer |-> 0]]

(* POST /api/evidence/attach: every row of this root without an assertion. *)
Answer(p, mirrored) ==
  /\ client[p].at = "calling"
  /\ IF mirrored
       THEN /\ rows' = [rows EXCEPT ![p] = [raw |-> 0, attached |-> @.attached + @.raw]]
            /\ client' = [client EXCEPT ![p] = [@ EXCEPT !.at = "attached", !.timer = 0]]
       ELSE Refused(p) /\ UNCHANGED rows

(* Any other error: the network, the rate limit, a failing service.        *)
CallFails(p) ==
  /\ client[p].at = "calling"
  /\ client' = [client EXCEPT ![p] = [@ EXCEPT !.at = "gaveUp", !.timer = 0]]
  /\ UNCHANGED rows

Wake(p) ==
  /\ client[p].at = "sleeping" /\ client[p].timer = 0
  /\ client' = [client EXCEPT ![p] = Asking(@.attempt + 1)]
  /\ UNCHANGED rows

(* The tab is closed: nobody attaches what it had not attached.            *)
CloseTab ==
  /\ \E p \in Pieces : client[p].at \in {"mining", "calling", "sleeping"}
  /\ client' = [p \in Pieces |->
       IF client[p].at \in {"mining", "calling", "sleeping"}
         THEN [client[p] EXCEPT !.at = "closed", !.timer = 0] ELSE client[p]]
  /\ UNCHANGED rows
-----------------------------------------------------------------------------
Timed(p) == client[p].at \in {"calling", "sleeping"}
Due(p) == Timed(p) /\ client[p].timer = 0

TickClients ==
  client' = [p \in Pieces |-> IF Timed(p) THEN [client[p] EXCEPT !.timer = @ - 1]
                              ELSE client[p]]

(* The service stops in the middle of every call.                          *)
LoseRequests ==
  /\ client' = [p \in Pieces |->
       CASE client[p].at = "calling" -> [client[p] EXCEPT !.at = "gaveUp", !.timer = 0]
         [] client[p].at = "fetching" -> Idle
         [] OTHER -> client[p]]
  /\ UNCHANGED rows
=============================================================================
