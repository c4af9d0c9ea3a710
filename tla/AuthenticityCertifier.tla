------------------------ MODULE AuthenticityCertifier ------------------------
(***************************************************************************)
(* Authenticity certificates                                               *)
(* (contracts/applications/AuthenticityCertifier.sol) on top of the        *)
(* protocol's promise.  Check ids count from 1; a certificate is the id of *)
(* a check, and 0 means "not certified".                                   *)
(***************************************************************************)
EXTENDS VerdictConsumer

CONSTANTS
  Hashes,      \* asset hashes submitted
  MaxChecks    \* bound: checks ever submitted

(* assetHash of a check nobody submitted: bytes32(0).                       *)
NoHash == "none"

CertifierAssumption == MaxChecks \in Nat /\ NoHash \notin Hashes  \* assumed of the constants

VARIABLES
  nextCheckId,   \* _nextCheckId
  status,        \* status of every check
  asset,         \* its assetHash
  question,      \* its assertionId
  certificate    \* _certificatesByHash

checkVars == <<nextCheckId, status, asset, question, certificate>>
vars == <<consumerVars, checkVars>>

Checks == 1..MaxChecks
CheckStatus == {"NONE", "PENDING", "CERTIFIED", "REJECTED"}

TypeOK ==
  /\ Oracle!TypeOK
  /\ link \in [Ids -> Checks \cup {NoLink}]
  /\ nextCheckId \in 1..(MaxChecks + 1)
  /\ status \in [Checks -> CheckStatus]
  /\ asset \in [Checks -> Hashes \cup {NoHash}]
  /\ question \in [Checks -> Ids \cup {NoQuestion}]
  /\ certificate \in [Hashes -> Checks \cup {0}]

Init ==
  /\ ConsumerInit
  /\ nextCheckId = 1
  /\ status = [c \in Checks |-> "NONE"]
  /\ asset = [c \in Checks |-> NoHash]
  /\ question = [c \in Checks |-> NoQuestion]
  /\ certificate = [h \in Hashes |-> 0]
-----------------------------------------------------------------------------
SubmitCheck(h, i) ==
  LET c == nextCheckId IN
  /\ c <= MaxChecks
  /\ nextCheckId' = c + 1
  /\ status' = [status EXCEPT ![c] = "PENDING"]
  /\ asset' = [asset EXCEPT ![c] = h]
  /\ CreateAssertionFor(i, c)
  /\ question' = [question EXCEPT ![c] = i]
  /\ UNCHANGED certificate

(* Fault: an undecided check certifies.                                    *)
RuleLenient(c, o) ==
  /\ status[c] = "PENDING" /\ o # "FALSE"
  /\ status' = [status EXCEPT ![c] = "CERTIFIED"]
  /\ certificate' = [certificate EXCEPT ![asset[c]] = c]

(* A certificate overwrites an older one for the same hash, and a later    *)
(* rejection of the same hash takes none away.                             *)
Rule(c, o) ==
  \/ /\ status[c] # "PENDING"
     /\ UNCHANGED <<status, certificate>>
  \/ /\ status[c] = "PENDING"
     /\ o = "TRUE"
     /\ status' = [status EXCEPT ![c] = "CERTIFIED"]
     /\ certificate' = [certificate EXCEPT ![asset[c]] = c]
  \/ /\ status[c] = "PENDING"
     /\ o # "TRUE"
     /\ status' = [status EXCEPT ![c] = "REJECTED"]
     /\ UNCHANGED certificate

Verdict(i, o) ==
  /\ OnVerdict(i, o)
  /\ Rule(link[i], o)
  /\ UNCHANGED <<nextCheckId, asset, question>>

Overruled(i) == ForceResolve(i) /\ UNCHANGED checkVars
-----------------------------------------------------------------------------
Next ==
  \E i \in Ids :
    \/ \E h \in Hashes : SubmitCheck(h, i)
    \/ \E o \in Rulings : Verdict(i, o)
    \/ Overruled(i)

Spec == Init /\ [][Next]_vars
-----------------------------------------------------------------------------
(* A hash is certified exactly when some check of it was answered TRUE,    *)
(* and its certificate is one of those checks, in whatever order the       *)
(* answers to several checks of one hash arrived.                          *)
HeardTrue(h) == {c \in Checks : asset[c] = h /\ heard[question[c]] = <<"TRUE">>}

CertifiedByVerdict(h) ==
  IF HeardTrue(h) = {} THEN certificate[h] = 0 ELSE certificate[h] \in HeardTrue(h)

(* A check waits for ever exactly when it was decided over the             *)
(* application's head: there is no second way out of PENDING.              *)
PendingIsLive(c) ==
  status[c] = "PENDING" <=>
    /\ question[c] # NoQuestion
    /\ Waiting(question[c]) \/ DecidedUnheard(question[c])

(* Certificates follow the answers, and a check that waits has a reason.   *)
CheckInv ==
  /\ TypeOK
  /\ \A h \in Hashes : CertifiedByVerdict(h)
  /\ \A c \in Checks : PendingIsLive(c)

(* A certificate is never withdrawn, only replaced by another one for the  *)
(* same hash, and every check is decided at most once.                     *)
NeverWithdrawn ==
  [][/\ \A h \in Hashes : certificate[h] # 0 => certificate'[h] # 0
     /\ \A c \in Checks :
          status[c] \in {"CERTIFIED", "REJECTED"} => status'[c] = status[c]]_vars
=============================================================================
