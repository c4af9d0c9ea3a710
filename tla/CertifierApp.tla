----------------------------- MODULE CertifierApp -----------------------------
(***************************************************************************)
(* Authenticity certificates as their users meet them: the contract, the   *)
(* table of checks (handleCheckEvent of api/src/workers/indexer.ts) and    *)
(* the page of a check (web/src/app/(app)/authenticity/[id]/page.tsx).     *)
(***************************************************************************)
EXTENDS AuthenticityCertifier, ApplicationIndexer

CONSTANT Scopes     \* bound: what a behaviour may be about

CertifierAppAssumption ==     \* assumed of the constants
  CertifierAssumption /\ Scopes \subseteq [questions : Nat, followed : BOOLEAN]

VARIABLES
  row,     \* the authenticity_checks table
  scope    \* the scope of this behaviour

NoRow == [status |-> "NONE", question |-> NoQuestion]

Row == [status : CheckStatus, question : Ids \cup {NoQuestion}]

AppTypeOK ==
  /\ IndexerTypeOK
  /\ row \in [Checks -> Row]
  /\ scope \in Scopes

AppInit ==
  /\ Init
  /\ IndexerInit
  /\ row = [c \in Checks |-> NoRow]
  /\ scope \in Scopes
-----------------------------------------------------------------------------
Event(kind, c, i) == [kind |-> kind, check |-> c, question |-> i]

Log(event) == IF scope.followed THEN Emit(event) ELSE EmitNothing

ContractStep ==
  \E i \in Ids :
    \/ /\ Cardinality(Asked) < scope.questions
       /\ \E h \in Hashes : SubmitCheck(h, i)
       /\ Log(Event("CheckSubmitted", nextCheckId, i))
    \/ Overruled(i) /\ EmitNothing
    \/ \E o \in Rulings :
         /\ Verdict(i, o)
         /\ IF status[link[i]] = "PENDING"
              THEN Log(Event(IF o = "TRUE" THEN "CertificateIssued" ELSE "CheckRejected",
                             link[i], i))
              ELSE EmitNothing
-----------------------------------------------------------------------------
(* An insert that leaves an existing row alone, or an update of no row.    *)
Handled(r, e) ==
  CASE e.kind = "CheckSubmitted" /\ r = NoRow ->
         [status |-> "PENDING", question |-> e.question]
    [] e.kind = "CertificateIssued" /\ r # NoRow -> [r EXCEPT !.status = "CERTIFIED"]
    [] e.kind = "CheckRejected" /\ r # NoRow -> [r EXCEPT !.status = "REJECTED"]
    [] OTHER -> r

HandleCheckEvent(p) ==
  LET e == Upcoming(p) IN
  /\ HandleNext(p)
  /\ row' = [row EXCEPT ![e.check] = Handled(@, e)]

PassStep(p) ==
  /\ HandleCheckEvent(p) \/ (SaveCheckpoint(p) /\ UNCHANGED row)
  /\ UNCHANGED <<vars, scope>>
-----------------------------------------------------------------------------
(* The page of a check: CertifiedBanner.                                   *)
ShowsCertificate(c) == row[c].status = "CERTIFIED"

(* A certificate that a page shows is in the contract, in every state and  *)
(* not just once the indexer has caught up; and at rest the table is the   *)
(* contract's, even after stragglers, for every update of it is final.     *)
ChecksMirrored ==
  /\ AppTypeOK
  /\ \A c \in Checks :
       ShowsCertificate(c) => status[c] = "CERTIFIED" /\ certificate[asset[c]] # 0
  /\ scope.followed /\ AtRest => \A c \in Checks :
       row[c] = [status |-> status[c], question |-> question[c]]
=============================================================================
