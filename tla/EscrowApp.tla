------------------------------ MODULE EscrowApp ------------------------------
(***************************************************************************)
(* The escrow application as its users meet it: the contract, the table    *)
(* that mirrors it (handleEscrowEvent of api/src/workers/indexer.ts) and   *)
(* the buttons its page offers to the two parties                          *)
(* (web/src/app/(app)/escrow/[id]/actions.tsx).                            *)
(*                                                                         *)
(* A button sends a call that anyone may also send without the page, so    *)
(* pressing one is a step of Escrow.  Rows of different escrows never      *)
(* meet; a behaviour therefore has a scope, a bound on the escrows that    *)
(* are created in it and on those whose events are followed.               *)
(***************************************************************************)
EXTENDS Escrow, ApplicationIndexer

CONSTANT Scopes     \* bound: what a behaviour may be about

ASSUME EscrowAppAssumption ==
  Scopes \subseteq
    [created : SUBSET Escrows, amounts : SUBSET Amounts, followed : SUBSET Escrows]

VARIABLES
  row,     \* the escrows table
  scope    \* the scope of this behaviour

appVars == <<vars, indexerVars, row, scope>>

NoRow == [status |-> "NONE", question |-> NoQuestion, response |-> FALSE]

Row == [status : EscrowStatus, question : Ids \cup {NoQuestion}, response : BOOLEAN]

AppTypeOK ==
  /\ IndexerTypeOK
  /\ row \in [Escrows -> Row]
  /\ scope \in Scopes

AppInit ==
  /\ Init
  /\ IndexerInit
  /\ row = [e \in Escrows |-> NoRow]
  /\ scope \in Scopes
-----------------------------------------------------------------------------
Event(kind, e) ==
  [kind |-> kind, escrow |-> e, question |-> NoQuestion, outcome |-> "PENDING"]

Log(event) == IF event.escrow \in scope.followed THEN Emit(event) ELSE EmitNothing

(* Identifiers are alike: a question takes some fresh one.                 *)
FreshId ==
  LET fresh == {i \in Ids : answer[i] = "UNASKED"} IN
  IF fresh = {} THEN {} ELSE {CHOOSE i \in fresh : TRUE}

(* The contract's transactions with the events they emit.  Of several      *)
(* responses to one dispute the first is kept: the others only replace the *)
(* evidence.                                                               *)
ContractStep ==
  \/ \E e \in Escrows :
       \/ /\ e \in scope.created
          /\ \E a \in scope.amounts : CreateEscrow(e, a)
          /\ Log(Event("EscrowCreated", e))
       \/ Deliver(e) /\ Log(Event("DeliverySubmitted", e))
       \/ Accept(e) /\ Log(Event("Accepted", e))
       \/ \E i \in FreshId :
            /\ OpenDispute(e, i)
            /\ Log([Event("DisputeOpened", e) EXCEPT !.question = i])
       \/ ~response[e] /\ RespondToDispute(e) /\ Log(Event("DisputeResponded", e))
       \/ Expire(e) /\ Log(Event("Expired", e))
       \/ Elapse(e) /\ EmitNothing
  \/ \E i \in Ids, o \in Rulings :
       /\ Verdict(i, o)
       /\ IF status[link[i]] = "DISPUTED"
            THEN Log([Event("ResolvedByVerdict", link[i]) EXCEPT !.outcome = o])
            ELSE EmitNothing
  \/ \E i \in Ids : Overruled(i) /\ EmitNothing
-----------------------------------------------------------------------------
(* Fault: an undecided dispute stays on the row.                           *)
ReopenedDisputed(r) == [r EXCEPT !.status = "DELIVERED"]

Reopened(r) ==
  [r EXCEPT !.status = "DELIVERED", !.question = NoQuestion, !.response = FALSE]

(* What the handler makes of an existing row.                              *)
Updated(r, e) ==
  CASE e.kind = "EscrowCreated" -> r
    [] e.kind = "DeliverySubmitted" -> [r EXCEPT !.status = "DELIVERED"]
    [] e.kind = "Accepted" -> [r EXCEPT !.status = "ACCEPTED"]
    [] e.kind = "DisputeOpened" -> [r EXCEPT !.status = "DISPUTED", !.question = e.question]
    [] e.kind = "DisputeResponded" -> [r EXCEPT !.response = TRUE]
    [] e.kind = "Expired" -> [r EXCEPT !.status = "EXPIRED"]
    [] e.kind = "ResolvedByVerdict" ->
         CASE e.outcome = "TRUE" -> [r EXCEPT !.status = "RESOLVED_CLIENT"]
           [] e.outcome = "FALSE" -> [r EXCEPT !.status = "RESOLVED_FREELANCER"]
           [] OTHER -> Reopened(r)

(* An insert that leaves an existing row alone, or an update of no row.    *)
Handled(r, e) ==
  IF r # NoRow THEN Updated(r, e)
  ELSE IF e.kind = "EscrowCreated" THEN [r EXCEPT !.status = "FUNDED"] ELSE r

HandleEscrowEvent(p) ==
  LET e == Upcoming(p) IN
  /\ HandleNext(p)
  /\ row' = [row EXCEPT ![e.escrow] = Handled(@, e)]
-----------------------------------------------------------------------------
IndexerStep ==
  /\ \/ Housekeeping /\ UNCHANGED row
     \/ \E p \in Passes : HandleEscrowEvent(p)
  /\ UNCHANGED <<vars, scope>>

AppNext ==
  \/ ContractStep /\ UNCHANGED <<row, scope>>
  \/ IndexerStep

AppSpec == AppInit /\ [][AppNext]_appVars

FairAppSpec ==
  /\ AppSpec
  /\ \A e \in Escrows :
       /\ WF_appVars(ContractStep /\ Elapse(e) /\ UNCHANGED <<row, scope>>)
       /\ WF_appVars(ContractStep /\ Expire(e) /\ UNCHANGED <<row, scope>>)
-----------------------------------------------------------------------------
(* The page.  It is rendered from the row, and knows a visitor's role.     *)
Shown(e) == row[e]

Parties == {"client", "freelancer"}

(* EscrowActionButtons.                                                    *)
Offers(party, e, b) ==
  LET s == Shown(e).status IN
  \/ b = "deliver" /\ party = "freelancer" /\ s = "FUNDED"
  \/ b = "accept" /\ party = "client" /\ s \in {"FUNDED", "DELIVERED"}
  \/ b = "openDispute" /\ party = "client" /\ s = "DELIVERED"
  \/ b = "respond" /\ party = "freelancer" /\ s = "DISPUTED" /\ Shown(e).question # NoQuestion
  \/ b = "expire" /\ s \in {"FUNDED", "DELIVERED", "DISPUTED"}

(* What the contract takes from a party.                                   *)
Takes(party, e, b) ==
  \/ b = "deliver" /\ party = "freelancer" /\ CanDeliver(e)
  \/ b = "accept" /\ party = "client" /\ CanAccept(e)
  \/ b = "openDispute" /\ party = "client" /\ (\E i \in Ids : CanOpenDispute(e, i))
  \/ b = "respond" /\ party = "freelancer" /\ CanRespond(e)
  \/ b = "expire" /\ CanExpire(e)
-----------------------------------------------------------------------------
(* Once every event was handled the row is the contract's record, whatever *)
(* was redelivered after throws and restarts.  Only a straggler, whose     *)
(* late writes an overlapping pass does not repeat, can leave it stale.    *)
MirrorAgrees ==
  /\ AppTypeOK
  /\ AtRest /\ ~straggled =>
       \A e \in scope.followed :
         row[e] = [status |-> status[e], question |-> question[e], response |-> response[e]]

(* "Actions below are what the contract allows for your role right now":   *)
(* then the page offers a party exactly what the contract takes from it,   *)
(* but for the deadline, a token that refuses and identifiers that ran out. *)
Unhindered(e) ==
  /\ e \in overdue
  /\ \A party \in Parties : <<e, party>> \notin Unpayable
  /\ \E i \in Ids : answer[i] = "UNASKED"

PageIsRight ==
  AtRest /\ ~straggled =>
    \A e \in scope.followed, party \in Parties,
       b \in {"deliver", "accept", "openDispute", "respond", "expire"} :
      Unhindered(e) => (Offers(party, e, b) <=> Takes(party, e, b))

(* What the indexer and the page make of the contract's state, together.   *)
SiteAgrees == MirrorAgrees /\ PageIsRight
=============================================================================
