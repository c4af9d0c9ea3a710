------------------------------- MODULE VaultApp -------------------------------
(***************************************************************************)
(* Milestone grants as their users meet them: the contract, the table with *)
(* the totals of every grant (handleGrantEvent of                          *)
(* api/src/workers/indexer.ts) and the page of a grant                     *)
(* (web/src/app/(app)/milestones/[id]), which takes the totals from the    *)
(* table and each milestone from the chain.                                *)
(***************************************************************************)
EXTENDS MilestoneVault, ApplicationIndexer

CONSTANT Scopes     \* bound: what a behaviour may be about

VaultAppAssumption ==     \* assumed of the constants
  /\ VaultAssumption
  /\ Scopes \subseteq
       [grants : Nat, questions : Nat, amounts : SUBSET Amounts, followed : BOOLEAN]

VARIABLES
  row,     \* the grants table
  scope    \* the scope of this behaviour

NoRow == [known |-> FALSE, released |-> 0, count |-> 0]

Row == [known : BOOLEAN, released : Nat, count : Nat]

AppTypeOK ==
  /\ IndexerTypeOK
  /\ row \in [Grants -> Row]
  /\ scope \in Scopes

AppInit ==
  /\ Init
  /\ IndexerInit
  /\ row = [g \in Grants |-> NoRow]
  /\ scope \in Scopes
-----------------------------------------------------------------------------
Event(kind, g, a) == [kind |-> kind, grant |-> g, amount |-> a]

Log(event) == IF scope.followed THEN Emit(event) ELSE EmitNothing

(* The contract's transactions, with the events that the table follows.    *)
ContractStep ==
  \/ \E g \in Grants :
       \/ /\ Cardinality(created) < scope.grants
          /\ \E amounts \in [Slots -> scope.amounts] : CreateGrant(g, amounts)
          /\ Log(Event("GrantCreated", g, 0))
       \/ /\ Cardinality(Asked) < scope.questions
          /\ \E m \in Slots, i \in Ids : SubmitMilestone(g, m, i)
          /\ EmitNothing
       \/ Reclaim(g) /\ Log(Event("GrantReclaimed", g, 0))
       \/ Elapse(g) /\ EmitNothing
  \/ \E i \in Ids :
       \/ Overruled(i) /\ EmitNothing
       \/ \E o \in Rulings :
            LET g == link[i][1]  m == link[i][2] IN
            /\ Verdict(i, o)
            /\ IF status[g][m] = "SUBMITTED" /\ o = "TRUE"
                 THEN Log(Event("MilestoneReleased", g, amount[g][m]))
                 ELSE EmitNothing
-----------------------------------------------------------------------------
(* Fault: what was released before a reclaim is taken for nothing.         *)
UpdatedByResidue(g, r, e) ==
  CASE e.kind = "GrantCreated" -> r
    [] e.kind = "MilestoneReleased" ->
         [r EXCEPT !.released = @ + e.amount, !.count = @ + 1]
    [] e.kind = "GrantReclaimed" -> [r EXCEPT !.released = residue[g]]

(* What the handler makes of an existing row.  A release adds to it, and a *)
(* reclaim pins it to the total.                                           *)
Updated(g, r, e) ==
  CASE e.kind = "GrantCreated" -> r
    [] e.kind = "MilestoneReleased" ->
         [r EXCEPT !.released = @ + e.amount, !.count = @ + 1]
    [] e.kind = "GrantReclaimed" -> [r EXCEPT !.released = TotalAmount(g)]

Handled(g, r, e) ==
  IF r.known THEN Updated(g, r, e)
  ELSE IF e.kind = "GrantCreated" THEN [NoRow EXCEPT !.known = TRUE] ELSE r

HandleGrantEvent(p) ==
  LET e == Upcoming(p) IN
  /\ HandleNext(p)
  /\ row' = [row EXCEPT ![e.grant] = Handled(e.grant, @, e)]

PassStep(p) ==
  /\ HandleGrantEvent(p) \/ (SaveCheckpoint(p) /\ UNCHANGED row)
  /\ UNCHANGED <<vars, scope>>
-----------------------------------------------------------------------------
(* The page of a grant, which exists once its row does.                    *)
HasPage(g) == row[g].known

(* MilestoneList: each milestone is read from the chain, not from the row. *)
ShownStatus(g, m) == status[g][m]

(* MilestoneCard: a milestone is offered to the grantee for submission.    *)
OffersSubmission(g, m) == HasPage(g) /\ ShownStatus(g, m) \in {"PENDING", "REJECTED"}

(* ReclaimRow.  The page is told that no grant was ever reclaimed.         *)
OffersReclaim(g) == HasPage(g) /\ g \in expired
-----------------------------------------------------------------------------
(* Once every event was handled the totals hide nothing that left the      *)
(* grant, unless a straggler wrote late, and they are exact unless         *)
(* something was delivered twice, which adds a release a second time.      *)
LedgerNeverShort ==
  /\ AppTypeOK
  /\ scope.followed /\ AtRest => \A g \in created :
       LET out == released[g] + residue[g]
           done == Cardinality(ReleasedSlots(g)) IN
       /\ ~straggled => row[g].released >= out
       /\ row[g].count >= done
       /\ faults = 0 => row[g].released = out /\ row[g].count = done

(* Of what the contract takes nothing is withheld: a milestone that may be *)
(* submitted is offered to the grantee and a residue to the DAO, and what  *)
(* the page offers is refused only for the clock or for lack of means.     *)
PageIsRight ==
  scope.followed /\ AtRest => \A g \in created :
    /\ \A m \in Slots :
         /\ (\E i \in Ids : CanSubmit(g, m, i)) => OffersSubmission(g, m)
         /\ OffersSubmission(g, m) /\ g \notin expired \cup reclaimed =>
              (\A i \in Ids : answer[i] = "UNASKED" => CanSubmit(g, m, i))
    /\ CanReclaim(g) => OffersReclaim(g)
=============================================================================
