---------------------------- MODULE VerdictOracle ----------------------------
(***************************************************************************)
(* What the protocol promises an application contract, with no judge, no   *)
(* clock, no role and no panel in it.  An application ASKs a question and  *)
(* stakes a bond; the question is answered once, for ever, with one of the *)
(* three rulings.  Either the application hears the answer in the very     *)
(* step that decides it (Answer), or an administrator decides over its     *)
(* head and it hears nothing (Override).  The asker is repaid between      *)
(* nothing and twice its stake.                                            *)
(*                                                                         *)
(* AssertionRegistry implements this module; the application modules are   *)
(* composed with it.                                                       *)
(***************************************************************************)
EXTENDS Naturals, Sequences, VerdictTypes

CONSTANTS
  Ids,       \* assertion identifiers
  Stakes     \* bonds an application may post

VARIABLES
  answer,    \* "UNASKED", "WAITING" or the final ruling, per identifier
  stake,     \* the bond posted when the question was asked
  heard,     \* the outcomes delivered to the application's callback, in order
  repaid     \* what the asker got back

oracleVars == <<answer, stake, heard, repaid>>

TypeOK ==
  /\ answer \in [Ids -> Rulings \cup {"UNASKED", "WAITING"}]
  /\ stake \in [Ids -> Nat]
  /\ heard \in [Ids -> Seq(Rulings)]
  /\ repaid \in [Ids -> Nat]

Init ==
  /\ answer = [i \in Ids |-> "UNASKED"]
  /\ stake = [i \in Ids |-> 0]
  /\ heard = [i \in Ids |-> <<>>]
  /\ repaid = [i \in Ids |-> 0]

CanAsk(i) == answer[i] = "UNASKED"

Ask(i, s) ==
  /\ CanAsk(i)
  /\ answer' = [answer EXCEPT ![i] = "WAITING"]
  /\ stake' = [stake EXCEPT ![i] = s]
  /\ UNCHANGED <<heard, repaid>>

(* The amounts the bond rules can return to the asker: nothing, its own    *)
(* bond, or its bond and the challenger's.                                 *)
Returns(i) == {0, stake[i], 2 * stake[i]}

Decide(i, o, back) ==
  /\ answer[i] = "WAITING"
  /\ back \in Returns(i)
  /\ answer' = [answer EXCEPT ![i] = o]
  /\ repaid' = [repaid EXCEPT ![i] = back]
  /\ UNCHANGED stake

Answer(i, o, back) ==
  /\ Decide(i, o, back)
  /\ heard' = [heard EXCEPT ![i] = Append(@, o)]

Override(i, o, back) ==
  /\ Decide(i, o, back)
  /\ UNCHANGED heard

Next ==
  \E i \in Ids :
     \/ \E s \in Stakes : Ask(i, s)
     \/ \E o \in Rulings, back \in Returns(i) :
           Answer(i, o, back) \/ Override(i, o, back)

Spec == Init /\ [][Next]_oracleVars
=============================================================================
