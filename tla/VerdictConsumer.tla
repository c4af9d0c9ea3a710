--------------------------- MODULE VerdictConsumer ---------------------------
(***************************************************************************)
(* The base of every application contract                                  *)
(* (contracts/applications/base/VerdictConsumer.sol): it asks questions of *)
(* the protocol, remembers which local entity each question is about, and  *)
(* keeps whatever part of its bonds comes back.  The protocol itself is    *)
(* VerdictOracle, which AssertionRegistry implements.                      *)
(***************************************************************************)
EXTENDS Naturals, Sequences, FiniteSetsExt, VerdictTypes

CONSTANTS
  Ids,       \* assertion identifiers
  Bond,      \* assertionBond, fixed when the application is deployed
  NoLink     \* the local id of an unknown assertion

(* The assertionId of an entity that has asked nothing: bytes32(0).        *)
NoQuestion == "none"

ASSUME ConsumerAssumption ==
  /\ Bond \in Nat
  /\ NoQuestion \notin Ids
  /\ IsFiniteSet(Ids)       \* 256-bit hashes

VARIABLES
  answer, stake, heard, repaid,   \* of VerdictOracle
  link                            \* _assertionToLocal, or NoLink

Oracle == INSTANCE VerdictOracle WITH Stakes <- {Bond}

consumerVars == <<answer, stake, heard, repaid, link>>

ConsumerInit ==
  /\ Oracle!Init
  /\ link = [i \in Ids |-> NoLink]

(* _createAssertion: the bond is forwarded and the identifier, which the   *)
(* registry guarantees to be new, is linked to the local entity.           *)
CreateAssertionFor(i, local) ==
  /\ Oracle!Ask(i, Bond)
  /\ link' = [link EXCEPT ![i] = local]

(* The registry answers question i and, in the same transaction, calls     *)
(* onVerdict: a callback that reverts undoes the answer.                   *)
OnVerdict(i, o) ==
  /\ link[i] # NoLink
  /\ \E back \in Oracle!Returns(i) : Oracle!Answer(i, o, back)
  /\ UNCHANGED link

(* forceResolve: question i is decided and the application not told.       *)
ForceResolve(i) ==
  /\ \E o \in Rulings, back \in Oracle!Returns(i) : Oracle!Override(i, o, back)
  /\ UNCHANGED link

(* What came back of the bonds, through receive(), stays in the            *)
(* application, which has no function to send it on.  receive() also takes *)
(* gifts, which only an application that keeps ether has to count.         *)
Refunds == SumFunctionOnSet(repaid, Ids)

Asked == {i \in Ids : answer[i] # "UNASKED"}
Waiting(i) == answer[i] = "WAITING"

(* The ruling question i was decided with over the application's head.     *)
DecidedUnheard(i) == answer[i] \in Rulings /\ heard[i] = <<>>
=============================================================================
