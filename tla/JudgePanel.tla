----------------------------- MODULE JudgePanel -----------------------------
(***************************************************************************)
(* The judges as the protocol and as their owners see them: appeals        *)
(* (EscalationManager) that read and write the scoreboard of tokens which  *)
(* are minted, moved, cloned and lent out (JudgeToken).  Both halves of    *)
(* ReputationRegistry.sol share the counter of ids.                        *)
(***************************************************************************)
EXTENDS EscalationManager

CONSTANTS
  Holders, Nobody, Verifiers, FirstVerifier, VerifierType, ZeroHash, Proofs,
  DataLists, Users, MaxSlots,   \* of JudgeToken
  Minter,        \* bound: who holds the panel's tokens while appeals vary
  MaxHeld,       \* bound: tokens while ownership varies
  Scopes         \* bound: sets of "appeals" and "ownership" that vary

VARIABLES
  token, operators, verifier, usedProofs, accepted, approver,   \* of JudgeToken
  scope          \* bound: the parts of the system this behaviour is about

Ownership == INSTANCE JudgeToken WITH Accounts <- Holders

heldVars == <<token, operators, verifier, usedProofs, accepted, approver>>
panelVars == <<vars, heldVars, scope>>

ASSUME PanelAssumption ==
  /\ Ownership!TokenAssumption
  /\ Minter \in Holders
  /\ Scopes \subseteq SUBSET {"appeals", "ownership"}

PanelInit ==
  /\ NothingAsked
  /\ Ownership!Init
  /\ scope \in Scopes

(* A step of the protocol; a mint, which it knows as a new id, gives the   *)
(* token to somebody.                                                      *)
ProtocolStep ==
  /\ Next
  /\ \/ nextTokenId' = nextTokenId /\ UNCHANGED heldVars
     \/ \E d \in DataLists : Ownership!Mint(Minter, d)

(* No call of an owner touches an assertion or an appeal.                  *)
OwnerStep ==
  /\ Ownership!Next
  /\ nextTokenId' <= MaxHeld + 1
  /\ UNCHANGED <<registryVars, judge, appeal>>

PanelNext ==
  /\ \/ "appeals" \in scope /\ ProtocolStep
     \/ "ownership" \in scope /\ OwnerStep
  /\ UNCHANGED scope

PanelSpec == PanelInit /\ [][PanelNext]_panelVars
-----------------------------------------------------------------------------
(* Judges exist, are held and are approved for as JudgeToken has it, while *)
(* appeals score them.                                                     *)
TokenInv == Ownership!TokenInv
=============================================================================
