----------------------------- MODULE Reputation -----------------------------
(***************************************************************************)
(* The reputation layer of the judge NFT contract                          *)
(* (contracts/reputation/ReputationRegistry.sol): token ids are handed out *)
(* from 1 upwards, so that 0 means "no judge", and every token carries a   *)
(* score.  Ownership and proofs are in JudgeToken.                         *)
(***************************************************************************)
EXTENDS Integers, Sequences, FiniteSetsExt

CONSTANT MaxTokens   \* bound: tokens ever minted

VARIABLES
  nextTokenId,   \* _nextTokenId
  reputation,    \* _reputation[token].reputation
  totalVerdicts, \* _reputation[token].totalVerdicts
  appealsLost    \* _reputation[token].appealsLost

Tokens == 1..MaxTokens

INITIAL_REPUTATION == 1000
REPUTATION_REWARD == 1
REPUTATION_PENALTY_MINORITY == 2
REPUTATION_PENALTY_APPEAL_LOST == 10

Init ==
  /\ nextTokenId = 1
  /\ reputation = [t \in Tokens |-> 0]
  /\ totalVerdicts = [t \in Tokens |-> 0]
  /\ appealsLost = [t \in Tokens |-> 0]

(* Every token there may be is minted, as a deployment does for its panel. *)
AllMinted ==
  /\ nextTokenId = MaxTokens + 1
  /\ reputation = [t \in Tokens |-> INITIAL_REPUTATION]
  /\ totalVerdicts = [t \in Tokens |-> 0]
  /\ appealsLost = [t \in Tokens |-> 0]

Exists(t) == 0 < t /\ t < nextTokenId

(* mint and clone both take the next id and start its score afresh.        *)
Mint ==
  /\ nextTokenId <= MaxTokens
  /\ nextTokenId' = nextTokenId + 1
  /\ reputation' = [reputation EXCEPT ![nextTokenId] = INITIAL_REPUTATION]
  /\ totalVerdicts' = [totalVerdicts EXCEPT ![nextTokenId] = 0]
  /\ appealsLost' = [appealsLost EXCEPT ![nextTokenId] = 0]

(* Fault: reward and penalty are swapped.                                  *)
DeltaSwapped(agreed) == IF agreed THEN -REPUTATION_PENALTY_MINORITY ELSE REPUTATION_REWARD

Delta(agreed) == IF agreed THEN REPUTATION_REWARD ELSE -REPUTATION_PENALTY_MINORITY

(* The writes of one transaction of a VERDICT_WRITER: recordVerdict for    *)
(* every member of `agreed` and `dissented`, recordAppealLost for every    *)
(* member of `lost`.  Any unknown token reverts the transaction.           *)
CanRecord(agreed, dissented, lost) ==
  \A t \in agreed \cup dissented \cup lost : Exists(t)

Record(agreed, dissented, lost) ==
  LET recorded == agreed \cup dissented IN
  /\ CanRecord(agreed, dissented, lost)
  /\ totalVerdicts' = [t \in Tokens |->
        totalVerdicts[t] + (IF t \in recorded THEN 1 ELSE 0)]
  /\ appealsLost' = [t \in Tokens |->
        appealsLost[t] + (IF t \in lost THEN 1 ELSE 0)]
  /\ reputation' = [t \in Tokens |->
        reputation[t]
          + (IF t \in recorded THEN Delta(t \in agreed) ELSE 0)
          - (IF t \in lost THEN REPUTATION_PENALTY_APPEAL_LOST ELSE 0)]
  /\ UNCHANGED nextTokenId
=============================================================================
