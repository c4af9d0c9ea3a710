------------------------------ MODULE SharedTick ------------------------------
(***************************************************************************)
(* The indexer's tick over two application contracts (runIndexerOnce and   *)
(* startIndexer of api/src/workers/indexer.ts): the milestone grants and   *)
(* the authenticity checks, each with its contract, its pass and its       *)
(* table.  One Promise.all awaits both passes, so a throw in one ends the  *)
(* tick for both, and leaves the other pass running beside the next tick.  *)
(***************************************************************************)
EXTENDS Naturals, Sequences, FiniteSetsExt, VerdictTypes

CONSTANTS
  Ids, Bond, NoLink,             \* of VerdictConsumer
  Grants, Slots, Amounts,        \* of MilestoneVault
  Hashes, MaxChecks,             \* of AuthenticityCertifier
  MaxPasses, MaxFaults,          \* of ApplicationIndexer
  GrantScopes, CheckScopes,      \* of VaultApp and of CertifierApp
  Scopes                         \* bound: the pairs of scopes examined

VARIABLES
  vAnswer, vStake, vHeard, vRepaid, vLink, created, amount, vStatus, vQuestion,
  released, expired, reclaimed, residue, held,
  vEvents, vCheckpoint, vPass, vAwaited, vStraggled, vRow, vScope,   \* of VaultApp
  cAnswer, cStake, cHeard, cRepaid, cLink, nextCheckId, cStatus, asset, cQuestion,
  certificate,
  cEvents, cCheckpoint, cPass, cAwaited, cStraggled, cRow, cScope,   \* of CertifierApp
  faults                                                             \* of both

Vault == INSTANCE VaultApp WITH
  Scopes <- GrantScopes, answer <- vAnswer, stake <- vStake, heard <- vHeard,
  repaid <- vRepaid, link <- vLink, status <- vStatus, question <- vQuestion,
  events <- vEvents, checkpoint <- vCheckpoint, pass <- vPass, awaited <- vAwaited,
  straggled <- vStraggled, row <- vRow, scope <- vScope

Certifier == INSTANCE CertifierApp WITH
  Scopes <- CheckScopes, answer <- cAnswer, stake <- cStake, heard <- cHeard,
  repaid <- cRepaid, link <- cLink, status <- cStatus, question <- cQuestion,
  events <- cEvents, checkpoint <- cCheckpoint, pass <- cPass, awaited <- cAwaited,
  straggled <- cStraggled, row <- cRow, scope <- cScope

ASSUME SharedTickAssumption ==
  /\ Vault!ConsumerAssumption /\ Certifier!ConsumerAssumption
  /\ Vault!IndexerAssumption /\ Certifier!IndexerAssumption
  /\ Vault!VaultAppAssumption /\ Certifier!CertifierAppAssumption
  /\ Scopes \subseteq GrantScopes \X CheckScopes

(* What a side consists of, but for the count of faults that both share.   *)
vaultContract ==
  <<vAnswer, vStake, vHeard, vRepaid, vLink, created, amount, vStatus, vQuestion,
    released, expired, reclaimed, residue, held>>
certifierContract ==
  <<cAnswer, cStake, cHeard, cRepaid, cLink, nextCheckId, cStatus, asset, cQuestion,
    certificate>>
vaultIndexer == <<vEvents, vCheckpoint, vPass, vAwaited, vStraggled>>
certifierIndexer == <<cEvents, cCheckpoint, cPass, cAwaited, cStraggled>>
tables == <<vRow, vScope, cRow, cScope>>

vaultSide == <<vaultContract, vaultIndexer, vRow, vScope>>
certifierSide == <<certifierContract, certifierIndexer, cRow, cScope>>
vars == <<vaultSide, certifierSide, faults>>

Passes == 1..MaxPasses

Init ==
  /\ Vault!AppInit
  /\ Certifier!AppInit
  /\ <<vScope, cScope>> \in Scopes
-----------------------------------------------------------------------------
(* One side steps: its contract, or its pass over the contract.            *)
VaultSteps ==
  /\ \/ Vault!ContractStep /\ UNCHANGED <<vRow, vScope>>
     \/ \E p \in Passes : Vault!PassStep(p)
  /\ UNCHANGED certifierSide

CertifierSteps ==
  /\ \/ Certifier!ContractStep /\ UNCHANGED <<cRow, cScope>>
     \/ \E p \in Passes : Certifier!PassStep(p)
  /\ UNCHANGED vaultSide

(* The tick's pass over a contract, which is over at once if there is no   *)
(* new block.                                                              *)
VaultBegins ==
  IF vCheckpoint < Len(vEvents) THEN \E p \in Passes : Vault!StartPass(p)
  ELSE UNCHANGED <<vaultIndexer, faults>>

CertifierBegins ==
  IF cCheckpoint < Len(cEvents) THEN \E p \in Passes : Certifier!StartPass(p)
  ELSE UNCHANGED <<certifierIndexer, faults>>

Tick ==
  /\ vAwaited \cup cAwaited = {}
  /\ vCheckpoint < Len(vEvents) \/ cCheckpoint < Len(cEvents)
  /\ VaultBegins
  /\ CertifierBegins

(* A throw in the pass that the tick awaits ends the tick; the error of a  *)
(* straggler reaches nobody.                                               *)
VaultThrows(p) ==
  /\ Vault!Throw(p)
  /\ cAwaited' = IF p \in vAwaited THEN {} ELSE cAwaited
  /\ UNCHANGED <<cEvents, cCheckpoint, cPass, cStraggled>>

CertifierThrows(p) ==
  /\ Certifier!Throw(p)
  /\ vAwaited' = IF p \in cAwaited THEN {} ELSE vAwaited
  /\ UNCHANGED <<vEvents, vCheckpoint, vPass, vStraggled>>

(* So does a throw in one of the four passes that are not modelled here.   *)
NeighbourThrows ==
  /\ vAwaited \cup cAwaited # {}
  /\ Vault!Fault /\ Certifier!Fault
  /\ vAwaited' = {} /\ cAwaited' = {}
  /\ UNCHANGED <<vPass, cPass>>

Restart ==
  /\ \E p \in Passes : Vault!Running(p) \/ Certifier!Running(p)
  /\ Vault!Stop
  /\ Certifier!Stop

Next ==
  \/ VaultSteps
  \/ CertifierSteps
  \/ /\ \/ Tick
        \/ \E p \in Passes : VaultThrows(p) \/ CertifierThrows(p)
        \/ NeighbourThrows
        \/ Restart
     /\ UNCHANGED <<vaultContract, certifierContract, tables>>

Spec == Init /\ [][Next]_vars
-----------------------------------------------------------------------------
(* What the contracts promise.                                             *)
GrantInv == Vault!GrantInv
OverpaidAfterReclaimOnly == Vault!OverpaidAfterReclaimOnly
CheckInv == Certifier!CheckInv

(* What the tables and the pages make of it, under the one timer.          *)
SiteAgrees ==
  Vault!LedgerNeverShort /\ Vault!PageIsRight /\ Certifier!ChecksMirrored
=============================================================================
