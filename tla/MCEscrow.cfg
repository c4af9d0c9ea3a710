SPECIFICATION FairAppSpec
CONSTANTS
  Ids = {i1, i2}
  Bond = 0
  NoLink = unlinked
  Escrows = {e1, e2}
  FirstEscrow = e1
  Amounts = {1, 2}
  Unpayable <- OneRefused
  Scopes <- ContractOrMirror
  MaxPasses = 2
  MaxFaults = 1
INVARIANTS
  EscrowInv
  RulingObeyed
  SiteAgrees
PROPERTY DisputeEnds
CHECK_DEADLOCK FALSE
