SPECIFICATION AppSpec
CONSTANTS
  Ids = {i1, i2, i3}
  SpareId = i3
  Bond = 1
  NoLink = unlinked
  Policies = {p1, p2}
  FirstPolicy = p1
  Payouts = {1, 2}
  Unpayable <- OneRejects
  MaxDonation = 1
  Scopes <- ContractOrMirror
  MaxPasses = 2
  MaxFaults = 1
SYMMETRY Symmetry
INVARIANTS
  PolicyInv
  StrandedByForceOnly
  SiteAgrees
CHECK_DEADLOCK FALSE
