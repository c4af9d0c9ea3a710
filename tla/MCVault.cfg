SPECIFICATION Spec
CONSTANTS
  Ids = {i1, i2, i3}
  Bond = 0
  NoLink = unlinked
  Grants = {g1, g2}
  Slots = {0, 1}
  Amounts = {1, 2}
  Hashes = {h1, h2}
  MaxChecks = 3
  MaxPasses = 2
  MaxFaults = 1
  GrantScopes <- GrantScopesUsed
  CheckScopes <- CheckScopesUsed
  Scopes <- ScopesUsed
SYMMETRY Symmetry
INVARIANTS
  GrantInv
  OverpaidAfterReclaimOnly
  SiteAgrees
  CheckInv
CHECK_DEADLOCK FALSE
