SPECIFICATION Spec
CONSTANTS
  Ids = {i1, i2}
  Accounts = {alice, bob}
  NoAccount = none
  Enforcers = {e1}
  Escalation = panel
  FirstEnforcer = e1
  Bonds = {1, 2}
  Periods = {1}
  MinPeriod = 1
  MaxPeriod = 1
  Rejecting = {}
  Trusts <- AllTrusted
  MaxDonation = 0
SYMMETRY Symmetry
INVARIANTS
  Solvent
  SettledExactly
  FairSettlement
PROPERTY ResolvedIsFinal
CHECK_DEADLOCK FALSE
