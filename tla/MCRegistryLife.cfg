SPECIFICATION Spec
CONSTANTS
  Ids = {i1}
  Accounts = {alice, bob}
  NoAccount = none
  Enforcers = {e1, e2}
  Escalation = panel
  FirstEnforcer = e1
  Bonds = {0, 1}
  Periods = {0, 1, 2, 3}
  MinPeriod = 1
  MaxPeriod = 2
  Rejecting = {bob}
  Trusts <- FirstTrusted
  MaxDonation = 1
INVARIANTS
  WindowHonoured
  NeverStuck
  EscapeHatch
  RegistryInv
PROPERTY KeepsThePromise
CHECK_DEADLOCK FALSE
