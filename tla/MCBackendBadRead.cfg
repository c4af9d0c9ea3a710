SPECIFICATION FairSpec
CONSTANTS
  Ids = {i1}
  Accounts = {alice}
  NoAccount = none
  Enforcers = {e1}
  Escalation = panel
  Bonds = {1}
  Periods = {1}
  MinPeriod = 1
  MaxPeriod = 1
  Rejecting = {}
  Trusts <- AllTrusted
  MaxDonation = 0
  ATTEMPTS = 1
  MaxPasses = 2
  MaxFaults = 0
  MaxBadReads = 1
PROPERTY VerdictsNeverRest
CHECK_DEADLOCK FALSE
