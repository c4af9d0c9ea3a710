SPECIFICATION FairSpec
CONSTANTS
  Ids = {i1}
  Accounts = {alice}
  NoAccount = none
  Enforcers = {e1}
  Escalation = panel
  Bonds = {1}
  Periods = {0}
  MinPeriod = 0
  MaxPeriod = 0
  Rejecting = {}
  Trusts <- AllTrusted
  MaxDonation = 0
  ATTEMPTS = 2
  MaxPasses = 2
  MaxFaults = 1
  MaxBadReads = 1
INVARIANTS
  MirrorInv
  LoggedIsOnChain
  NothingSkipped
  MirrorSettles
PROPERTIES
  JudgedOrGivenUp
  VerdictsAreFinalised
CHECK_DEADLOCK FALSE
