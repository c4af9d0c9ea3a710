SPECIFICATION FairWorkerSpec
CONSTANTS
  Ids = {i1}
  Accounts = {alice}
  NoAccount = none
  Enforcers = {e1}
  Escalation = panel
  Bonds = {1}
  Periods = {1}
  MinPeriod = 1
  MaxPeriod = 1
  Rejecting = {}
  Trusts <- AllTrusted
  MaxDonation = 0
  MaxTokens = 3
  JudgeTokens = {0}
  Calls = {"TRUE", "FALSE", "INVALID"}
  PanelTokens <- ThreePanellists
  ATTEMPTS = 2
INVARIANTS
  WorkerInv
  RulingAsTold
PROPERTY ChallengeIsRuled
CHECK_DEADLOCK FALSE
