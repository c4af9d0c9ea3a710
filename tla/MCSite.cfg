SPECIFICATION SiteSpec
CONSTANTS
  First = f1
  Second = f2
  Transcript = t
  Pieces = {f1, f2}
  Blobs = {f1, f2, t}
  Latency = 1
  Calls = {judge, other}
  JudgeCall = judge
  MIN_LEDGER = 2
  Viewers = {v1, v2}
  NoOutcome = none
  ATTEMPTS = 2
  MaxFaults = 1
  Scopes <- OnePartVaries
  small = small
  large = large
  Forms = {small, large}
  Need <- Amounts
  Someone = someone
  FAUCET_CAP = 2
  Runs = 2
INVARIANTS
  CaseInv
  CallsAreSound
  FormsInv
PROPERTIES
  ReadsWhatArrived
  WatcherLearns
  ApprovedInTime
CHECK_DEADLOCK FALSE
