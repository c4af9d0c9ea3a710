SPECIFICATION PanelSpec
CONSTANTS
  Ids = {i1, i2}
  Accounts = {alice}
  NoAccount = none
  Enforcers = {e1}
  Escalation = panel
  Bonds = {1}
  Periods = {0}
  MinPeriod = 0
  MaxPeriod = 0
  Rejecting = {}
  Trusts <- AllTrusted
  MaxDonation = 0
  MaxTokens = 3
  JudgeTokens = {1}
  Calls = {"TRUE", "FALSE", "INVALID"}
  ann = ann
  bob = bob
  h = h
  g = g
  Holders = {ann, bob}
  Nobody = nobody
  Verifiers = {v1, v2}
  FirstVerifier = v1
  VerifierType <- TypesUsed
  ZeroHash = zero
  Proofs <- ProofsUsed
  DataLists <- TwoSlots
  Users = {bob}
  MaxSlots = 2
  Minter = ann
  MaxHeld = 2
  Scopes = {{"appeals"}, {"ownership"}}
SYMMETRY Symmetry
INVARIANTS
  AppealInv
  PanelCloses
  AppealLanded
  ScoresAddUp
  TokenInv
CHECK_DEADLOCK FALSE
