SPECIFICATION Spec
CONSTANTS
  Ids = {i1, i2}
  Bond = 0
  NoLink = unlinked
  Grants = {g1, g2}
  Slots = {0}
  Amounts = {1}
INVARIANT NeverOverpaid
CHECK_DEADLOCK FALSE
