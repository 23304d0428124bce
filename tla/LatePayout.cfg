\* A fast withdrawal paid out by a provider and then executed, whose execution is
\* indexed first.
SPECIFICATION Spec
CONSTANTS
  Withdrawals <- MCOne
  Payouts <- MCPayout
  Scripts <- MCPaidOutHere
  Limit = 1
  MaxCrashes = 0
  MaxCements = 0
PROPERTY DroppedOnlyIfLate
CHECK_DEADLOCK FALSE
