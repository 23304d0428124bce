\* A fast withdrawal executed in time, whose execution is indexed after the commitment
\* that closes its window.
SPECIFICATION Spec
CONSTANTS
  Withdrawals <- MCOne
  Payouts <- MCPayout
  Scripts <- MCPaidOutById
  Limit = 1
  MaxCrashes = 0
  MaxCements = 1
INVARIANT ExecutionFindsMessage
CHECK_DEADLOCK FALSE
