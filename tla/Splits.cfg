\* A fast withdrawal that two payouts name between two withdrawals alike, with indexes
\* that overtake each other, a commitment and a restart.
SPECIFICATION Spec
CONSTANTS
  Withdrawals <- MCThree
  Payouts <- MCPayouts
  Scripts <- MCSplits
  Limit = 1
  MaxCrashes = 1
  MaxCements = 1
INVARIANTS TypeOK WithdrawalInv OwnLegs OneClaimant Settled
PROPERTIES PaidStaysPaid KeepsPromise
CHECK_DEADLOCK FALSE
