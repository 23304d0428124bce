\* Under fair indexing every L1 leg finds its operation, at the latest when the indexes
\* have reached the head; neither a restart nor a commitment loses one.
SPECIFICATION FairSpec
CONSTANTS
  Withdrawals <- MCTwo
  Payouts <- MCPayouts
  Scripts <- MCPairs
  Limit = 1
  MaxCrashes = 1
  MaxCements = 1
INVARIANTS SynchronizedMeansDone
PROPERTIES EventuallyPaid
CHECK_DEADLOCK FALSE
