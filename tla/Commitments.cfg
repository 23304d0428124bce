\* Four commitments, of a period of 3, a window of 2 and 4 active levels.
SPECIFICATION FairSpec
CONSTANTS
  Operations = {1, 2, 3}
  Scripts <- MCScripts
  Origination = 1
  Period = 3
  ChallengeWindow = 2
  ActiveLevels = 4
  Limit = 2
  Delay = 4
  MaxCommitments = 4
  MaxHead = 17
INVARIANTS TypeOK SealedByCommitment ClosedForCause CountIsSound EstimateHolds
PROPERTIES ExpiredForGood NeverReopened CementsHandled EventuallyDecided
CHECK_DEADLOCK FALSE
