\* A rollback that reverts what the process before the last restart wrote.
SPECIFICATION Spec
CONSTANTS
  Kinds <- MCOwnKinds
  Origination = 1
  FirstLevel = 1
  PageLimit = 2
  Full <- MCFirst
  Hashable <- MCBoth
  Legacy <- MCNone
  RollbackAcrossRestart = TRUE
  MaxMessages = 3
  MaxLevel = 1
  MaxHead = 2
  MaxCrashes = 1
  MaxRollbacks = 1
INVARIANT InboxContiguous
