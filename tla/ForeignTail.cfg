\* A page that ends on a transfer to another rollup.
SPECIFICATION Spec
CONSTANTS
  Kinds <- MCAllKinds
  Origination = 1
  FirstLevel = 1
  PageLimit = 2
  Full <- MCFirst
  Hashable <- MCBoth
  Legacy <- MCNone
  RollbackAcrossRestart = FALSE
  MaxMessages = 2
  MaxLevel = 2
  MaxHead = 2
  MaxCrashes = 0
  MaxRollbacks = 0
PROPERTY WalkStandsOnLastMessage
