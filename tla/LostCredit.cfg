\* A deposit never credited and a later one alike, whose credit is indexed first.
SPECIFICATION Spec
CONSTANTS
  Deposits <- MCTwo
  Scripts <- MCLost
  Gap = 2
  MaxCrashes = 0
  MaxTimeouts = 0
PROPERTY ValueOnlyForOlder
CHECK_DEADLOCK FALSE
