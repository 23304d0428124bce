\* The backfill, killed at any statement, twice: a new database and one upgraded from
\* the dipdup_meta queue; level 1 precedes the origination.
SPECIFICATION Spec
CONSTANTS
  Kinds <- MCAllKinds
  Origination = 2
  FirstLevel = 1
  PageLimit = 2
  Full <- MCSecond
  Hashable <- MCLast
  Legacy <- MCLegacy
  RollbackAcrossRestart = FALSE
  MaxMessages = 3
  MaxLevel = 2
  MaxHead = 0
  MaxCrashes = 2
  MaxRollbacks = 0
INVARIANTS TypeOK Inv OwedOrServed NothingBelowOrigination
