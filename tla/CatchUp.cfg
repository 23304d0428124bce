\* Realtime passes with the matcher between them, two rollbacks and one crash; then the
\* index must catch up.
SPECIFICATION FairSpec
CONSTANTS
  Kinds <- MCOwnKinds
  Origination = 1
  FirstLevel = 1
  PageLimit = 2
  Full <- MCFirst
  Hashable <- MCBoth
  Legacy <- MCNone
  RollbackAcrossRestart = FALSE
  MaxMessages = 2
  MaxLevel = 2
  MaxHead = 2
  MaxCrashes = 1
  MaxRollbacks = 2
INVARIANTS InboxContiguous InsertsNeverCollide MatcherSeesEveryRow
PROPERTIES KeepsPromise EventuallyComplete EventuallyRealtime
