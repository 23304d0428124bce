\* Two deposits of every pair of routes, alike where they can be, and bursts across the
\* kernel upgrade that made the hashes of credits derivable, with streams that overtake
\* each other, a restart and a commitment that times them out, under fair indexing.
SPECIFICATION FairSpec
CONSTANTS
  Deposits <- MCTwo
  Scripts <- MCMixed
  Gap = 2
  MaxCrashes = 1
  MaxTimeouts = 1
INVARIANTS TypeOK MatcherInv NoSharedLegs OwnCredits Settled
PROPERTIES ClosedStaysClosed KeepsPromise EventuallyClosed
CHECK_DEADLOCK FALSE
