\* Two tickets, two proxies, two users, one answer that cannot be decoded.
SPECIFICATION FairSpec
CONSTANTS
  fa = fa  late = late  proxy = proxy  other = other  ann = ann  bob = bob
  Tickets = {fa, late}
  Owners = {proxy, other, ann, bob}
  Addresses = {ann, bob}
  None = None
  Scripts <- MCScripts
  MaxFaults = 1
INVARIANTS TypeOK NeverMisclassified CreditsExplained
PROPERTIES EventuallyHandled
CHECK_DEADLOCK FALSE
