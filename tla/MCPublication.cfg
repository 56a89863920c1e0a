SPECIFICATION FairSpec
CONSTANTS
  s1 = s1
  s2 = s2
  t1 = t1
  t2 = t2
  Shards = {s1, s2}
  Targets = {t1, t2}
  Owned <- MCOwned
  FreshCheckout = TRUE
  MaxVersion <- MCMaxVersion
  FaultCap = 1
INVARIANTS
  RemoteStateNeverAhead
PROPERTIES
  KeepsOrder
  PayloadArrives
  RunEnds
