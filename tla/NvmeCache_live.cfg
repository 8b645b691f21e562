SPECIFICATION FairSpec
CONSTANTS
  k1 = k1  k2 = k2  k3 = k3  t1 = t1  t2 = t2
  Threads = {t1, t2}
  Keys = {k1, k2, k3}
  Workloads <- MCFew
  ClaimedSize <- MCClaimedSize
  MaxSizeBytes = 3
  Faults = {"populate"}
  NoThread = NoThread
  NoKey = NoKey
INVARIANT QuiescentBudget
PROPERTIES LruEviction CallsReturn
