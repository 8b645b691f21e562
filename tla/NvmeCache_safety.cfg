SPECIFICATION Spec
CONSTANTS
  k1 = k1  k2 = k2  k3 = k3  t1 = t1  t2 = t2
  Threads = {t1, t2}
  Keys = {k1, k2, k3}
  Workloads <- MCAll
  ClaimedSize <- MCClaimedSize
  MaxSizeBytes = 3
  Faults = {"populate", "scan", "unlink", "crash"}
  NoThread = NoThread
  NoKey = NoKey
SYMMETRY MCSymmetry
INVARIANTS TypeOK OpenFindsEntry SinglePopulation EntriesExact BytesExact
