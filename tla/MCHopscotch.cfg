SPECIFICATION Spec
CONSTANTS
  Threads = {t1, t2}
  k1 = k1
  k2 = k2
  k3 = k3
  Keys = {k1, k2, k3}
  ShortKeys = {k2}
  Vals = {v1, v2}
  Home <- MCHome
  NumHomes = 2
  kNeighborhood = 2
  kMaxRetries = 0
  Loaded <- MCLoaded
  MaxOps = 3
  MaxFails = 1
  Null = Null
  kBusyPtr = kBusyPtr
  None = None
SYMMETRY Symmetry
INVARIANTS TypeOK NothingLeaks
PROPERTIES ChangedByOps GetIsRight
CONSTRAINT SoundYet
