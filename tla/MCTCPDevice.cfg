SPECIFICATION Spec
CONSTANTS
  Threads = {t1, t2}
  Main = Main
  Cores = {c1, c2}
  kNumCachedItemsPerCPU = 1
  Slaves = {s1, s2, s3, s4}
  M = M
  DSIds <- MCDSIds
  kVanillaPtrDSID = 0
  Fresh = Fresh
  MaxSessions = 2
  None = None
SYMMETRY Symmetry
INVARIANTS TypeOK NeverStarved RepliesFit NeverBugs NoHang
CHECK_DEADLOCK FALSE
CONSTRAINT SoundYet
