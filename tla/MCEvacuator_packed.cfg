SPECIFICATION Spec
CONSTANTS
  Threads = {t1}
  Ptrs = {p1, p2}
  Regions = {r1, r2}
  Cores = {c1}
  Slots = 2
  HotThresh = 1
  MaxRaws = 2
  GC = GC
  None = None
SYMMETRY Symmetry
INVARIANTS RawIsOwned NoLostUpdate ReclaimedIsDead
CONSTRAINT OnlySplitYet
