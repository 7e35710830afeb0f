SPECIFICATION Spec
CONSTANTS
  Threads = {t1, t2}
  Ptrs = {p1, p2}
  Regions = {r1, r2, r3}
  Cores = {c1}
  Slots = 1
  HotThresh = 0
  MaxRaws = 1
  GC = GC
  None = None
SYMMETRY Symmetry
INVARIANT AllSwitched
