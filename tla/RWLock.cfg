SPECIFICATION FairSpec
CONSTANTS
  Readers = {r1, r2}
  Writers = {w1, w2}
  NumCores = 2
  MaxCnt = 1
  None = None
INVARIANTS Exclusion Counted
PROPERTIES WriterGetsIn ReaderGetsIn
