SPECIFICATION FairSpec
CONSTANTS
  Threads = {t1, t2}
  Masters = {g1, g2, g3}
  NumRegions = 4
  AlmostEmpty = 0
  Low = 1
  High = 2
  MaxPerRound = 2
CONSTRAINT OneRace
INVARIANTS TypeOK OneMaster FewMasters SleepersHaveHelp
PROPERTY PauseEnds
\* The process may exit for want of memory.
CHECK_DEADLOCK FALSE
