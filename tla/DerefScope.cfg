SPECIFICATION FairSpec
CONSTANTS
  Threads = {t1, t2}
  NumCPUs = 2
  MaxDrift = 2
PROPERTIES CountsScopes WaitEnds
