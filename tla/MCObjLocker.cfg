SPECIFICATION LockerFairSpec
CONSTANTS
  Threads = {t1, t2, t3, t4}
  i1 = i1
  i2 = i2
  i3 = i3
  m1 = m1
  m2 = m2
  Ids = {i1, i2, i3}
  Maps = {m1, m2}
  hash_func <- SharedMap
  NoId = NoId
INVARIANTS OneHolder SleepersHaveHolder
PROPERTY Progress
