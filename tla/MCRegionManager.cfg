SPECIFICATION Spec
CONSTANTS
  Regions = {r1, r2, r3, r4}
  Cores = {c1}
  Slots = 2
  MaxPerRound = 2
  None = None
SYMMETRY Symmetry
INVARIANTS TypeOK OneHandle CollectedIsQuiet
