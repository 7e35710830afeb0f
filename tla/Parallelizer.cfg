SPECIFICATION FairSpec
CONSTANTS
  NumSlaves = 2
  Depth = 2
  NumTasks = 5
  None = None
INVARIANT EachTaskOnce
PROPERTY ExecutionEnds
