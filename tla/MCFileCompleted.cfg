SPECIFICATION Spec
CONSTANTS
  ChunkSizes = {2, 3}
  Sizes = {1, 2, 3}
  MaxFiles = 3
INVARIANTS
  CompletedFits
CHECK_DEADLOCK FALSE
