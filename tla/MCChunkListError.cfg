SPECIFICATION MCSpec
SYMMETRY Alike
CONSTANTS
  Fds = {f1, f2, f3}
  a = a
  b = b
  c = c
  Chunks = {0, 1}
  MaxOpens = 2
  Indices = {0, 1, 2}
  FileChunks <- TwoFiles
  Deletable = {1}
  MaxWrites = 2
  MaxCrashes = 2
  ErrorsInGet = TRUE
INVARIANT NothingThrown
