SPECIFICATION MCSpec
CONSTANTS
  Chunks = {c1, c2, c3}
  Ids = {d1, d2}
  NoId = NoId
  NoChunk = NoChunk
  MaxPushes = 5
  Size = 4
  OutstandingLimit = 1
  MaxErrors = 2
  RestartInDelay = FALSE
INVARIANTS
  HashesLiveChunks
  CheckIsRight
  
PROPERTIES
  ImplementsService
  CheckEnds
