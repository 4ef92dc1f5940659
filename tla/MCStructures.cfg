SPECIFICATION MCSpec
CONSTANTS
  Threads = {main, net, tracker}
  MaxPosts = 2
  MaxCancels = 3
  d1 = d1
  d2 = d2
  d3 = d3
  d4 = d4
INVARIANTS
  CancelledNeverRuns
  DroppedOnlyIfCancelled
  StructuresMatch
PROPERTIES
  EveryCancelReturns
  SlotsTerminate
CHECK_DEADLOCK FALSE
