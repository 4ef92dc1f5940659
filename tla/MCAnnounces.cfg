SPECIFICATION MCSpec
CONSTANTS
  ht = ht
  ud = ud
  Http = {ht}
  Udp = {ud}
  NoTracker = NoTracker
  Scenes <- MCScenes
INVARIANTS
  
  QueriesAccounted
  
  
  PeersAreOwned
PROPERTIES
  CleanedUp
CHECK_DEADLOCK FALSE
