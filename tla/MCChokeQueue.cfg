SPECIFICATION MCSpec
CONSTANTS
  p1 = p1
  p2 = p2
  p3 = p3
  d1 = d1
  d2 = d2
  g1 = g1
  g2 = g2
  Peers <- ThreePeers
  Downloads <- TwoDownloads
  Groups <- TwoGroups
  DownloadOf <- OfThree
  SlotLimits = {0, 1}
  SlotMinimums = {1}
  GroupLimits <- Limits
  GlobalLimits = {0, 2}
  Events = {1, 2}
  Backends = {"epoll", "kqueue"}
  MaxOpens = 2
  MaxChanges = 2
  MaxBatch = 2
SYMMETRY Perms
INVARIANTS
  QueuesMatch
  SlotsWithinLimits
  
  HandlersAreLive
