SPECIFICATION MCSpec
CONSTANTS
  Entries = {e1, e2}
  NoEntry = noEntry
  Delays = {0, 1, 2}
  MaxTimeout = 2
  MaxTime = 3
  MaxHandles = 3
  Fds = {1, 2}
  MaxOpens = {511, 512, 1024}
  Allocs = {0, 1, 400}
  Unmanaged = {510, 511}
  Scenes = {"limits", "sockets"}
  MaxPort = 2
  PortScenes <- MCPortScenes
  Lone6 = FALSE
INVARIANTS
  HandlesMatch
  SleepsNoLonger
  
  
  
PROPERTIES
  SocketsAccounted
