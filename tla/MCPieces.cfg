SPECIFICATION MCSpec
CONSTANTS
  p1 = p1
  p2 = p2
  p3 = p3
  q1 = q1
  q2 = q2
  Peers <- ThreePeers
  NumBlocks = 1
  Length = 2
  MaxTransfers = 2
  MaxStalled = 0
  MaxDissimilar = 1
  PieceLen = 5
  EncryptSize = 2
  ExtLen = 2
  Budget = 6
SYMMETRY Perms
INVARIANTS
  BlocksMatch
  WireAccounted
  WritesIntact
  
CHECK_DEADLOCK FALSE
