SPECIFICATION Spec
CONSTANTS
  main = main
  net = net
  disk = disk
  Posters = {main, net}
  Main = main
  Self = disk
  MaxByMain = 2
  MaxByOther = 1
INVARIANTS
  NoLostWakeup
  EachOnceInOrder
PROPERTIES
  EveryCallbackRuns
  ShutdownCompletes
CHECK_DEADLOCK FALSE
