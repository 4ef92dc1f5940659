SPECIFICATION MCSpec
CONSTANTS
  ht = ht
  ud = ud
  Http = {ht}
  Udp = {ud}
  NoTracker = NoTracker
  Scenes <- MCScenes
INVARIANT RequestingIsBusy
CHECK_DEADLOCK FALSE
