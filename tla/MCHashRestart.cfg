SPECIFICATION CheckSpec
CONSTANTS
  Size = 4
  OutstandingLimit = 1
  MaxErrors = 2
  RestartInDelay = TRUE
INVARIANT NothingThrown
