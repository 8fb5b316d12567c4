SPECIFICATION Spec
CONSTANTS
  cli = cli
  chat = chat
  drive = drive
  none = none
  Caller <- Trio
  Process <- Trio
  Runs <- OwnProcess
  Mortal <- Doomed
  NoCaller <- none
  MaxTitle = 2
  MaxTasks = 3
  MaxUpdates = 0
  MaxMoves = 0
INVARIANT
  IdsDistinct
CHECK_DEADLOCK FALSE
