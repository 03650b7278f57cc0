SPECIFICATION MapSpec
CONSTANTS
  main = main
  other = other
  NoThread = NoThread
  Threads = {main, other}
  MaxID = 3
  MaxVars = 3
SYMMETRY ThreadsAlike
INVARIANTS MapSound IDsKept
