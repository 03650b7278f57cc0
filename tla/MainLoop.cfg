SPECIFICATION Spec
CONSTANTS
  c1 = c1
  c2 = c2
  Calls = {c1, c2}
  MaxDelay = 2
  Delays = {1, 2}
  ActiveSets <- GameOrAlways
  MaxDeferred = 1
  MaxNew = 1
INVARIANTS IteratorsValid TimelyCalls
CHECK_DEADLOCK FALSE
