SPECIFICATION FairSpec
CONSTANTS
  c1 = c1
  r1 = r1
  f = f
  g = g
  a = a
  Events = {c1, r1}
  Classic = {c1}
  FlushEvents = {r1}
  Funcs = {f, g}
  FlushFuncs = {g}
  Args = {a}
  Priorities <- TwoPriorities
  LoadWhileDeferred = FALSE
  MaxNodes = 2
  MaxDeferred = 1
  MaxDepth = 2
INVARIANT HandlersSound
PROPERTIES DispatchComplete TicksCatchUp
