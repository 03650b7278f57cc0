SPECIFICATION Spec
CONSTANTS
  w1 = w1
  w2 = w2
  w3 = w3
  p1 = p1
  p2 = p2
  k1 = k1
  k2 = k2
  here = here
  there = there
  Weapons = {w1, w2, w3}
  Dynamic = {w2}
  Unmarked = {w3}
  Pairs = {p1, p2}
  Sides <- OneAlikeOneNot
  Kits = {k1, k2}
  Places = {here, there}
  ExtraLists <- Extras
  InstanceMods = FALSE
  MaxInstances = 2
  MaxRefs = 2
  MaxThings = 3
  MaxSaves = 1
  MaxLoads = 1
INVARIANT InStep
PROPERTIES Restored NothingInvented
SYMMETRY Alike
CHECK_DEADLOCK FALSE
