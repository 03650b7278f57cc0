\* Two mods with a variable each, three IDs, functions one deep.
CONSTANTS
  A = A
  B = B
  x = x
  y = y
  Mods = {A, B}
  ModOf <- TwoVariables
  Texts = {"s"}
  MaxID = 3
  MaxDepth = 2
  MaxOperands = 2
  Careful = TRUE
SPECIFICATION Spec
INVARIANTS StringsApart OperandsKept NoneLeft
PROPERTIES StringsSurvive
SYMMETRY Alike
