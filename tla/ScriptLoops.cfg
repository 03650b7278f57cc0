\* Texts of up to five words, ten longer ones, calls two deep.
CONSTANTS
  Texts <- AllTexts
  Library <- Called
  Keys = {1, 2, 3}
  MaxDepth = 3
  MaxLeft = 1
  Careful = TRUE
  KeepCurrent = TRUE
SPECIFICATION Spec
INVARIANTS AcceptsScripts StacksAsWritten
PROPERTIES RunsAsWritten EachElementGiven
CHECK_DEADLOCK FALSE
