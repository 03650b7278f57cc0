SPECIFICATION PersistSpec
CONSTANTS
  v1 = v1
  v2 = v2
  c1 = c1
  k1 = k1
  MaxID = 2
  Keys = {k1}
  ScriptVars = {v1, v2}
  CallArgs = {c1}
  Mods <- TwoMods
  ModOf <- OneOfEach
  NumericWords <- RoundNumbers
  MaxRefs = 3
  MaxLoads = 2
INVARIANTS NewIDsAreFresh RemovedModsForgotten
PROPERTIES ArraysSurvive
