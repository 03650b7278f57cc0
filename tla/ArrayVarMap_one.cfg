SPECIFICATION FairSpec
CONSTANTS
  v1 = v1
  v2 = v2
  c1 = c1
  k1 = k1
  MaxID = 3
  Keys = {k1}
  ScriptVars = {v1, v2}
  CallArgs = {c1}
  Mods <- OneMod
  ModOf <- ModOfOne
  NumericWords <- RoundNumbers
  MaxRefs = 3
INVARIANTS TypeOK NoDanglingReference Bookkeeping
PROPERTIES CleanCollectsGarbage CleanTerminates ImplementsRefHeap
