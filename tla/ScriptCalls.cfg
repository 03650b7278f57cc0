\* One function, one script, two lambdas of either, two holders.
CONSTANTS
  F = F
  S = S
  A = A
  B = B
  h1 = h1
  h2 = h2
  Functions = {F}
  Scripts = {S}
  Lambdas = {A, B}
  Homes <- TheHomes
  Refs <- TheRefs
  Holders = {h1, h2}
  kMaxNestDepth = 3
  Lists = {1, 2, 3, 4, 5, 6, 7, 8}
  MaxCalls = 4
  Careful = TRUE
SPECIFICATION Spec
SYMMETRY Alike
INVARIANTS CallsOwnLists LambdasKept
PROPERTY VariablesStay
