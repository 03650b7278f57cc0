\* Every text of up to four leaves, every scrap of up to four tokens, and
\* operands of changing type; each evaluated twice.
CONSTANTS
  Inputs <- AllInputs
  Numbers = {0, 1}
  MaxRounds = 2
SPECIFICATION Spec
INVARIANTS CompilesAsWritten EvaluatesAsWritten
CHECK_DEADLOCK FALSE
