SPECIFICATION FairSpec
CONSTANTS
  p1 = p1
  p2 = p2
  Core = Core
  Plugins = {p1, p2}
  Habits <- MayRegisterLess
  MinBuffer = 1
  WordSize = 256
  MaxWrite = 1
  MaxRecords = 2
  MaxData = 1
INVARIANTS BufferSound ReadsWhatWasWritten
PROPERTIES EachTold LoadsEnd
