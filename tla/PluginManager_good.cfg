SPECIFICATION Spec
CONSTANTS
  N = 2
  Fates <- AnyFate
  HandleFrom <- OnLoad
  RegisterIn <- RegisterEarly
  DispatchIn <- DispatchLate
  MaxDepth = 2
INVARIANTS PluginsAnswer ListenersHearOnce
PROPERTIES ListStableInDispatch
CHECK_DEADLOCK FALSE
