CONSTANTS
  Programs <- ContinuePrograms
  Compiled <- MCCompiled
  Globals <- MCGlobals
SPECIFICATION MCSpec
INVARIANT ContinueSkips
CHECK_DEADLOCK FALSE
