CONSTANTS
  Programs <- MethodPrograms
  Compiled <- MCCompiled
  Globals <- MCGlobals
  CompileThreshold = 2
  MaxCode = 500
SPECIFICATION MSpec
INVARIANT SlowPathWorks
CHECK_DEADLOCK FALSE
