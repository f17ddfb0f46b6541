CONSTANTS
  Programs <- MethodPrograms
  Compiled <- MCCompiled
  Globals <- MCGlobals
  CompileThreshold = 2
  MaxCode = 500
SPECIFICATION MSpec
INVARIANTS OneHolder SelfCallsAreSafe LoopsHaveBlocks
PROPERTIES Implements Ending
CHECK_DEADLOCK FALSE
