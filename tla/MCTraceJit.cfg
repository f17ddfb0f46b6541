CONSTANTS
  Programs <- MainPrograms
  Compiled <- MCCompiled
  Globals <- MCGlobals
  JumpThreshold = 2
  LoopThreshold = 2
SPECIFICATION JSpec
INVARIANTS JTypeOK ConstantsHold TracesFollowCode
PROPERTIES Transparent Terminates
CHECK_DEADLOCK FALSE
