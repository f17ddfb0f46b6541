CONSTANTS
  Programs <- NegativePrograms
  Compiled <- MCCompiled
  Globals <- MCGlobals
  JumpThreshold = 2
  LoopThreshold = 2
SPECIFICATION JSpec
PROPERTY CompletelyTransparent
CHECK_DEADLOCK FALSE
