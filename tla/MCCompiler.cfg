CONSTANTS
  Programs <- MainPrograms
  Compiled <- MCCompiled
  Globals <- MCGlobals
SPECIFICATION MCSpec
INVARIANTS ActivationsWhole PrintsInOrder Computes TypesHold
PROPERTY Terminates
CHECK_DEADLOCK FALSE
