SPECIFICATION Spec
CONSTANTS
    File = {"main", "a", "b", "c"}
    Main = "main"
    NoFile = NoFile
    Alias = {"m", "k"}
    None = None
    Texts <- MCTexts
    Protected <- MCProtected
    Constant <- MCConstant
INVARIANTS TypeOK IncludesFirst RejectedForCycle NoFileTwice NamesResolve
PROPERTY Terminates
\* Expansion ends.
CHECK_DEADLOCK FALSE
