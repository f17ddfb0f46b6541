SPECIFICATION Spec
CONSTANTS
    Missing = Missing
    Key = {1, 2}
    Val = {1}
    Literals <- MCLiterals
    Schema <- MCSchema
    Predicate <- MCPredicate
    RowTest <- MCRowTest
    MaxOps = 4
PROPERTY RemoveDeletesMatching
\* The program ends, or its thread panics.
CHECK_DEADLOCK FALSE
