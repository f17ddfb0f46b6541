SPECIFICATION Spec
CONSTANTS
    Missing = Missing
    Key = {1, 2}
    Val = {1}
    Literals <- MCLiterals
    Schema <- MCSchema
    Predicate <- MCPredicate
    RowTest <- MCRowTest
    MaxOps = 5
INVARIANTS TypeOK AutoIdsDistinct MemoryMirrorsDatabase WhereKeepsMatches PanicNeedsShrink
PROPERTY RemoveIsExact
\* The program ends, or its thread panics.
CHECK_DEADLOCK FALSE
