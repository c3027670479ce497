CONSTANTS
    a = a
    b = b
    Names <- MCNames
    Paths <- MCPaths
    Locked <- MCLocked
    Wow64 = TRUE
    Lists <- MCLists
    MaxChanges = 2
SPECIFICATION Spec
INVARIANTS
    HandlesClosed
PROPERTIES
    DeletesAll
    OtherViewKept
    ReadsBack
