SPECIFICATION Spec
CONSTANTS
    first = first
    second = second
    third = third
    thread = thread
    Thread = thread
    Items <- MCItems
    Time <- MCTime
    PageSize = 2
    MaxOperations = 4
CHECK_DEADLOCK FALSE
INVARIANTS
    SignalsAreServed
    ModelFollowsDatabase
    RowsSorted
PROPERTIES
    EventuallyQuiet
