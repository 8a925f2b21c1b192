SPECIFICATION Spec
CONSTANTS
    Nesting = 1
    FilterFields <- Allowed
    SortableFields <- Sortable
    GroupableFields <- Groupable
    DefaultSort <- CreatedFirst
    DefaultSize = 1
    MaxSize = 3
    DefaultMode = "cursor"
    Pairs <- AllPairs
    MaxPairs = 4
    Numerals <- Digits
    MaxArraySize = 2
    MaxStringLen = 2
    None = None
INVARIANTS PageIsWhatWasAsked NothingDropped AcceptedQueriesCompile
CHECK_DEADLOCK FALSE
