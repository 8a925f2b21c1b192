CONSTANTS
    Row = {1, 2, 3, 4}
    Column = {"a"}
    Stored = {1, 2}
    Null = Null
    None = None
    KeyField = "id"
    GroupColumn = "a"
    Size = 2
    Sorts <- MixedSorts
    ExactUpTo = 4
    NullsLowest = TRUE
SPECIFICATION Spec
INVARIANTS TypeOK NothingSkipped PagesAscend
PROPERTY CursorAdvances
