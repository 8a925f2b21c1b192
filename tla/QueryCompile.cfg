SPECIFICATION QCSpec
CONSTANTS
    Nesting = 2
    FieldMap <- Columns
    MaxArraySize = 2
    MaxStringLen = 2
    Filters <- AllFilters
    ComposedFilters <- AndTrees
    Rows <- TableRows
    Sort <- SizeThenId
    Cursor <- AfterFirst
    Limit = 2
    Owner <- One_
INVARIANTS StatementSelects PlaceholdersMatchParams CompilesWhenWellFormed
CHECK_DEADLOCK FALSE
