CONSTANTS
    Pieces = {"{", "}", "json", "prefix", "pk_autoinc", " ", "INTEGER"}
    MaxLength = 6
    Prefix = "app"
SPECIFICATION Spec
INVARIANT RenderedAsDocumented
CHECK_DEADLOCK FALSE
