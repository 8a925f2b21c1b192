SPECIFICATION Spec
CONSTANTS
    Chars = {"(", ")", "&", "|", "=", ",", "@", "'"}
    MaxLength = 6
    Nesting = 2
INVARIANT ParsesGrammar
CHECK_DEADLOCK FALSE
