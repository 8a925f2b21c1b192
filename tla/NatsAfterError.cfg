CONSTANTS
    End = {a, b}
    Writing = {a}
    MaxBytes = 2
    MaxChunk = 2
SPECIFICATION Spec
INVARIANT FailuresAreErrors
