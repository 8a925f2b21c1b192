CONSTANTS
    Callers <- TwoCallers
    MaxCalls = 2
    Errors <- TwoErrors
SPECIFICATION Spec
INVARIANT AnswersAreComplete
PROPERTIES OnlyAPeerIsMissing EveryCallReturns
CHECK_DEADLOCK FALSE
