CONSTANTS
    End = {a, b}
    Writing = {a}
    MaxBytes = 2
    MaxChunk = 2
SPECIFICATION FairSpec
INVARIANTS TypeOK OpenEndMissesNothing FlushMeansPublished EndAfterDelivered
PROPERTIES ImplementsByteStream NoWriteAfterFailure FlushReturns
