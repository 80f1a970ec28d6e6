\* Four messages of two values: a success frame, data and an empty response
\* that is not the first.  The browser may stop reading.
CONSTANTS
    Lines = {0, 1}
    MaxMessages = 4
    MayReject = TRUE
SPECIFICATION FairSpec
INVARIANTS
    CancelClosedOnce
    OneWriter
    ClosedIsExplained
PROPERTIES
    GoneEndsAll
    StreamEndEndsAll
\* The handler ends.
CHECK_DEADLOCK FALSE
