\* Lines of up to 3 bytes against a buffer of 2: a line is cut across writes,
\* a write joins lines; two goroutines keep a channel of one full.
CONSTANTS
    Threads = {t1, t2}
    ChanCap = 1
    BufferSize = 2
    MaxLine = 3
    MaxCalls = 4
SPECIFICATION FairCache
INVARIANTS
    AnswerBelongsToWaiter
    OnlyFreezeStops
PROPERTIES
    SyncAnswered
    ImplementsAsyncLog
\* The cache really may freeze, and callers may stop logging.
CHECK_DEADLOCK FALSE
