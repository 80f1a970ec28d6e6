\* Three sockets: two of which the browser has still to report the end, and one
\* that is being opened.  One caller of write beside _connect.
CONSTANTS
    Sockets = {s1, s2, s3}
    MaxWrites = 1
    None = None
SPECIFICATION FairSpec
INVARIANTS
    OneConnection
    KeepsTrying
    BacksOff
PROPERTIES
    ImplementsSubscription
    Reconnects
\* A client that was closed comes to rest.
CHECK_DEADLOCK FALSE
