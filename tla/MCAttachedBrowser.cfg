\* One browser; a stream that is one message ahead of its reader, so that a
\* browser that does not read makes the channel of the listener overflow.
CONSTANTS
    Client = c
    Capacity = 2
    MaxLines = 4
    Window = 1
    Nobody = Nobody
SPECIFICATION FairSpec
INVARIANT BrowserInOrder
PROPERTIES
    GoneIsForgotten
    NewestReachesBrowser
\* The lines are bounded and the browser may leave.
CHECK_DEADLOCK FALSE
