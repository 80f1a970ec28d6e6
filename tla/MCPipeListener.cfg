\* Two acceptors, two dialers, two closers: the smallest instance with a race
\* on each side of the rendezvous and between two Close calls.
CONSTANTS
    Acceptors = {a1, a2}
    Dialers = {d1, d2}
    Closers = {c1, c2}
SPECIFICATION FairPipe
INVARIANTS
    NeverClosedTwice
PROPERTIES
    ImplementsListener
    ClosedReleasesAll
\* Calls end and an acceptor without a dialer waits forever.
CHECK_DEADLOCK FALSE
