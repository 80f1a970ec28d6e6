\* Capacity as in the code; four lines overflow a channel of two twice.  No
\* client is obliged to read.
CONSTANTS
    Clients = {c1, c2}
    Capacity = 2
    MaxLines = 4
    Nobody = Nobody
SPECIFICATION FairSpec
INVARIANTS
    NewestKept
    QueueUnbroken
PROPERTIES
    BroadcastEnds
\* The lines are bounded and clients leave, so the system may stop.
CHECK_DEADLOCK FALSE
