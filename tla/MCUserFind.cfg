\* Three seconds and three changes: two in one second, one that moves the
\* time; two writers, so that stamps may be committed in the other order.
\* One client that polls: clients only read.
CONSTANTS
    Clients = {c1}
    Writers = {w1, w2}
    MaxTime = 3
    MaxChanges = 3
    Nothing = Nothing
SPECIFICATION PollSpec
INVARIANTS
    StaleOnlyUnmoved
PROPERTY MovedIsSeen
