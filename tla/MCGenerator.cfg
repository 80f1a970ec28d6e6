\* Two runs: one that may be stopped anywhere, and one that finds what it has left.
CONSTANTS
    Entries <- MCEntries
    MaxRuns = 2
    None = None
SPECIFICATION Spec
INVARIANTS
    Complete
    SameUuid
    FreshSucceeds
PROPERTIES
    SupplementKeeps
\* The runs are over.
CHECK_DEADLOCK FALSE
