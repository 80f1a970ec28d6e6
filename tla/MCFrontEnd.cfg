\* Two users on one page of two or on two pages of one, a filter that matches
\* one of them; two calls, so that one that was abandoned is still in progress
\* beside the next; one change by others and one query that fails.  A behaviour
\* is about one part of the front-end (scope), and the browser keeps lists of users
\* in one of them.
CONSTANTS
    MaxCalls = 2
    MaxOthers = 1
    MaxFailures = 1
    Users <- MCUsers
    Filters <- MCFilters
    Limits = {1, 2}
    DefaultLimit = 2
    First = 1
    Edited = {1}
    Levels = {l1, l2}
    Listeners = {s1}
    Tokens <- MCTokens
    None = None
SPECIFICATION MCSpec
INVARIANTS
    AddressShown
    RowsCurrent
    LevelsTrue
    OnlyAttached
    LinkCurrent
PROPERTIES
    EditKeepsRest
    Usable
