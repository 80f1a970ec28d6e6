\* Two users, two calls, two sessions and two versions of a row: a change,
\* its revocation and a sign-in may overlap. Nobody is obliged to send a request.
CONSTANTS
    Users = {king, guest}
    King = king
    Passwords = {p1, p2}
    Tokens = {t1, t2}
    Handlers = {h1, h2}
    MaxVersion = 2
    RemoveIds <- NoNames
    Persistent = TRUE
    None = None
SPECIFICATION Spec
SYMMETRY Symmetry
INVARIANTS
    SessionsCurrent
PROPERTIES
    RestartKeepsAccounts
CHECK_DEADLOCK FALSE
