\* Requests of Remove that name users.
CONSTANTS
    Users = {king, guest}
    King = king
    Passwords = {p1}
    Tokens = {t1}
    Handlers = {h1}
    MaxVersion = 2
    RemoveIds <- AnyNames
    Persistent = TRUE
    None = None
SPECIFICATION Spec
INVARIANTS
    RemoveRemoves
CHECK_DEADLOCK FALSE
