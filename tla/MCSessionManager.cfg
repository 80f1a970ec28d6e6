\* Two tabs that share the storage, two users; three tokens: two sign-ins and
\* a refresh.
CONSTANTS
    Tabs = {t1, t2}
    Users = {u1, u2}
    Slots = {r1}
    MaxTokens = 3
    Choices = {TRUE}
    None = None
SPECIFICATION Spec
SYMMETRY Symmetry
INVARIANTS
    TokenOfUser
    NobodyWaitsInVain
