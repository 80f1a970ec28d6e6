------------------------------- MODULE MCFrontEnd -------------------------------
EXTENDS FrontEnd

MCUsers == 1..2
MCFilters == {1..2, {2}}
MCTokens == 1..2

VARIABLE scope  \* what a behaviour is about

\* Who may be signed in.
Guest == [token |-> 1, root |-> FALSE]
Admin == [token |-> 1, root |-> TRUE]

\* paging: pages and queries of users who are added and deleted.  editing: changes
\* of users who are all listed, by one administrator and by others.  recalling:
\* changes of a user whose list the browser keeps, with calls that are abandoned or
\* changes by others.  log: the pages of the log.
Within(s) ==
    CASE s = "paging" ->
           /\ page \in {"home", "users"} /\ others = 0 /\ kept = {}
           /\ session \in IF page = "home" THEN {None, Admin} ELSE {Admin}
           /\ dialog # None => dialog.kind \in {"add", "delete"}
      [] s = "editing" ->
           /\ page \in {"home", "users"} /\ failures = 0 /\ kept = {}
           /\ dialog # None => dialog.kind \in {"edit", "password"}
           /\ session \in IF page = "home" THEN {None, Admin, Guest} ELSE {Admin}
           /\ typed \in {None, Everybody} /\ current.limit = 2
           /\ address # None => address.request = NewRequest
      [] s = "recalling" ->
           /\ page \in {"home", "users"} /\ failures = 0 /\ Registered = {First}
           /\ lastRequest = None
           /\ others # 0 => \A i \in Slots : call[i] # None => Heard(i)
           /\ dialog # None => dialog.kind = "edit"
           /\ session \in IF page = "home" THEN {None, Admin} ELSE {Admin}
           /\ typed \in {None, Everybody} /\ current.limit = 2
           /\ address # None => address.request = NewRequest
           /\ \A k \in kept : k.request = NewRequest /\ k.counted
      [] s = "log" ->
           /\ page \in {"home"} \cup LogRoutes /\ kept = {}
           /\ session # None => session.root
           /\ \E t \in Tags : data[t] = backup[t]

MCVars == <<vars, scope>>
MCInit == Init /\ scope \in {"paging", "editing", "recalling", "log"}
MCNext == Next /\ UNCHANGED scope /\ Within(scope)'
MCSpec == MCInit /\ [][MCNext]_MCVars /\ Fairness
===============================================================================
