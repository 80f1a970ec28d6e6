-------------------------------- MODULE UserPage --------------------------------
(***************************************************************************)
(* The page that lists the users, and its dialogs: QueryComponent and      *)
(* Request of user/query, and the four components of user/dialog, with     *)
(* what the calls they make do at the server (see Accounts and UserFind).  *)
(*                                                                         *)
(* Find lets the browser keep its answers: for five seconds it may answer  *)
(* the same query itself, and later the server may say that nothing was    *)
(* modified.  How long that goes on is left open, and no other call makes  *)
(* the browser forget: theirs are other addresses.  Other tabs fill what   *)
(* the browser keeps, too.                                                 *)
(*                                                                         *)
(* The address holds the request that is shown.  A change of the address   *)
(* sends it, and the fields of the page write to the address only.         *)
(*                                                                         *)
(* JavaScript runs a task to its end, and the router hands a new address   *)
(* to the page in the task that changes it: an action is a task.  The name *)
(* and nameFuzzy of a request are one filter, which is the set of users it *)
(* matches; name and password of a user are not modelled.  Dialogs are     *)
(* modal: only the browser's own buttons reach the page behind one.        *)
(***************************************************************************)
EXTENDS Calls, Integers, FiniteSets

CONSTANTS Users,    \* ids, in the order in which the server lists them
          Filters,  \* what can be asked for, sets of users
          Limits,   \* page sizes
          DefaultLimit,
          First,    \* the user a new table holds
          Edited,   \* users that are edited (bound of the model)
          MaxFailures  \* queries that fail (bound of the model)

Everybody == Users
Values == [nickname : BOOLEAN, authorization : BOOLEAN]
NewValue == [nickname |-> FALSE, authorization |-> FALSE]
Requests == [filter : Filters, limit : Limits, offset : Nat]

\* In the address, left for the page in lastRequest, and the dialogs.
Addresses == [request : Requests, last : Nat]
Counts == Nat \cup {-1}
Lefts == [request : Requests, count : Counts]
Kinds == {"edit", "add", "delete", "password"}
Dialogs == [kind : Kinds, user : Users \cup {None}]

\* What is asked for, and the calls that do.
Listings == [rows : [Users -> Values \cup {None}], count : Nat]
UserAsks ==
    [kind : {"query"}, request : Requests, count : Counts]
    \cup [kind : {"edit", "add"}, user : Users, value : Values]
    \cup [kind : {"delete", "password"}, user : Users, value : {None}]
UserCalls ==
    [ask : UserAsks, served : BOOLEAN, heard : BOOLEAN, got : Listings \cup {None},
     since : SUBSET Users]

\* What the browser keeps: an answer, whether it was asked to count, and who was
\* changed at the server since it was given (history).
KeptAnswers ==
    [request : Requests, counted : BOOLEAN, got : Listings, since : SUBSET Users]

ASSUME UserPageAssumption ==
    /\ Users \subseteq Nat /\ IsFiniteSet(Users)
    /\ Everybody \in Filters /\ Filters \subseteq SUBSET Users
    /\ Limits \subseteq Nat \ {0} /\ DefaultLimit \in Limits
    /\ MaxFailures \in Nat
    /\ None \notin Requests \cup Filters \cup Values \cup Addresses \cup Lefts \cup Dialogs
    /\ None \notin UserCalls

VARIABLES
    address,      \* the parameters in it: a request with its _last, or None
    typed,        \* the filter in the fields (name, nameFuzzy of request), or None
    failed,       \* request.last: the number of the failure, or 0
    current,      \* request_: what the page was told last
    count,        \* request.count and request_.count, -1: not known
    lastRequest,  \* a request with its count, or None
    rows,         \* source: user |-> what its row says, or None
    disabled,     \* a query is in progress
    dialog,       \* kind and user of the dialog that is open, or None
    busy,         \* disabled of the dialog
    table,        \* at the server: user |-> its columns, or None
    kept,         \* answers to queries, in the cache of the browser
    failures,     \* queries that have failed (bound of the model)
    missed,       \* what the address asks for was not sent (history)
    stale         \* users changed at the server since it gave their row (history)

fieldVars == <<typed, failed, current, count>>
dialogVars == <<dialog, busy>>
rowVars == <<rows, stale>>
userVars == <<address, fieldVars, lastRequest, disabled, rowVars, dialogVars, table, kept,
              failures, missed>>
-------------------------------------------------------------------------------
(***************************************************************************)
(* The server.                                                             *)
(***************************************************************************)
Registered == {u \in Users : table[u] # None}

Rank(S, u) == Cardinality({v \in S : v < u})

\* Find: the users on a page of those the filter matches.
Window(r) ==
    LET found == Registered \cap r.filter
    IN {u \in found : r.offset <= Rank(found, u) /\ Rank(found, u) < r.offset + r.limit}

Found(r) == [rows |-> [u \in Users |-> IF u \in Window(r) THEN table[u] ELSE None],
             count |-> Cardinality(Registered \cap r.filter)]

\* A change of u, for the page that lists it and for the answers that do.
Listing(u) == IF page = "users" THEN {u} ELSE {}

Outdated(u) ==
    {IF k.got.rows[u] = None THEN k ELSE [k EXCEPT !.since = @ \cup {u}] : k \in kept}

\* Rows of users in S, which have been changed.
Stale(S) == stale \cup {u \in S : rows[u] # None}

\* A change makes its row stale unless the page hears of it.  Unlike the others,
\* Remove does nothing of what it is asked for (see Accounts).
ServeUsers(i) ==
    LET c == call[i].ask
        writes == \/ c.kind = "edit"
                  \/ c.kind = "add" /\ table[c.user] = None
    IN /\ Pending(i)
       /\ \/ /\ c.kind = "query" /\ Heard(i)
             /\ Served(i, Found(c.request), {})
             /\ UNCHANGED <<table, kept, stale>>
          \/ /\ writes
             /\ Served(i, None, Listing(c.user))
             /\ table' = [table EXCEPT ![c.user] = c.value]
             /\ kept' = Outdated(c.user)
             /\ stale' = IF Heard(i) THEN stale ELSE Stale({c.user})
          \/ /\ c.kind \in {"delete", "password"}
             /\ Served(i, None, {})
             /\ UNCHANGED <<table, kept, stale>>
       /\ UNCHANGED <<page, others, address, fieldVars, lastRequest, disabled, rows, dialogVars,
                      failures, missed>>

\* The browser keeps the answer to a query, in place of the one it had: one that
\* reaches this page, one that nobody listens to any more or one of another tab.
Keeps(r, counted) ==
    /\ kept' = {k \in kept : k.request # r \/ k.counted # counted}
               \cup {[request |-> r, counted |-> counted, got |-> Found(r), since |-> {}]}
    /\ UNCHANGED <<page, call, others, address, fieldVars, lastRequest, disabled, rowVars,
                   dialogVars, table, failures, missed>>

\* It answers a query with what it has kept, unasked or because the server says
\* that it was not modified (see UserFind).
Recalled(i) ==
    LET c == call[i].ask
    IN /\ Pending(i) /\ Heard(i) /\ c.kind = "query"
       /\ \E k \in kept : /\ k.request = c.request /\ k.counted = (c.count < 0)
                          /\ Reused(i, k.got, k.since)
       /\ UNCHANGED <<page, others, userVars>>

\* Other administrators.
OthersChange(u) ==
    /\ IF table[u] = None THEN table' = [table EXCEPT ![u] = NewValue]
       ELSE /\ u \in Edited
            /\ \E v \in Values \ {table[u]} : table' = [table EXCEPT ![u] = v]
    /\ kept' = Outdated(u)
    /\ ChangedByOthers(Listing(u))
    /\ stale' = Stale({u})
    /\ UNCHANGED <<page, address, fieldVars, lastRequest, disabled, rows, dialogVars, failures,
                   missed>>
-------------------------------------------------------------------------------
(***************************************************************************)
(* The address and the query.                                              *)
(***************************************************************************)

\* _query, for the address a.
Query(r, a, calls) ==
    IF disabled
    THEN /\ missed' = TRUE /\ call' = calls
         /\ UNCHANGED disabled
    ELSE /\ disabled' = TRUE
         /\ missed' = (r.request # a.request)
         /\ Issue(calls, [kind |-> "query", request |-> r.request, count |-> r.count])

\* What the page subscribes to the address with, given the request that was left
\* for it: that one is taken, whatever the new address says.
Follow(a, left, calls) ==
    IF a = None
    THEN /\ lastRequest' = left /\ call' = calls
         /\ UNCHANGED <<fieldVars, disabled, missed>>
    ELSE /\ lastRequest' = None
         /\ IF left # None /\ left.count = 0
            THEN /\ typed' = left.request.filter /\ current' = left.request
                 /\ count' = 0 /\ failed' = 0
                 /\ missed' = TRUE /\ call' = calls
                 /\ UNCHANGED disabled
            ELSE /\ Query(IF left # None THEN left ELSE [request |-> a.request, count |-> -1],
                          a, calls)
                 /\ UNCHANGED fieldVars

\* The router does nothing for the address it is at; what was left stays.
Navigate(a, left) ==
    /\ IF a = address
       THEN /\ lastRequest' = left
            /\ UNCHANGED <<address, fieldVars, disabled, missed, call>>
       ELSE address' = a /\ Follow(a, left, call)
    /\ UNCHANGED <<page, others, rowVars, dialogVars, table, kept, failures>>

Alone == page = "users" /\ dialog = None /\ ~disabled

\* What is typed into the fields.
Type(f) ==
    /\ Alone /\ typed # f
    /\ typed' = f
    /\ UNCHANGED <<page, call, others, address, failed, current, count, lastRequest, disabled,
                   rowVars, dialogVars, table, kept, failures, missed>>

isNotQueryChange == typed # None /\ typed = current.filter /\ current.offset = 0

\* onClickQuery: a failure before makes the address a new one.
ClickQuery ==
    /\ Alone /\ ~isNotQueryChange
    /\ Navigate([request |-> [filter |-> IF typed = None THEN Everybody ELSE typed,
                              limit |-> current.limit, offset |-> 0],
                 last |-> failed], lastRequest)

\* What the paginators offer, by what length, pageIndex and pageSize tell them.
\* A paginator stays on the page it was turned to, also when that was never
\* listed: any page may be its next.
Offered(limit, offset) == offset % limit = 0 /\ (offset = 0 \/ offset < count)

\* onPage.
TurnTo(limit, offset) ==
    LET r == [filter |-> current.filter, limit |-> limit, offset |-> offset]
    IN /\ Alone /\ Offered(limit, offset)
       /\ Navigate([request |-> r, last |-> 0], [request |-> r, count |-> count])

\* finalize, and the answer ...
Listed(i) ==
    LET r == call[i].ask
    IN /\ Answered(i) /\ r.kind = "query"
       /\ disabled' = FALSE
       /\ typed' = r.request.filter /\ current' = r.request /\ failed' = 0
       /\ count' = IF r.count < 0 THEN call[i].got.count ELSE r.count
       /\ rows' = call[i].got.rows
       /\ stale' = {u \in call[i].since : rows'[u] # None}
       /\ UNCHANGED <<page, others, address, lastRequest, missed, dialogVars, table, kept, failures>>

\* Mutant of NotListed: the failure is not kept.
NotListed_Forgotten(i) ==
    /\ Failed(i) /\ call[i].ask.kind = "query"
    /\ failures < MaxFailures /\ failures' = failures + 1
    /\ disabled' = FALSE
    /\ UNCHANGED <<page, others, address, fieldVars, rowVars, lastRequest, missed,
                   dialogVars, table, kept>>

\* ... or the error, which is told from others by its time.
NotListed(i) ==
    /\ Failed(i) /\ call[i].ask.kind = "query"
    /\ failures < MaxFailures /\ failures' = failures + 1
    /\ disabled' = FALSE
    /\ failed' = failures'
    /\ UNCHANGED <<page, others, address, typed, current, count, rowVars, lastRequest, missed,
                   dialogVars, table, kept>>
-------------------------------------------------------------------------------
(***************************************************************************)
(* The dialogs.                                                            *)
(***************************************************************************)
elsewhere == <<page, others, address, typed, failed, current, lastRequest, disabled, table, kept,
               failures, missed>>

\* onClickEdit, onClickDelete, onClickPassword of a row, onClickAdd.
OpenDialog(kind, u) ==
    /\ Alone
    /\ \/ kind = "add" /\ u = None
       \/ kind # "add" /\ u # None /\ rows[u] # None
    /\ kind = "edit" => u \in Edited
    /\ dialog' = [kind |-> kind, user |-> u]
    /\ UNCHANGED <<elsewhere, call, count, rowVars, busy>>

\* onClose.
CloseDialog ==
    /\ dialog # None /\ ~busy
    /\ dialog' = None
    /\ UNCHANGED <<elsewhere, call, count, rowVars, busy>>

\* What the dialog may ask for: a new user, both columns of one that is changed,
\* or something of which the value says nothing.
AddUser(u, v) == dialog.kind = "add" /\ table[u] = None /\ v = NewValue
EditUser(u, v) == dialog.kind = "edit" /\ u = dialog.user /\ v # None /\ v # rows[u]
DeleteUser(u, v) == dialog.kind = "delete" /\ u = dialog.user /\ v = None
SetPassword(u, v) == dialog.kind = "password" /\ u = dialog.user /\ v = None

\* Mutant of Submit: the row is changed before there is an answer.
Submit_Eager(u, v) ==
    /\ dialog # None /\ ~busy
    /\ EditUser(u, v)
    /\ busy' = TRUE
    /\ Issue(call, [kind |-> "edit", user |-> u, value |-> v])
    /\ rows' = [rows EXCEPT ![u] = v]
    /\ UNCHANGED <<elsewhere, count, stale, dialog>>

\* onSubmit of the dialog that is open.
Submit(u, v) ==
    /\ dialog # None /\ ~busy
    /\ AddUser(u, v) \/ EditUser(u, v) \/ DeleteUser(u, v) \/ SetPassword(u, v)
    /\ busy' = TRUE
    /\ Issue(call, [kind |-> dialog.kind, user |-> u, value |-> v])
    /\ UNCHANGED <<elsewhere, count, rowVars, dialog>>

\* Mutant of Row: one column of a row that is there is forgotten.
Row_Nickname(u, v, since) ==
    /\ rows' = [rows EXCEPT ![u] =
                  IF v # None /\ @ # None THEN [@ EXCEPT !.nickname = v.nickname] ELSE v]
    /\ stale' = {w \in (stale \ {u}) \cup since : rows'[w] # None}

\* The row of the user u now says v, and u was changed since.
Row(u, v, since) ==
    /\ rows' = [rows EXCEPT ![u] = v]
    /\ stale' = {w \in (stale \ {u}) \cup since : rows'[w] # None}

\* finalize, when what the dialog has asked for is done.
Done(i, kind) ==
    /\ Answered(i) /\ call[i].ask.kind = kind
    /\ busy' = FALSE
    /\ UNCHANGED elsewhere

\* The dialog for adding a user stays, for another.
Added(i) ==
    /\ Done(i, "add")
    /\ Row(call[i].ask.user, call[i].ask.value, call[i].since)
    /\ count' = IF count >= 0 THEN count + 1 ELSE count
    /\ UNCHANGED dialog

Changed(i) ==
    /\ Done(i, "edit")
    /\ Row(call[i].ask.user, call[i].ask.value, call[i].since)
    /\ dialog' = None
    /\ UNCHANGED count

Deleted(i) ==
    /\ Done(i, "delete")
    /\ Row(call[i].ask.user, None, {})
    /\ count' = IF count > 0 THEN count - 1 ELSE count
    /\ dialog' = None

PasswordChanged(i) ==
    /\ Done(i, "password")
    /\ dialog' = None
    /\ UNCHANGED <<count, rowVars>>

\* What a call of the dialog has changed that the page does not hear of.
Unheard(S) ==
    {call[i].ask.user : i \in {j \in S : call[j].served /\ call[j].ask.kind = "edit"}}

\* Mutant of NotSubmitted: the dialog stays disabled.
NotSubmitted_Busy(i) ==
    /\ Failed(i) /\ call[i].ask.kind \in Kinds
    /\ stale' = Stale(Unheard({i}))
    /\ UNCHANGED <<elsewhere, count, rows, dialogVars>>

\* The error is shown, and the dialog stays.
NotSubmitted(i) ==
    /\ Failed(i) /\ call[i].ask.kind \in Kinds
    /\ busy' = FALSE
    /\ stale' = Stale(Unheard({i}))
    /\ UNCHANGED <<elsewhere, count, rows, dialog>>

OfDialog == {i \in Slots : Heard(i) /\ call[i].ask.kind \in Kinds}

\* The browser's own buttons: another address of this page.  That closes a
\* dialog, which no longer hears of what it has called for.
Back(a) ==
    /\ page = "users" /\ a # address
    /\ address' = a
    /\ Follow(a, lastRequest, Abandoned(OfDialog))
    /\ dialog' = None /\ busy' = FALSE
    /\ stale' = Stale(Unheard(OfDialog))
    /\ UNCHANGED <<page, others, rows, table, kept, failures>>
-------------------------------------------------------------------------------
(***************************************************************************)
(* The component is made and destroyed.                                    *)
(***************************************************************************)
NewRequest == [filter |-> Everybody, limit |-> DefaultLimit, offset |-> 0]
NoRows == [u \in Users |-> None]

InitUsers ==
    /\ address = None /\ lastRequest = None
    /\ typed = None /\ failed = 0 /\ current = NewRequest /\ count = -1
    /\ disabled = FALSE /\ dialog = None /\ busy = FALSE
    /\ rows = NoRows /\ stale = {} /\ missed = FALSE
    /\ table = [u \in Users |-> IF u = First THEN NewValue ELSE None]
    /\ kept = {}
    /\ failures = 0

\* ngOnInit, when the address is a and the calls are in progress.
EnterUsers(a, calls) ==
    /\ address' = a
    /\ Follow(a, None, calls)
    /\ UNCHANGED <<rowVars, dialogVars, table, kept, failures>>

LeaveUsers ==
    /\ address' = None /\ lastRequest' = None
    /\ typed' = None /\ failed' = 0 /\ current' = NewRequest /\ count' = -1
    /\ disabled' = FALSE /\ dialog' = None /\ busy' = FALSE
    /\ rows' = NoRows /\ stale' = {} /\ missed' = FALSE
    /\ UNCHANGED <<table, kept, failures>>

Pages ==
    {r \in [filter : Filters, limit : Limits, offset : 0..Cardinality(Users)] :
       r.offset % r.limit = 0 /\ r.offset < Cardinality(Users)}

Requested == {[request |-> r, last |-> 0] : r \in Pages}

UserTask ==
    \/ \E f \in Filters : Type(f)
    \/ ClickQuery
    \/ \E limit \in Limits, offset \in 0..Cardinality(Users) : TurnTo(limit, offset)
    \/ \E a \in Requested \cup {None} : Back(a)
    \/ \E kind \in Kinds, u \in Users \cup {None} : OpenDialog(kind, u)
    \/ CloseDialog
    \/ \E u \in Users, v \in Values \cup {None} : Submit(u, v)
    \/ \E u \in Users : OthersChange(u)
    \/ \E r \in Pages, counted \in BOOLEAN : Keeps(r, counted)

\* What becomes of call i.
UserCall(i) ==
    \/ ServeUsers(i) \/ Recalled(i) \/ Listed(i) \/ NotListed(i)
    \/ Added(i) \/ Changed(i) \/ Deleted(i) \/ PasswordChanged(i) \/ NotSubmitted(i)
-------------------------------------------------------------------------------
UserTypeOK ==
    /\ address \in Addresses \cup {None} /\ lastRequest \in Lefts \cup {None}
    /\ typed \in Filters \cup {None} /\ current \in Requests
    /\ failed \in 0..MaxFailures /\ failures \in 0..MaxFailures
    /\ count \in Counts
    /\ {disabled, busy, missed} \subseteq BOOLEAN
    /\ dialog \in Dialogs \cup {None}
    /\ {rows, table} \subseteq [Users -> Values \cup {None}]
    /\ kept \subseteq KeptAnswers
    /\ stale \subseteq Users

\* When nothing is in progress, the rows answer the request in the address,
\* unless it failed and nothing was listed since; or it was given while a query
\* was in progress, or in place of a request that failed and was left behind
\* (lastRequest), or of one of no users.
AddressShown ==
    page = "users" /\ address # None /\ ~disabled =>
      current = address.request \/ failed # 0 \/ missed

\* The server has done what is asked of u, and the page does not know yet.
Unanswered(u) ==
    \E i \in Slots : Answerable(i) /\ call[i].ask.kind = "edit" /\ call[i].ask.user = u

\* A row says what the table holds, unless the user was changed, since the server
\* gave the row, by others, by a call nobody listens to any more or, when the
\* row comes from an answer the browser has kept, by anyone: a list that is asked
\* for again right after an edit may not show it.  The answer of an edit brings
\* its row up to date, whatever list it came from.
RowsCurrent ==
    \A u \in Users : rows[u] # None /\ rows[u] # table[u] => u \in stale \/ Unanswered(u)

Edits(i) == Pending(i) /\ Heard(i) /\ call[i].ask.kind = "edit"

\* The dialog sends both columns of a user: what the administrator did not
\* change stays as it is, unless the row was stale already: others have changed
\* the user, or the page itself has, and the browser has kept the list from before.
EditKeepsRest ==
    [][\A i \in Slots :
         Edits(i) /\ ServeUsers(i) =>
           LET u == call[i].ask.user
               v == call[i].ask.value
           IN u \in stale \/ \A f \in DOMAIN v : v[f] = rows[u][f] => table'[u][f] = table[u][f]
      ]_<<call, table>>
===============================================================================
