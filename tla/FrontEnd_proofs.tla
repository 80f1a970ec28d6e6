---------------------------- MODULE FrontEnd_proofs ----------------------------
(***************************************************************************)
(* Proofs about the pages of the front-end.                                *)
(***************************************************************************)
EXTENDS FrontEnd, FiniteSetTheorems, TLAPS

\* Whoever listens to call i still waits for it: the page or the dialog that
\* made it is there, and what it has asked for is what it still wants.
Waits(i) ==
    LET c == call[i].ask
    IN /\ c.kind = "query" =>
            /\ page = "users" /\ disabled
            /\ address = None \/ missed \/ c.request = address.request
       /\ c.kind \in Kinds =>
            /\ page = "users" /\ busy
            /\ dialog # None /\ dialog.kind = c.kind
            /\ c.kind = "edit" => c.user = dialog.user
       /\ c.kind \in {"levels", "files"} => page = c.kind /\ ~ready
       /\ c.kind = "set" => okView /\ setting /\ data[c.tag] = c.level

\* One call at most is listened to.
ListenInv ==
    /\ \A i \in Slots : Heard(i) => Waits(i)
    /\ \A i, j \in Slots : Heard(i) /\ Heard(j) => i = j
    /\ \A i \in Slots : call[i] # None /\ call[i].served => call[i].heard

\* A dialog is modal, and only the page of the users has one.
PageInv ==
    /\ dialog # None => page = "users" /\ ~disabled
    /\ dialog # None /\ dialog.kind = "edit" => dialog.user \in Users /\ rows[dialog.user] # None
    /\ page # "users" => rows = NoRows /\ ~disabled
    /\ okView => data \in [Tags -> Levels] /\ backup \in [Tags -> Levels]

\* What an answer on its way says is so, unless it was changed since.
Carries(i) ==
    LET c == call[i].ask
        s == call[i].since
    IN /\ c.kind = "query" =>
            /\ call[i].got \in Listings
            /\ \A u \in Users : LET row == call[i].got.rows[u] IN
                 row # None /\ row # table[u] => u \in s
       /\ c.kind \in {"edit", "add"} => table[c.user] = c.value \/ c.user \in s
       /\ c.kind = "levels" =>
            /\ call[i].got \in [Tags -> Levels]
            /\ \A t \in Tags : call[i].got[t] = level[t] \/ t \in s
       /\ c.kind = "set" => level[c.tag] = c.level \/ c.tag \in s

AnswerInv == \A i \in Slots : Answerable(i) => Carries(i)

\* What the browser has kept was so, and what was changed since is known.
KeptInv ==
    \A k \in kept : \A u \in Users :
      LET row == k.got.rows[u] IN row # None /\ row # table[u] => u \in k.since

IInv ==
    /\ TypeOK /\ ListenInv /\ PageInv /\ AnswerInv /\ KeptInv
    /\ AddressShown /\ RowsCurrent /\ LevelsTrue /\ OnlyAttached /\ LinkCurrent
-------------------------------------------------------------------------------
(***************************************************************************)
(* What a step makes of the calls.                                         *)
(***************************************************************************)
CallTypeOK == call \in [Slots -> UserCalls \cup LogCalls \cup {None}]

\* None is no call, and a call has what its kind has.
LEMMA CallFields ==
    /\ None \notin UserCalls \cup LogCalls
    /\ \A c \in UserCalls :
         /\ c.ask.kind \in {"query"} \cup Kinds
         /\ c.ask.kind = "query" => c.ask.request \in Requests /\ c.ask.count \in Counts
         /\ c.ask.kind \in {"edit", "add"} => c.ask.user \in Users /\ c.ask.value \in Values
         /\ c.ask.kind \in Kinds => c.ask.user \in Users
    /\ \A c \in LogCalls :
         /\ c.ask.kind \in {"levels", "files", "set"}
         /\ c.ask.kind = "set" => c.ask.tag \in Tags /\ c.ask.level \in Levels
  BY UserPageAssumption, LogPageAssumption DEF UserCalls, LogCalls, UserAsks, LogAsks, Kinds

\* A call is issued in a slot that is free.
LEMMA Issuing ==
    ASSUME NEW calls \in [Slots -> UserCalls \cup LogCalls \cup {None}],
           NEW ask \in UserAsks \cup LogAsks, Issue(calls, ask)
    PROVE  /\ CallTypeOK'
           /\ \E i \in Slots : /\ calls[i] = None /\ call'[i] = NewCall(ask)
                              /\ \A j \in Slots \ {i} : call'[j] = calls[j]
<1>1. NewCall(ask) \in UserCalls \cup LogCalls
  BY DEF NewCall, UserCalls, LogCalls
<1>2. PICK i \in Slots : calls[i] = None /\ call' = [calls EXCEPT ![i] = NewCall(ask)]
  BY DEF Issue
<1> QED
  BY <1>1, <1>2 DEF CallTypeOK

\* Those who do not listen any more leave nothing but writes.
LEMMA Abandoning ==
    ASSUME CallTypeOK, NEW S
    PROVE  /\ Abandoned(S) \in [Slots -> UserCalls \cup LogCalls \cup {None}]
           /\ \A i \in Slots \ S : Abandoned(S)[i] = call[i]
           /\ \A i \in Slots \cap S :
                \/ Abandoned(S)[i] = None
                \/ /\ call[i] # None /\ ~call[i].served
                   /\ Abandoned(S)[i] = [call[i] EXCEPT !.heard = FALSE]
<1>1. \A c \in UserCalls : [c EXCEPT !.heard = FALSE] \in UserCalls
  BY DEF UserCalls
<1>2. \A c \in LogCalls : [c EXCEPT !.heard = FALSE] \in LogCalls
  BY DEF LogCalls
<1> QED
  BY <1>1, <1>2 DEF CallTypeOK, Abandoned

\* Call d is what has become of call c: nobody starts to listen, and no call of
\* which nobody hears is answered.
Continues(c, d) ==
    d # None => /\ c # None /\ d.ask = c.ask
                /\ d.heard => c.heard
                /\ d.served => d.heard

\* What it has found is still that, and it knows what was changed since.
Carried(c, d, altered) ==
    d # None /\ d.served => /\ c # None /\ c.served /\ d.ask = c.ask /\ d.got = c.got
                            /\ d.since = c.since \cup altered

\* The answer is still on its way.
Remains(c, d) ==
    c # None /\ c.served => d # None /\ d.served /\ d.ask = c.ask /\ d.heard = c.heard

\* The calls that are answered may be told of these changes.
Audience(altered) ==
    \A j \in Slots : call[j] # None /\ call[j].served =>
                       \/ call[j] \in UserCalls /\ altered \subseteq Users
                       \/ call[j] \in LogCalls /\ altered \subseteq Tags

\* To abandon calls makes nobody listen.
LEMMA AbandonedContinue ==
    ASSUME CallTypeOK, ListenInv, NEW S, NEW j \in Slots
    PROVE  /\ Continues(call[j], Abandoned(S)[j])
           /\ Carried(call[j], Abandoned(S)[j], {})
           /\ Abandoned(S)[j] # None /\ Abandoned(S)[j].heard =>
                Abandoned(S)[j] = call[j] /\ j \notin S
<1> DEFINE d == Abandoned(S)[j]
<1>1. CASE j \notin S
  <2>1. d = call[j]
    BY <1>1, Abandoning
  <2> QED
    BY <1>1, <2>1 DEF Continues, Carried, ListenInv
<1>2. CASE d = None
  BY <1>2 DEF Continues, Carried
<1>3. CASE call[j] # None /\ ~call[j].served /\ d = [call[j] EXCEPT !.heard = FALSE]
  <2>1. ~d.heard /\ ~d.served /\ d.ask = call[j].ask
    BY <1>3 DEF CallTypeOK, UserCalls, LogCalls
  <2> QED
    BY <1>3, <2>1 DEF Continues, Carried
<1> QED
  BY <1>1, <1>2, <1>3, Abandoning

\* A call that was served before a change knows of it.
LEMMA Knowing ==
    ASSUME CallTypeOK, NEW altered, Audience(altered), NEW j \in Slots
    PROVE  /\ Since(call[j], altered) \in UserCalls \cup LogCalls \cup {None}
           /\ Since(call[j], altered) # None =>
                /\ call[j] # None
                /\ Since(call[j], altered).ask = call[j].ask
                /\ Since(call[j], altered).heard = call[j].heard
                /\ Since(call[j], altered).served = call[j].served
           /\ Carried(call[j], Since(call[j], altered), altered)
           /\ Remains(call[j], Since(call[j], altered))
<1>1. CASE call[j] # None /\ call[j].served
  <2>1. CASE call[j] \in UserCalls /\ altered \subseteq Users
    BY <1>1, <2>1, CallFields DEF UserCalls, Since, Carried, Remains
  <2>2. CASE call[j] \in LogCalls /\ altered \subseteq Tags
    BY <1>1, <2>2, CallFields DEF LogCalls, Since, Carried, Remains
  <2> QED
    BY <1>1, <2>1, <2>2 DEF Audience
<1>2. CASE ~(call[j] # None /\ call[j].served)
  BY <1>2 DEF CallTypeOK, Since, Carried, Remains
<1> QED
  BY <1>1, <1>2

\* The server does what i asks for, and the other calls are told.
LEMMA Serving ==
    ASSUME CallTypeOK, ListenInv, NEW i \in Slots, call[i] # None, NEW got, NEW altered,
           Served(i, got, altered), Audience(altered),
           \/ call[i] \in UserCalls /\ got \in Listings \cup {None}
           \/ call[i] \in LogCalls /\ got \in [Tags -> Levels] \cup {None}
    PROVE  /\ CallTypeOK'
           /\ \A j \in Slots : Continues(call[j], call'[j])
           /\ \A j \in Slots \ {i} : /\ Carried(call[j], call'[j], altered)
                                   /\ Remains(call[j], call'[j])
           /\ call[i].heard => call'[i] # None
           /\ call'[i] # None => /\ call[i].heard /\ call'[i].served /\ call'[i].got = got
                                 /\ call'[i].since = call[i].since
<1> DEFINE d == [call[i] EXCEPT !.served = TRUE, !.got = got]
<1>1. \A j \in Slots : call'[j] = IF j # i THEN Since(call[j], altered)
                                  ELSE IF call[i].heard THEN d ELSE None
  BY DEF Served
<1>2. d \in UserCalls \cup LogCalls
  <2>1. CASE call[i] \in UserCalls /\ got \in Listings \cup {None}
    BY <2>1 DEF UserCalls
  <2>2. CASE call[i] \in LogCalls /\ got \in [Tags -> Levels] \cup {None}
    BY <2>2 DEF LogCalls
  <2> QED
    BY <2>1, <2>2
<1>3. d.ask = call[i].ask /\ d.heard = call[i].heard /\ d.served /\ d.got = got
      /\ d.since = call[i].since
  BY DEF UserCalls, LogCalls
<1> HIDE DEF d
<1>4. ASSUME NEW j \in Slots
      PROVE  /\ call'[j] \in UserCalls \cup LogCalls \cup {None}
             /\ Continues(call[j], call'[j])
             /\ j # i => Carried(call[j], call'[j], altered) /\ Remains(call[j], call'[j])
  <2>1. CASE j = i
    BY <1>1, <1>2, <1>3, <2>1 DEF Continues
  <2>2. CASE j # i
    BY <1>1, <2>2, Knowing DEF Continues, ListenInv
  <2> QED
    BY <2>1, <2>2
<1>5. call' = [j \in Slots |-> call'[j]]
  BY DEF Served
<1>6. CallTypeOK'
  BY <1>4, <1>5 DEF CallTypeOK
<1> QED
  BY <1>1, <1>2, <1>3, <1>4, <1>6, CallFields

\* The browser answers call i with what it has kept.
LEMMA Recalling ==
    ASSUME CallTypeOK, ListenInv, kept \subseteq KeptAnswers, NEW i \in Slots, Recalled(i)
    PROVE  /\ CallTypeOK' /\ call[i] \in UserCalls
           /\ \A j \in Slots : Continues(call[j], call'[j]) /\ Remains(call[j], call'[j])
           /\ \A j \in Slots \ {i} : call'[j] = call[j]
           /\ Heard(i) /\ call[i].ask.kind = "query"
           /\ Heard(i)' /\ call'[i].ask = call[i].ask
           /\ \E k \in kept : call'[i].got = k.got /\ call'[i].since = k.since
<1> DEFINE with(k) == [call[i] EXCEPT !.served = TRUE, !.got = k.got, !.since = k.since]
<1>1. /\ call[i] # None /\ ~call[i].served /\ call[i].heard
      /\ call[i].ask.kind = "query"
  BY DEF Recalled, Pending, Heard
<1>2. PICK k \in kept : call' = [call EXCEPT ![i] = with(k)]
  BY DEF Recalled, Reused
<1>3. call[i] \in UserCalls
  BY <1>1, CallFields DEF CallTypeOK
<1>4. k.got \in Listings /\ k.since \in SUBSET Users
  BY DEF KeptAnswers
<1>5. /\ with(k) \in UserCalls /\ with(k).ask = call[i].ask /\ with(k).heard
      /\ with(k).served /\ with(k).got = k.got /\ with(k).since = k.since
  BY <1>1, <1>3, <1>4 DEF UserCalls
<1> HIDE DEF with
<1>6. call'[i] = with(k) /\ \A j \in Slots \ {i} : call'[j] = call[j]
  BY <1>2 DEF CallTypeOK
<1>7. with(k) # None
  BY <1>5, CallFields
<1>8. CallTypeOK'
  BY <1>2, <1>5 DEF CallTypeOK
<1>9. \A j \in Slots : Continues(call[j], call'[j]) /\ Remains(call[j], call'[j])
  BY <1>1, <1>5, <1>6 DEF Continues, Remains, ListenInv
<1> QED
  BY <1>1, <1>3, <1>5, <1>6, <1>7, <1>8, <1>9 DEF Heard

\* Others change something.
LEMMA ByOthers ==
    ASSUME CallTypeOK, ListenInv, NEW altered, Audience(altered), ChangedByOthers(altered)
    PROVE  /\ CallTypeOK'
           /\ \A j \in Slots : /\ Continues(call[j], call'[j])
                               /\ Carried(call[j], call'[j], altered)
                               /\ Remains(call[j], call'[j])
<1>1. \A j \in Slots : call'[j] = Since(call[j], altered)
  BY DEF ChangedByOthers
<1>2. call' = [j \in Slots |-> call'[j]]
  BY DEF ChangedByOthers
<1>3. ASSUME NEW j \in Slots
      PROVE  /\ call'[j] \in UserCalls \cup LogCalls \cup {None}
             /\ Continues(call[j], call'[j]) /\ Carried(call[j], call'[j], altered)
             /\ Remains(call[j], call'[j])
  BY <1>1, Knowing DEF Continues, ListenInv
<1> QED
  BY <1>2, <1>3 DEF CallTypeOK

\* A call ends, with its component hearing of it or not.
LEMMA Ending ==
    ASSUME CallTypeOK, ListenInv, NEW i \in Slots, Answered(i) \/ Vanishes(i) \/ Failed(i)
    PROVE  /\ CallTypeOK'
           /\ \A j \in Slots \ {i} : call'[j] = call[j]
           /\ call'[i] # None => ~call'[i].heard /\ ~call'[i].served /\ call'[i].ask = call[i].ask
           /\ \A j \in Slots : /\ Continues(call[j], call'[j])
                               /\ Carried(call[j], call'[j], {})
<1>1. CASE Answered(i) \/ Vanishes(i)
  BY <1>1 DEF Answered, Vanishes, CallTypeOK, Continues, Carried, ListenInv
<1>2. CASE Failed(i)
  <2>1. [call[i] EXCEPT !.heard = FALSE].ask = call[i].ask
        /\ [call[i] EXCEPT !.heard = FALSE].served = call[i].served
        /\ ~[call[i] EXCEPT !.heard = FALSE].heard
    BY <1>2 DEF CallTypeOK, UserCalls, LogCalls, Failed, Heard
  <2>2. /\ CallTypeOK'
        /\ \A j \in Slots \ {i} : call'[j] = call[j]
        /\ call'[i] = None \/ (~call[i].served /\ call'[i] = [call[i] EXCEPT !.heard = FALSE])
    BY <1>2, Abandoning DEF Failed, CallTypeOK
  <2> QED
    BY <1>2, <2>1, <2>2 DEF Failed, Heard, Continues, Carried, ListenInv
<1> QED
  BY <1>1, <1>2

\* The page of the users is told of users, those of the log of tags.
LEMMA Telling ==
    ASSUME CallTypeOK, ListenInv
    PROVE  /\ Audience({})
           /\ \A u \in Users : Audience(Listing(u))
           /\ \A t \in Tags : Audience(Noted(t))
<1>1. ASSUME NEW j \in Slots, call[j] # None, call[j].served
      PROVE  \/ call[j] \in UserCalls /\ page = "users"
             \/ call[j] \in LogCalls /\ page # "users"
  <2>1. Waits(j)
    BY <1>1 DEF ListenInv, Heard
  <2>2. CASE call[j] \in UserCalls
    BY <2>1, <2>2, CallFields DEF Waits
  <2>3. CASE call[j] \in LogCalls
    BY <2>1, <2>3, CallFields DEF Waits, okView
  <2> QED
    BY <1>1, <2>2, <2>3 DEF CallTypeOK
<1> QED
  BY <1>1, CallFields DEF Audience, Listing, Noted

\* Whoever listens after a step in which no call is issued has listened before.
LEMMA ListenKept ==
    ASSUME ListenInv, \A j \in Slots : Continues(call[j], call'[j]),
           \A j \in Slots : Heard(j) /\ Heard(j)' => Waits(j)'
    PROVE  ListenInv'
  BY DEF ListenInv, Continues, Heard

\* A call is issued when nobody listens to another.
LEMMA ListenNew ==
    ASSUME ListenInv, NEW i \in Slots, NEW ask, call'[i] = NewCall(ask), Waits(i)',
           \A j \in Slots \ {i} : /\ Continues(call[j], call'[j])
                                  /\ call'[j] # None => ~call'[j].heard
    PROVE  ListenInv'
<1>1. call'[i].heard /\ ~call'[i].served
  BY DEF NewCall
<1> QED
  BY <1>1 DEF ListenInv, Continues, Heard
-------------------------------------------------------------------------------
(***************************************************************************)
(* Types.                                                                  *)
(***************************************************************************)

\* Counts of users.
LEMMA Counting ==
    ASSUME UserTypeOK
    PROVE  /\ Cardinality(Users) \in Nat
           /\ \A r : Found(r) \in [rows : [Users -> Values \cup {None}], count : Nat]
<1>1. \A S : S \subseteq Users => Cardinality(S) \in Nat
  BY FS_Subset, FS_CardinalityType, UserPageAssumption
<1> QED
  BY <1>1 DEF Found, Registered, UserTypeOK

\* What the browser keeps, when a user is changed and when there is an answer.
LEMMA KeepingTypes ==
    ASSUME UserTypeOK
    PROVE  /\ \A u \in Users : Outdated(u) \subseteq KeptAnswers
           /\ \A r \in Pages, counted \in BOOLEAN :
                Keeps(r, counted) => kept' \subseteq KeptAnswers
<1>1. ASSUME NEW u \in Users, NEW k \in KeptAnswers
      PROVE  [k EXCEPT !.since = @ \cup {u}] \in KeptAnswers
  BY DEF KeptAnswers
<1>2. ASSUME NEW r \in Pages, NEW counted \in BOOLEAN
      PROVE  [request |-> r, counted |-> counted, got |-> Found(r), since |-> {}] \in KeptAnswers
  <2>1. Cardinality(Users) \in Nat /\ Found(r) \in Listings
    BY Counting DEF Listings
  <2>2. r \in Requests
    BY <2>1 DEF Pages, Requests
  <2> QED
    BY <2>1, <2>2 DEF KeptAnswers
<1> QED
  BY <1>1, <1>2 DEF Outdated, Keeps, UserTypeOK

\* The page is given an address.
LEMMA FollowTypes ==
    ASSUME UserTypeOK, NEW a \in Addresses \cup {None}, NEW left \in Lefts \cup {None},
           NEW calls \in [Slots -> UserCalls \cup LogCalls \cup {None}],
           Follow(a, left, calls)
    PROVE  /\ typed' \in Filters \cup {None} /\ current' \in Requests
           /\ failed' \in 0..MaxFailures /\ count' \in Counts
           /\ lastRequest' \in Lefts \cup {None}
           /\ disabled' \in BOOLEAN /\ missed' \in BOOLEAN
           /\ CallTypeOK'
<1> USE UserPageAssumption DEF UserTypeOK, fieldVars
<1>1. CASE a = None
  BY <1>1 DEF Follow, CallTypeOK
<1>2. CASE a # None /\ left # None /\ left.count = 0
  BY <1>2 DEF Follow, CallTypeOK, Lefts, Requests, Counts
<1>3. CASE a # None /\ ~(left # None /\ left.count = 0)
  <2> DEFINE r == IF left # None THEN left ELSE [request |-> a.request, count |-> -1]
             ask == [kind |-> "query", request |-> r.request, count |-> r.count]
  <2>1. Query(r, a, calls) /\ UNCHANGED fieldVars /\ lastRequest' = None
    BY <1>3 DEF Follow
  <2>2. ask \in UserAsks
    BY <1>3 DEF Lefts, Addresses, Counts, UserAsks
  <2>3. disabled' \in BOOLEAN /\ missed' \in BOOLEAN
    BY <2>1 DEF Query
  <2>4. call' = calls \/ Issue(calls, ask)
    BY <2>1 DEF Query
  <2>5. CallTypeOK'
    BY <2>2, <2>4, Issuing DEF CallTypeOK
  <2> QED
    BY <2>1, <2>3, <2>5
<1> QED
  BY <1>1, <1>2, <1>3

\* Users whose change the page does not hear of.
LEMMA StaleTypes ==
    ASSUME UserTypeOK, CallTypeOK
    PROVE  /\ \A S \in SUBSET Slots :
                (\A j \in S : call[j] # None) => Stale(Unheard(S)) \subseteq Users
           /\ \A u \in Users : Stale({u}) \subseteq Users
<1>1. ASSUME NEW j \in Slots, call[j] # None, call[j].ask.kind = "edit"
      PROVE  call[j].ask.user \in Users
  BY <1>1, CallFields DEF CallTypeOK
<1> QED
  BY <1>1 DEF Stale, Unheard, UserTypeOK

\* What a dialog may ask for.
LEMMA Asking ==
    ASSUME UserTypeOK, NEW u \in Users, NEW v \in Values \cup {None}, Submit(u, v)
    PROVE  [kind |-> dialog.kind, user |-> u, value |-> v] \in UserAsks
<1>1. NewValue \in Values
  BY DEF NewValue, Values
<1>2. \/ dialog.kind \in {"edit", "add"} /\ v \in Values
      \/ dialog.kind \in {"delete", "password"} /\ v = None
  BY <1>1 DEF Submit, AddUser, EditUser, DeleteUser, SetPassword
<1> QED
  BY <1>2 DEF UserAsks

\* What the address says when the page has changed it.
LEMMA Addressing ==
    ASSUME UserTypeOK
    PROVE  /\ Requested \subseteq Addresses
           /\ \A f \in Filters : [request |-> [filter |-> f, limit |-> current.limit, offset |-> 0],
                                   last |-> failed] \in Addresses
           /\ \A limit \in Limits, offset \in 0..Cardinality(Users) :
                LET r == [filter |-> current.filter, limit |-> limit, offset |-> offset]
                IN [request |-> r, last |-> 0] \in Addresses /\ [request |-> r, count |-> count] \in Lefts
<1>1. Requested \subseteq Addresses
  BY UserPageAssumption DEF Requested, Pages, Addresses, Requests
<1>2. Cardinality(Users) \in Nat
  BY Counting
<1> QED
  BY <1>1, <1>2 DEF Addresses, Requests, Lefts, UserTypeOK

\* What the administrator does on the page of the users keeps the types.
LEMMA UserTaskTypes ==
    ASSUME TypeOK, ListenInv, PageInv, UserTask
    PROVE  UserTypeOK' /\ CallTypeOK' /\ page' = page /\ others' \in 0..MaxOthers
<1> USE UserPageAssumption DEF TypeOK, UserTypeOK, userVars, fieldVars, rowVars, dialogVars
<1>0. CallTypeOK
  BY DEF CallTypeOK
<1>1. ASSUME NEW a \in Addresses, NEW left \in Lefts \cup {None}, Navigate(a, left)
      PROVE  UserTypeOK' /\ CallTypeOK' /\ page' = page /\ others' \in 0..MaxOthers
  <2>1. CASE a = address
    BY <1>0, <1>1, <2>1 DEF Navigate, CallTypeOK
  <2>2. CASE a # address
    <3>1. address' = a /\ Follow(a, left, call)
      BY <1>1, <2>2 DEF Navigate
    <3>2. /\ typed' \in Filters \cup {None} /\ current' \in Requests
          /\ failed' \in 0..MaxFailures /\ count' \in Counts
          /\ lastRequest' \in Lefts \cup {None}
          /\ disabled' \in BOOLEAN /\ missed' \in BOOLEAN
          /\ CallTypeOK'
      BY <3>1, FollowTypes
    <3> QED
      BY <1>1, <3>1, <3>2 DEF Navigate
  <2> QED
    BY <2>1, <2>2
<1>2. ASSUME NEW f \in Filters, Type(f)
      PROVE  UserTypeOK' /\ CallTypeOK' /\ page' = page /\ others' \in 0..MaxOthers
  BY <1>0, <1>2 DEF Type, CallTypeOK
<1>3. CASE ClickQuery
  BY <1>1, <1>3, Addressing DEF ClickQuery
<1>4. ASSUME NEW limit \in Limits, NEW offset \in 0..Cardinality(Users), TurnTo(limit, offset)
      PROVE  UserTypeOK' /\ CallTypeOK' /\ page' = page /\ others' \in 0..MaxOthers
  BY <1>1, <1>4, Addressing DEF TurnTo
<1>5. ASSUME NEW a \in Requested \cup {None}, Back(a)
      PROVE  UserTypeOK' /\ CallTypeOK' /\ page' = page /\ others' \in 0..MaxOthers
  <2>1. a \in Addresses \cup {None}
    BY Addressing
  <2>2. Follow(a, lastRequest, Abandoned(OfDialog))
    BY <1>5 DEF Back
  <2>3. /\ typed' \in Filters \cup {None} /\ current' \in Requests
        /\ failed' \in 0..MaxFailures /\ count' \in Counts
        /\ lastRequest' \in Lefts \cup {None}
        /\ disabled' \in BOOLEAN /\ missed' \in BOOLEAN
        /\ CallTypeOK'
    BY <1>0, <2>1, <2>2, Abandoning, FollowTypes
  <2>4. stale' \subseteq Users
    BY <1>0, <1>5, StaleTypes DEF Back, OfDialog, Heard
  <2> QED
    BY <1>5, <2>1, <2>3, <2>4 DEF Back
<1>6. ASSUME NEW kind \in Kinds, NEW u \in Users \cup {None}, OpenDialog(kind, u)
      PROVE  UserTypeOK' /\ CallTypeOK' /\ page' = page /\ others' \in 0..MaxOthers
  BY <1>0, <1>6 DEF OpenDialog, elsewhere, Dialogs, CallTypeOK
<1>7. CASE CloseDialog
  BY <1>0, <1>7 DEF CloseDialog, elsewhere, CallTypeOK
<1>8. ASSUME NEW u \in Users, NEW v \in Values \cup {None}, Submit(u, v)
      PROVE  UserTypeOK' /\ CallTypeOK' /\ page' = page /\ others' \in 0..MaxOthers
  <2>1. CallTypeOK'
    BY <1>0, <1>8, Asking, Issuing DEF Submit, CallTypeOK
  <2> QED
    BY <1>8, <2>1 DEF Submit, elsewhere
<1>9. ASSUME NEW u \in Users, OthersChange(u)
      PROVE  UserTypeOK' /\ CallTypeOK' /\ page' = page /\ others' \in 0..MaxOthers
  <2>1. CallTypeOK'
    BY <1>0, <1>9, Telling, ByOthers DEF OthersChange
  <2>2. others' \in 0..MaxOthers
    BY <1>9, CallsAssumption DEF OthersChange, ChangedByOthers
  <2>3. NewValue \in Values
    BY DEF NewValue, Values
  <2>4. table' \in [Users -> Values \cup {None}]
    BY <1>9, <2>3 DEF OthersChange
  <2>5. stale' \subseteq Users
    BY <1>0, <1>9, StaleTypes DEF OthersChange
  <2>6. kept' \subseteq KeptAnswers
    BY <1>9, KeepingTypes DEF OthersChange
  <2> QED
    BY <1>9, <2>1, <2>2, <2>4, <2>5, <2>6 DEF OthersChange
<1>10. ASSUME NEW r \in Pages, NEW counted \in BOOLEAN, Keeps(r, counted)
       PROVE  UserTypeOK' /\ CallTypeOK' /\ page' = page /\ others' \in 0..MaxOthers
  <2>1. kept' \subseteq KeptAnswers
    BY <1>10, KeepingTypes
  <2> QED
    BY <1>0, <1>10, <2>1 DEF Keeps, CallTypeOK
<1> QED
  BY <1>2, <1>3, <1>4, <1>5, <1>6, <1>7, <1>8, <1>9, <1>10 DEF UserTask

\* An answer that reaches the page of the users, or an error, keeps the types.
LEMMA UserCallTypes ==
    ASSUME TypeOK, ListenInv, AnswerInv, NEW i \in Slots, UserCall(i)
    PROVE  /\ UserTypeOK' /\ CallTypeOK' /\ page' = page /\ others' = others
           /\ call[i] \in UserCalls
<1> USE DEF TypeOK, userVars, fieldVars, rowVars, dialogVars
<1>0. CallTypeOK
  BY DEF CallTypeOK
<1>1. call[i] # None /\ call[i].ask.kind \in {"query"} \cup Kinds
  BY DEF UserCall, ServeUsers, Recalled, Listed, NotListed, Added, Changed, Deleted, PasswordChanged,
         NotSubmitted, Done, Pending, Answered, Answerable, Failed, Heard, Kinds
<1>2. call[i] \in UserCalls
  BY <1>0, <1>1, CallFields DEF CallTypeOK, Kinds
<1>3. Answered(i) \/ Failed(i) => CallTypeOK'
  BY <1>0, Ending
<1>4. call[i].since \subseteq Users
  BY <1>2 DEF UserCalls
<1>5. CASE ServeUsers(i)
  <2>1. ASSUME call[i].ask.kind \in {"edit", "add"}
        PROVE  call[i].ask.user \in Users /\ call[i].ask.value \in Values
    BY <1>2, <2>1, CallFields
  <2>2. CASE /\ call[i].ask.kind = "query"
             /\ Served(i, Found(call[i].ask.request), {})
             /\ UNCHANGED <<table, kept, stale>>
    <3>1. CallTypeOK'
      BY <1>0, <1>1, <1>2, <2>2, Counting, Telling, Serving DEF Listings
    <3> QED
      BY <1>2, <1>5, <2>2, <3>1 DEF ServeUsers, UserTypeOK
  <2>3. CASE /\ call[i].ask.kind \in {"edit", "add"}
             /\ Served(i, None, Listing(call[i].ask.user))
             /\ table' = [table EXCEPT ![call[i].ask.user] = call[i].ask.value]
             /\ kept' = Outdated(call[i].ask.user)
             /\ stale' = IF Heard(i) THEN stale ELSE Stale({call[i].ask.user})
    <3>1. CallTypeOK'
      BY <1>0, <1>1, <1>2, <2>1, <2>3, Telling, Serving
    <3>2. stale' \subseteq Users
      BY <1>0, <2>1, <2>3, StaleTypes DEF UserTypeOK
    <3>3. table' \in [Users -> Values \cup {None}]
      BY <2>1, <2>3 DEF UserTypeOK
    <3>4. kept' \subseteq KeptAnswers
      BY <2>1, <2>3, KeepingTypes
    <3> QED
      BY <1>2, <1>5, <3>1, <3>2, <3>3, <3>4 DEF ServeUsers, UserTypeOK
  <2>4. CASE Served(i, None, {}) /\ UNCHANGED <<table, kept, stale>>
    <3>1. CallTypeOK'
      BY <1>0, <1>1, <1>2, <2>4, Telling, Serving
    <3> QED
      BY <1>2, <1>5, <2>4, <3>1 DEF ServeUsers, UserTypeOK
  <2> QED
    BY <1>5, <2>2, <2>3, <2>4 DEF ServeUsers
<1>6. CASE Listed(i)
  <2>1. call[i].got \in Listings
    BY <1>6 DEF Listed, Answered, AnswerInv, Carries
  <2>2. call[i].ask.request \in Requests /\ call[i].ask.count \in Counts
    BY <1>2, <1>6, CallFields DEF Listed
  <2>3. typed' \in Filters /\ count' \in Counts /\ rows' \in [Users -> Values \cup {None}]
    BY <1>6, <2>1, <2>2 DEF Listed, Listings, Requests, Counts
  <2>4. stale' \subseteq Users /\ failed' \in 0..MaxFailures
    BY <1>4, <1>6, UserPageAssumption DEF Listed
  <2>5. CallTypeOK'
    BY <1>3, <1>6 DEF Listed
  <2> QED
    BY <1>2, <1>6, <2>2, <2>3, <2>4, <2>5 DEF Listed, UserTypeOK
<1>7. CASE NotListed(i)
  <2>1. failures' \in 0..MaxFailures
    BY <1>7, UserPageAssumption DEF NotListed, UserTypeOK
  <2>2. CallTypeOK'
    BY <1>3, <1>7 DEF NotListed
  <2> QED
    BY <1>2, <1>7, <2>1, <2>2 DEF NotListed, UserTypeOK
<1>8. ASSUME NEW kind \in Kinds, Done(i, kind)
      PROVE  /\ CallTypeOK' /\ page' = page /\ others' = others /\ busy' = FALSE
             /\ UNCHANGED elsewhere /\ call[i].ask.user \in Users
             /\ kind \in {"edit", "add"} => call[i].ask.value \in Values
  BY <1>2, <1>3, <1>8, CallFields DEF Done, elsewhere
<1>9. ASSUME NEW u \in Users, NEW v \in Values \cup {None}, NEW since \in SUBSET Users,
             Row(u, v, since)
      PROVE  rows' \in [Users -> Values \cup {None}] /\ stale' \subseteq Users
  BY <1>9 DEF Row, UserTypeOK
<1>10. CASE Added(i)
  BY <1>2, <1>4, <1>8, <1>9, <1>10 DEF Added, UserTypeOK, elsewhere, Counts, Kinds
<1>11. CASE Changed(i)
  BY <1>2, <1>4, <1>8, <1>9, <1>11 DEF Changed, UserTypeOK, elsewhere, Kinds
<1>12. CASE Deleted(i)
  <2>1. count' \in Counts
    BY <1>12 DEF Deleted, UserTypeOK, Counts
  <2>2. rows' \in [Users -> Values \cup {None}] /\ stale' \subseteq Users
    BY <1>8, <1>9, <1>12 DEF Deleted, Kinds
  <2> QED
    BY <1>2, <1>8, <1>12, <2>1, <2>2 DEF Deleted, UserTypeOK, elsewhere, Kinds
<1>13. CASE PasswordChanged(i)
  BY <1>2, <1>8, <1>13 DEF PasswordChanged, UserTypeOK, elsewhere, Kinds
<1>14. CASE NotSubmitted(i)
  <2>1. stale' \subseteq Users
    BY <1>0, <1>1, <1>14, StaleTypes DEF NotSubmitted
  <2> QED
    BY <1>2, <1>3, <1>14, <2>1 DEF NotSubmitted, UserTypeOK, elsewhere
<1>15. CASE Recalled(i)
  <2>1. CallTypeOK'
    BY <1>0, <1>15, Recalling DEF UserTypeOK
  <2> QED
    BY <1>2, <1>15, <2>1 DEF Recalled, UserTypeOK
<1> QED
  BY <1>5, <1>6, <1>7, <1>10, <1>11, <1>12, <1>13, <1>14, <1>15 DEF UserCall

\* The listener that is closed stays one.
LEMMA CloseTypes ==
    ASSUME LogTypeOK, Close
    PROVE  /\ listener' = None
           /\ sub' \in [Listeners -> {"trying", "connected", "closed", "over"}]
  BY DEF LogTypeOK, Close

\* A page of the log loads what it shows.
LEMMA LoadTypes ==
    ASSUME NEW kind \in {"levels", "files"},
           NEW calls \in [Slots -> UserCalls \cup LogCalls \cup {None}], Load(kind, calls)
    PROVE  CallTypeOK'
<1>1. [kind |-> kind] \in LogAsks
  BY DEF LogAsks
<1> QED
  BY <1>1, Issuing DEF Load

\* What the administrator does on the pages of the log keeps the types.
LEMMA LogTaskTypes ==
    ASSUME TypeOK, ListenInv, PageInv, LogTask
    PROVE  LogTypeOK' /\ CallTypeOK' /\ page' = page /\ others' \in 0..MaxOthers
<1> USE DEF TypeOK, logVars, loadVars, levelVars, attachVars
<1>0. CallTypeOK
  BY DEF CallTypeOK
<1>1. CASE Refresh
  BY <1>0, <1>1, LoadTypes DEF Refresh, Load, LogTypeOK, CallTypeOK
<1>2. CASE Attach
  BY <1>0, <1>2 DEF Attach, elseAttach, LogTypeOK, CallTypeOK
<1>3. CASE Detach
  BY <1>0, <1>3, CloseTypes DEF Detach, elseAttach, LogTypeOK, CallTypeOK
<1>4. ASSUME NEW t \in Tags, Reset(t)
      PROVE  LogTypeOK' /\ CallTypeOK' /\ page' = page /\ others' \in 0..MaxOthers
  BY <1>0, <1>4 DEF Reset, elseLevels, LogTypeOK, CallTypeOK
<1>5. ASSUME NEW t \in Tags, Set(t)
      PROVE  LogTypeOK' /\ CallTypeOK' /\ page' = page /\ others' \in 0..MaxOthers
  <2>1. [kind |-> "set", tag |-> t, level |-> data[t]] \in LogAsks
    BY <1>5 DEF Set, PageInv, LogAsks
  <2>2. CallTypeOK'
    BY <1>0, <1>5, <2>1, Issuing DEF Set, CallTypeOK
  <2> QED
    BY <1>5, <2>2 DEF Set, elseLevels, LogTypeOK
<1>6. ASSUME NEW t \in Tags, OthersSet(t)
      PROVE  LogTypeOK' /\ CallTypeOK' /\ page' = page /\ others' \in 0..MaxOthers
  <2>1. CallTypeOK'
    BY <1>0, <1>6, Telling, ByOthers DEF OthersSet
  <2>2. others' \in 0..MaxOthers
    BY <1>6, CallsAssumption DEF OthersSet, ChangedByOthers
  <2>3. level' \in [Tags -> Levels] /\ changed' \subseteq Tags
    BY <1>6 DEF OthersSet, Noted, LogTypeOK
  <2> QED
    BY <1>6, <2>1, <2>2, <2>3 DEF OthersSet, LogTypeOK
<1>7. ASSUME NEW t \in Tags, NEW l \in Levels, Select(t, l)
      PROVE  LogTypeOK' /\ CallTypeOK' /\ page' = page /\ others' \in 0..MaxOthers
  BY <1>0, <1>7 DEF Select, elseLevels, LogTypeOK, CallTypeOK
<1>8. ASSUME NEW l \in Listeners, Listen(l)
      PROVE  LogTypeOK' /\ CallTypeOK' /\ page' = page /\ others' \in 0..MaxOthers
  BY <1>0, <1>8 DEF Listen, elseAttach, LogTypeOK, CallTypeOK
<1> QED
  BY <1>1, <1>2, <1>3, <1>4, <1>5, <1>6, <1>7, <1>8 DEF LogTask

\* An answer that reaches a page of the log, or an error, keeps the types.
LEMMA LogCallTypes ==
    ASSUME TypeOK, ListenInv, PageInv, AnswerInv, NEW i \in Slots, LogCall(i)
    PROVE  /\ LogTypeOK' /\ CallTypeOK' /\ page' = page /\ others' = others
           /\ call[i] \in LogCalls
<1> USE DEF TypeOK, logVars, loadVars, levelVars, attachVars
<1>0. CallTypeOK
  BY DEF CallTypeOK
<1>1. call[i] # None /\ call[i].ask.kind \in {"levels", "files", "set"}
  BY DEF LogCall, ServeLog, LevelsLoaded, NamesLoaded, NotLoaded, IsSet, NotSet,
         Pending, Answered, Answerable, Failed, Heard
<1>2. call[i] \in LogCalls
  BY <1>0, <1>1, CallFields DEF CallTypeOK, Kinds
<1>3. Answered(i) \/ Failed(i) => CallTypeOK'
  BY <1>0, Ending
<1>4. call[i].since \subseteq Tags
  BY <1>2 DEF LogCalls
<1>5. call[i].ask.kind = "set" => call[i].ask.tag \in Tags /\ call[i].ask.level \in Levels
  BY <1>2, CallFields
<1>6. CASE ServeLog(i)
  <2>1. CASE /\ call[i].ask.kind = "set"
             /\ Served(i, None, Noted(call[i].ask.tag))
             /\ level' = [level EXCEPT ![call[i].ask.tag] = call[i].ask.level]
             /\ changed' = IF Heard(i) THEN changed ELSE changed \cup Noted(call[i].ask.tag)
    <3>1. CallTypeOK'
      BY <1>0, <1>1, <1>2, <1>5, <2>1, Telling, Serving
    <3>2. changed' \subseteq Tags /\ level' \in [Tags -> Levels]
      BY <1>5, <2>1 DEF Noted, LogTypeOK
    <3> QED
      BY <1>2, <1>6, <3>1, <3>2 DEF ServeLog, LogTypeOK
  <2>2. CASE Served(i, level, {}) /\ UNCHANGED <<level, changed>>
    <3>1. level \in [Tags -> Levels]
      BY DEF LogTypeOK
    <3>2. CallTypeOK'
      BY <1>0, <1>1, <1>2, <2>2, <3>1, Telling, Serving
    <3> QED
      BY <1>2, <1>6, <2>2, <3>2 DEF ServeLog, LogTypeOK
  <2> QED
    BY <1>6, <2>1, <2>2 DEF ServeLog
<1>7. CASE LevelsLoaded(i)
  <2>1. call[i].got \in [Tags -> Levels]
    BY <1>7 DEF LevelsLoaded, Answered, AnswerInv, Carries
  <2> QED
    BY <1>2, <1>3, <1>4, <1>7, <2>1 DEF LevelsLoaded, LogTypeOK
<1>8. CASE NamesLoaded(i) \/ NotLoaded(i)
  BY <1>2, <1>3, <1>8 DEF NamesLoaded, NotLoaded, LogTypeOK
<1>9. CASE IsSet(i)
  <2>1. backup' \in [Tags -> Levels \cup {None}] /\ changed' \subseteq Tags
    BY <1>4, <1>5, <1>9 DEF IsSet, LogTypeOK
  <2> QED
    BY <1>2, <1>3, <1>9, <2>1 DEF IsSet, elseLevels, LogTypeOK
<1>10. CASE NotSet(i)
  <2>1. changed' \subseteq Tags
    BY <1>5, <1>10 DEF NotSet, LogTypeOK
  <2> QED
    BY <1>2, <1>3, <1>10, <2>1 DEF NotSet, elseLevels, LogTypeOK
<1> QED
  BY <1>6, <1>7, <1>8, <1>9, <1>10 DEF LogCall

\* A page that is left leaves what it was made with.
LEMMA LeaveTypes ==
    ASSUME TypeOK
    PROVE  /\ LeaveUsers => UserTypeOK'
           /\ LeaveLog /\ ready' \in BOOLEAN /\ err' \in BOOLEAN /\ token' \in Tokens \cup {None}
                => LogTypeOK'
<1>1. ASSUME LeaveUsers PROVE UserTypeOK'
  <2>1. NewRequest \in Requests /\ NoRows \in [Users -> Values \cup {None}] /\ -1 \in Counts
    BY UserPageAssumption DEF NewRequest, NoRows, Requests, Counts
  <2>2. 0 \in 0..MaxFailures
    BY UserPageAssumption
  <2> QED
    BY <1>1, <2>1, <2>2 DEF LeaveUsers, TypeOK, UserTypeOK
<1>2. ASSUME LeaveLog, ready' \in BOOLEAN, err' \in BOOLEAN, token' \in Tokens \cup {None}
      PROVE  LogTypeOK'
  BY <1>2, CloseTypes DEF LeaveLog, TypeOK, LogTypeOK, NoLevels
<1> QED
  BY <1>1, <1>2

\* The token of the session is one.
LEMMA SessionTypes ==
    ASSUME TypeOK
    PROVE  /\ TokenOf(session) \in Tokens \cup {None}
           /\ \A p : Told(p, TokenOf(session)) => token' \in Tokens \cup {None}
  BY DEF TypeOK, LogTypeOK, TokenOf, Told

\* To go to another page keeps the types.
LEMMA GoTypes ==
    ASSUME TypeOK, NEW p \in {"home", "users"} \cup LogRoutes, NEW a \in Requested \cup {None},
           Go(p, a)
    PROVE  TypeOK'
<1> DEFINE calls == Abandoned(Slots)
<1>0. CallTypeOK
  BY DEF CallTypeOK, TypeOK
<1>1. calls \in [Slots -> UserCalls \cup LogCalls \cup {None}]
  BY <1>0, Abandoning
<1>2. token' \in Tokens \cup {None}
  BY SessionTypes DEF Go
<1>3. a \in Addresses \cup {None}
  BY UserPageAssumption DEF Requested, Pages, Addresses, Requests
<1>4. page' = p /\ others' = others /\ session' = session
  BY DEF Go
<1>5. CASE p = "users"
  <2>1. EnterUsers(a, calls) /\ NoLog
    BY <1>5 DEF Go, LogRoutes
  <2>2. UserTypeOK' /\ CallTypeOK'
    <3>1. UserTypeOK
      BY DEF TypeOK
    <3>2. Follow(a, None, calls)
      BY <2>1 DEF EnterUsers
    <3>3. /\ typed' \in Filters \cup {None} /\ current' \in Requests
          /\ failed' \in 0..MaxFailures /\ count' \in Counts
          /\ lastRequest' \in Lefts \cup {None}
          /\ disabled' \in BOOLEAN /\ missed' \in BOOLEAN
          /\ CallTypeOK'
      BY <1>1, <1>3, <3>1, <3>2, FollowTypes
    <3> HIDE DEF calls
    <3> QED
      BY <1>3, <2>1, <3>1, <3>3 DEF EnterUsers, UserTypeOK, rowVars, dialogVars
  <2>3. LogTypeOK'
    BY <1>2, <2>1, LeaveTypes DEF NoLog
  <2> QED
    BY <1>4, <2>2, <2>3 DEF TypeOK, CallTypeOK
<1>6. CASE p \in LogRoutes
  <2>1. EnterLog(p, calls) /\ LeaveUsers
    BY <1>6 DEF Go, LogRoutes
  <2>2. UserTypeOK'
    BY <2>1, LeaveTypes
  <2>3. CallTypeOK'
    BY <1>1, <1>6, <2>1, LoadTypes DEF EnterLog, LogRoutes
  <2>4. LogTypeOK'
    BY <1>2, <2>1, LeaveTypes DEF EnterLog, Load
  <2> QED
    BY <1>4, <2>2, <2>3, <2>4 DEF TypeOK, CallTypeOK
<1>7. CASE p = "home"
  <2>1. NoLog /\ LeaveUsers /\ call' = calls
    BY <1>7 DEF Go, LogRoutes
  <2>2. UserTypeOK' /\ LogTypeOK'
    BY <1>2, <2>1, LeaveTypes DEF NoLog
  <2> HIDE DEF calls
  <2> QED
    BY <1>1, <1>4, <2>1, <2>2 DEF TypeOK
<1> QED
  BY <1>5, <1>6, <1>7

\* A session that comes or goes keeps the types.
LEMMA NewSessionTypes ==
    ASSUME TypeOK, NEW s \in [token : Tokens, root : BOOLEAN] \cup {None}, NewSession(s)
    PROVE  TypeOK'
<1>1. token' \in Tokens \cup {None}
  BY DEF NewSession, Told, TokenOf, TypeOK, LogTypeOK
<1> QED
  BY <1>1 DEF NewSession, TypeOK, UserTypeOK, LogTypeOK, userVars, fieldVars, rowVars,
              dialogVars, loadVars, levelVars, attachVars

LEMMA SessionSteps ==
    ASSUME TypeOK, Signin \/ Signout \/ Refreshed
    PROVE  \E s \in [token : Tokens, root : BOOLEAN] \cup {None} : NewSession(s)
  BY DEF TypeOK, Signin, Signout, Refreshed

\* Every step keeps the types.
LEMMA StepKeepsTypes ==
    ASSUME TypeOK, ListenInv, PageInv, AnswerInv, [Next]_vars
    PROVE  TypeOK'
<1>0. CallTypeOK
  BY DEF TypeOK, CallTypeOK
<1>1. CASE Signin \/ Signout \/ Refreshed
  BY <1>1, SessionSteps, NewSessionTypes
<1>2. ASSUME NEW p \in {"home", "users"} \cup LogRoutes, NEW a \in Requested \cup {None},
             Go(p, a)
      PROVE  TypeOK'
  BY <1>2, GoTypes
<1>3. CASE UserTask /\ UNCHANGED <<logVars, session>>
  BY <1>3, UserTaskTypes DEF TypeOK, LogTypeOK, CallTypeOK, logVars, loadVars, levelVars,
                             attachVars
<1>4. CASE LogTask /\ UNCHANGED <<userVars, session>>
  BY <1>4, LogTaskTypes DEF TypeOK, UserTypeOK, CallTypeOK, userVars, fieldVars, rowVars,
                            dialogVars
<1>5. ASSUME NEW i \in Slots, UserCall(i), UNCHANGED <<logVars, session>>
      PROVE  TypeOK'
  BY <1>5, UserCallTypes DEF TypeOK, LogTypeOK, CallTypeOK, logVars, loadVars, levelVars,
                             attachVars
<1>6. ASSUME NEW i \in Slots, LogCall(i), UNCHANGED <<userVars, session>>
      PROVE  TypeOK'
  BY <1>6, LogCallTypes DEF TypeOK, UserTypeOK, CallTypeOK, userVars, fieldVars, rowVars,
                            dialogVars
<1>7. ASSUME NEW i \in Slots, Vanishes(i),
             UNCHANGED <<page, others, userVars, logVars, session>>
      PROVE  TypeOK'
  <2>1. CallTypeOK'
    BY <1>0, <1>7, Ending
  <2> QED
    BY <1>7, <2>1 DEF TypeOK, UserTypeOK, LogTypeOK, CallTypeOK, userVars, fieldVars, rowVars,
                      dialogVars, logVars, loadVars, levelVars, attachVars
<1>8. CASE UNCHANGED vars
  BY <1>8 DEF vars, TypeOK, UserTypeOK, LogTypeOK, CallTypeOK, userVars, fieldVars, rowVars,
              dialogVars, logVars, loadVars, levelVars, attachVars
<1> QED
  BY <1>1, <1>2, <1>3, <1>4, <1>5, <1>6, <1>7, <1>8 DEF Next, Task, Ends
-------------------------------------------------------------------------------
(***************************************************************************)
(* Who listens.                                                            *)
(***************************************************************************)

\* A page that is neither disabled nor loading listens to no call.
LEMMA Quiet ==
    ASSUME TypeOK, ListenInv,
           \/ page = "users" /\ ~disabled /\ (dialog = None \/ ~busy)
           \/ okView /\ ~setting
           \/ page \in LogRoutes /\ ready /\ err
    PROVE  \A j \in Slots : ~Heard(j)
<1> SUFFICES ASSUME NEW j \in Slots, Heard(j)
             PROVE  FALSE
  OBVIOUS
<1>1. Waits(j) /\ call[j].ask.kind \in {"query", "levels", "files", "set"} \cup Kinds
  BY CallFields DEF ListenInv, TypeOK, Heard
<1> QED
  BY <1>1 DEF Waits, okView, LogRoutes

\* A page of the users hears of its query only, which is for its address unless
\* that was missed.
LEMMA FollowListens ==
    ASSUME TypeOK, ListenInv, NEW a \in Addresses \cup {None}, NEW left \in Lefts \cup {None},
           NEW calls \in [Slots -> UserCalls \cup LogCalls \cup {None}],
           \A j \in Slots : Continues(call[j], calls[j]),
           \A j \in Slots : calls[j] # None /\ calls[j].heard =>
                              calls[j].ask.kind = "query" /\ disabled,
           Follow(a, left, calls), address' = a, page' = "users"
    PROVE  ListenInv'
<1>1. ASSUME call' = calls, disabled' = disabled, a = None \/ missed'
      PROVE  ListenInv'
  <2>1. ASSUME NEW j \in Slots, Heard(j)'
        PROVE  Waits(j)'
    BY <1>1, <2>1 DEF Heard, Waits, Kinds
  <2> QED
    BY <1>1, <2>1, ListenKept
<1>2. CASE a = None \/ (left # None /\ left.count = 0)
  BY <1>1, <1>2 DEF Follow
<1>3. CASE a # None /\ ~(left # None /\ left.count = 0)
  <2> DEFINE r == IF left # None THEN left ELSE [request |-> a.request, count |-> -1]
             ask == [kind |-> "query", request |-> r.request, count |-> r.count]
  <2>1. Query(r, a, calls)
    BY <1>3 DEF Follow
  <2>2. CASE disabled
    BY <1>1, <2>1, <2>2 DEF Query
  <2>3. CASE ~disabled
    <3>1. disabled' = TRUE /\ missed' = (r.request # a.request) /\ Issue(calls, ask)
      BY <2>1, <2>3 DEF Query
    <3>2. ask \in UserAsks
      BY <1>3 DEF Lefts, Addresses, Counts, UserAsks
    <3>3. PICK i \in Slots : call'[i] = NewCall(ask) /\ \A j \in Slots \ {i} : call'[j] = calls[j]
      BY <3>1, <3>2, Issuing
    <3>4. call'[i].ask = ask
      BY <3>3 DEF NewCall
    <3>5. missed' \/ ask.request = address'.request
      BY <3>1
    <3>6. ask.kind = "query"
      OBVIOUS
    <3> HIDE DEF ask, r
    <3>7. Waits(i)'
      BY <3>1, <3>4, <3>5, <3>6 DEF Waits, Kinds
    <3> QED
      BY <2>3, <3>3, <3>7, ListenNew
  <2> QED
    BY <2>2, <2>3
<1> QED
  BY <1>2, <1>3

\* What the administrator does on the page of the users: a call is issued only
\* when nobody listens to another.
LEMMA UserTaskListens ==
    ASSUME TypeOK, ListenInv, PageInv, UserTask, UNCHANGED <<logVars, session>>
    PROVE  ListenInv' /\ PageInv'
<1> USE DEF userVars, fieldVars, rowVars, dialogVars, logVars, loadVars, levelVars
<1>0. CallTypeOK /\ UserTypeOK /\ okView' = okView
  <2>1. page' = page
    BY UserTaskTypes
  <2> QED
    BY <2>1 DEF TypeOK, CallTypeOK, okView
<1>1. \A j \in Slots : Continues(call[j], call[j])
  BY DEF Continues, ListenInv
<1>2. ASSUME NEW a \in Addresses, NEW left \in Lefts \cup {None}, Alone, Navigate(a, left)
      PROVE  ListenInv' /\ PageInv'
  <2>1. \A j \in Slots : ~Heard(j)
    BY <1>2, Quiet DEF Alone
  <2>2. CASE a = address
    <3>1. ListenInv'
      BY <1>1, <1>2, <2>1, <2>2, ListenKept DEF Navigate
    <3> QED
      BY <1>0, <1>2, <2>2, <3>1 DEF Navigate, PageInv
  <2>3. CASE a # address
    <3>1. address' = a /\ Follow(a, left, call) /\ page' = "users"
      BY <1>2, <2>3 DEF Navigate, Alone
    <3>2. ListenInv'
      BY <1>0, <1>1, <2>1, <3>1, FollowListens DEF CallTypeOK, Heard
    <3> QED
      BY <1>0, <1>2, <3>1, <3>2 DEF Navigate, Alone, PageInv
  <2> QED
    BY <2>2, <2>3
<1>3. ASSUME NEW f \in Filters, Type(f)
      PROVE  ListenInv' /\ PageInv'
  <2>1. ListenInv'
    BY <1>1, <1>3, Quiet, ListenKept DEF Type, Alone
  <2> QED
    BY <1>0, <1>3, <2>1 DEF Type, PageInv
<1>4. CASE ClickQuery
  <2>1. Everybody \in Filters /\ typed \in Filters \cup {None} /\ lastRequest \in Lefts \cup {None}
    BY UserPageAssumption DEF TypeOK, UserTypeOK
  <2> QED
    BY <1>0, <1>2, <1>4, <2>1, Addressing DEF ClickQuery
<1>5. ASSUME NEW limit \in Limits, NEW offset \in 0..Cardinality(Users), TurnTo(limit, offset)
      PROVE  ListenInv' /\ PageInv'
  BY <1>0, <1>2, <1>5, Addressing DEF TurnTo
<1>6. ASSUME NEW a \in Requested \cup {None}, Back(a)
      PROVE  ListenInv' /\ PageInv'
  <2> DEFINE calls == Abandoned(OfDialog)
  <2>1. a \in Addresses \cup {None} /\ lastRequest \in Lefts \cup {None}
    BY <1>0, Addressing DEF UserTypeOK
  <2>2. Follow(a, lastRequest, calls) /\ address' = a /\ page' = "users" /\ page = "users"
    BY <1>6 DEF Back
  <2>3. calls \in [Slots -> UserCalls \cup LogCalls \cup {None}]
    BY <1>0, Abandoning
  <2>4. ASSUME NEW j \in Slots
        PROVE  /\ Continues(call[j], calls[j])
               /\ calls[j] # None /\ calls[j].heard => calls[j] = call[j] /\ j \notin OfDialog
    BY <1>0, AbandonedContinue
  <2> HIDE DEF calls
  <2>5. ASSUME NEW j \in Slots, calls[j] # None, calls[j].heard
        PROVE  calls[j].ask.kind = "query" /\ disabled
    <3>1. calls[j] = call[j] /\ j \notin OfDialog /\ Heard(j)
      BY <2>4, <2>5 DEF Heard
    <3>2. call[j].ask.kind \notin Kinds /\ Waits(j)
      BY <3>1 DEF OfDialog, ListenInv
    <3>3. call[j].ask.kind \in {"query", "levels", "files", "set"} \cup Kinds
      BY <1>0, <2>5, <3>1, CallFields DEF CallTypeOK
    <3> QED
      BY <2>2, <3>1, <3>2, <3>3 DEF Waits, okView
  <2>6. ListenInv'
    BY <2>1, <2>2, <2>3, <2>4, <2>5, FollowListens
  <2> QED
    BY <1>0, <1>6, <2>2, <2>6 DEF Back, PageInv
<1>7. ASSUME NEW kind \in Kinds, NEW u \in Users \cup {None}, OpenDialog(kind, u)
      PROVE  ListenInv' /\ PageInv'
  <2>1. ListenInv'
    BY <1>1, <1>7, Quiet, ListenKept DEF OpenDialog, Alone
  <2> QED
    BY <1>0, <1>7, <2>1 DEF OpenDialog, Alone, elsewhere, PageInv
<1>8. CASE CloseDialog
  <2>1. ListenInv'
    BY <1>1, <1>8, Quiet, ListenKept DEF CloseDialog, PageInv
  <2> QED
    BY <1>0, <1>8, <2>1 DEF CloseDialog, elsewhere, PageInv
<1>9. ASSUME NEW u \in Users, NEW v \in Values \cup {None}, Submit(u, v)
      PROVE  ListenInv' /\ PageInv'
  <2> DEFINE ask == [kind |-> dialog.kind, user |-> u, value |-> v]
  <2>1. \A j \in Slots : ~Heard(j)
    BY <1>9, Quiet DEF Submit, PageInv
  <2>2. ask \in UserAsks
    BY <1>0, <1>9, Asking
  <2>3. PICK i \in Slots : call'[i] = NewCall(ask) /\ \A j \in Slots \ {i} : call'[j] = call[j]
    BY <1>0, <1>9, <2>2, Issuing DEF Submit, CallTypeOK
  <2>4. call'[i].ask = ask
    BY <2>3 DEF NewCall
  <2>5. Waits(i)'
    <3>1. page' = "users" /\ busy' /\ dialog' = dialog /\ dialog # None
      BY <1>9 DEF Submit, elsewhere, PageInv
    <3>2. dialog.kind \in Kinds /\ (dialog.kind = "edit" => u = dialog.user)
      BY <1>9 DEF Submit, AddUser, EditUser, DeleteUser, SetPassword, TypeOK, UserTypeOK, Dialogs
    <3> QED
      BY <2>4, <3>1, <3>2 DEF Waits, Kinds
  <2>6. ListenInv'
    BY <1>1, <2>1, <2>3, <2>5, ListenNew DEF Heard
  <2> QED
    BY <1>0, <1>9, <2>6 DEF Submit, elsewhere, PageInv
<1>10. ASSUME NEW u \in Users, OthersChange(u)
       PROVE  ListenInv' /\ PageInv'
  <2>1. \A j \in Slots : Continues(call[j], call'[j])
    BY <1>0, <1>10, Telling, ByOthers DEF OthersChange
  <2>2. ASSUME NEW j \in Slots, Heard(j), Heard(j)'
        PROVE  Waits(j)'
    <3>1. call'[j].ask = call[j].ask /\ Waits(j)
      BY <2>1, <2>2 DEF Continues, Heard, ListenInv
    <3> QED
      BY <1>0, <1>10, <3>1 DEF OthersChange, Waits
  <2>3. ListenInv'
    BY <2>1, <2>2, ListenKept
  <2> QED
    BY <1>0, <1>10, <2>3 DEF OthersChange, PageInv
<1>11. ASSUME NEW r \in Pages, NEW counted \in BOOLEAN, Keeps(r, counted)
       PROVE  ListenInv' /\ PageInv'
  BY <1>0, <1>1, <1>11, ListenKept DEF Keeps, Waits, ListenInv, PageInv
<1> QED
  BY <1>3, <1>4, <1>5, <1>6, <1>7, <1>8, <1>9, <1>10, <1>11 DEF UserTask

\* A page of the log that loads listens to what it loads.
LEMMA LoadListens ==
    ASSUME TypeOK, ListenInv, NEW kind \in LogRoutes,
           NEW calls \in [Slots -> UserCalls \cup LogCalls \cup {None}],
           \A j \in Slots : Continues(call[j], calls[j]),
           \A j \in Slots : calls[j] # None => ~calls[j].heard,
           Load(kind, calls), page' = kind
    PROVE  ListenInv'
<1> DEFINE ask == [kind |-> kind]
<1>1. ask \in LogAsks
  BY DEF LogAsks, LogRoutes
<1>2. PICK i \in Slots : call'[i] = NewCall(ask) /\ \A j \in Slots \ {i} : call'[j] = calls[j]
  BY <1>1, Issuing DEF Load
<1>3. call'[i].ask = ask
  BY <1>2 DEF NewCall
<1>4. Waits(i)'
  BY <1>3 DEF Load, Waits, Kinds, LogRoutes
<1> QED
  BY <1>2, <1>4, ListenNew

\* What the administrator does on the pages of the log: a call is issued only
\* when nobody listens to another.
LEMMA LogTaskListens ==
    ASSUME TypeOK, ListenInv, PageInv, LogTask, UNCHANGED <<userVars, session>>
    PROVE  ListenInv' /\ PageInv'
<1> USE DEF userVars, fieldVars, rowVars, dialogVars, logVars, loadVars, levelVars, attachVars
<1>0. CallTypeOK
  BY DEF TypeOK, CallTypeOK
<1>1. \A j \in Slots : Continues(call[j], call[j])
  BY DEF Continues, ListenInv
<1>2. ASSUME page' = page, okView' => okView /\ UNCHANGED <<data, backup>>
      PROVE  PageInv'
  BY <1>2 DEF PageInv
<1>3. CASE Refresh
  <2>1. \A j \in Slots : ~Heard(j)
    BY <1>3, Quiet DEF Refresh, LogRoutes
  <2>2. Load(page, call) /\ page' = page /\ page \in LogRoutes
    BY <1>3 DEF Refresh, LogRoutes
  <2>3. ListenInv'
    BY <1>0, <1>1, <2>1, <2>2, LoadListens DEF CallTypeOK, Heard
  <2> QED
    BY <1>2, <1>3, <2>2, <2>3 DEF Load, okView
<1>4. ASSUME UNCHANGED <<page, call, loadVars, levelVars>>
      PROVE  ListenInv' /\ PageInv'
  <2>1. ASSUME NEW j \in Slots, Heard(j)
        PROVE  Waits(j)'
    BY <1>4, <2>1 DEF ListenInv, Waits, okView
  <2> QED
    BY <1>1, <1>2, <1>4, <2>1, ListenKept DEF okView
<1>5. CASE Attach \/ Detach
  BY <1>4, <1>5 DEF Attach, Detach, elseAttach
<1>6. ASSUME NEW l \in Listeners, Listen(l)
      PROVE  ListenInv' /\ PageInv'
  BY <1>4, <1>6 DEF Listen, elseAttach
<1>7. ASSUME NEW t \in Tags, Reset(t) \/ \E l \in Levels : Select(t, l)
      PROVE  ListenInv' /\ PageInv'
  <2>1. okView /\ ~setting /\ okView' = okView /\ call' = call
    BY <1>7 DEF Reset, Select, elseLevels, okView
  <2>2. ListenInv'
    BY <1>1, <2>1, Quiet, ListenKept
  <2>3. data' \in [Tags -> Levels] /\ backup' \in [Tags -> Levels]
    BY <1>7, <2>1 DEF Reset, Select, PageInv
  <2> QED
    BY <1>7, <2>1, <2>2, <2>3 DEF Reset, Select, elseLevels, PageInv
<1>8. ASSUME NEW t \in Tags, Set(t)
      PROVE  ListenInv' /\ PageInv'
  <2> DEFINE ask == [kind |-> "set", tag |-> t, level |-> data[t]]
  <2>1. okView /\ ~setting /\ okView' = okView
    BY <1>8 DEF Set, elseLevels, okView
  <2>2. ask \in LogAsks
    BY <2>1 DEF PageInv, LogAsks
  <2>3. PICK i \in Slots : call'[i] = NewCall(ask) /\ \A j \in Slots \ {i} : call'[j] = call[j]
    BY <1>0, <1>8, <2>2, Issuing DEF Set, CallTypeOK
  <2>4. call'[i].ask = ask
    BY <2>3 DEF NewCall
  <2>5. Waits(i)'
    BY <1>8, <2>1, <2>4 DEF Waits, Set, Kinds
  <2>6. ListenInv'
    BY <1>1, <2>1, <2>3, <2>5, Quiet, ListenNew DEF Heard
  <2> QED
    BY <1>2, <1>8, <2>1, <2>6 DEF Set, elseLevels
<1>9. ASSUME NEW t \in Tags, OthersSet(t)
      PROVE  ListenInv' /\ PageInv'
  <2>1. \A j \in Slots : Continues(call[j], call'[j])
    BY <1>0, <1>9, Telling, ByOthers DEF OthersSet
  <2>2. ASSUME NEW j \in Slots, Heard(j), Heard(j)'
        PROVE  Waits(j)'
    <3>1. call'[j].ask = call[j].ask /\ Waits(j)
      BY <2>1, <2>2 DEF Continues, Heard, ListenInv
    <3> QED
      BY <1>9, <3>1 DEF OthersSet, Waits, okView
  <2>3. ListenInv'
    BY <2>1, <2>2, ListenKept
  <2> QED
    BY <1>2, <1>9, <2>3 DEF OthersSet, okView
<1> QED
  BY <1>3, <1>5, <1>6, <1>7, <1>8, <1>9 DEF LogTask

\* A call that is served, or ends: what its component waits for is over then.
LEMMA ListenAfter ==
    ASSUME ListenInv, NEW i \in Slots, \A j \in Slots : Continues(call[j], call'[j]),
           Heard(i) => call'[i] = None \/ ~call'[i].heard
    PROVE  /\ Heard(i) => ListenInv'
           /\ (\A j \in Slots : Heard(j) /\ Heard(j)' => Waits(j)') => ListenInv'
<1>1. Heard(i) => \A j \in Slots : ~Heard(j)'
  BY DEF ListenInv, Heard, Continues
<1> QED
  BY <1>1, ListenKept

LEMMA UserCallListens ==
    ASSUME TypeOK, ListenInv, PageInv, AnswerInv, NEW i \in Slots, UserCall(i),
           UNCHANGED <<logVars, session>>
    PROVE  ListenInv' /\ PageInv'
<1> USE DEF userVars, fieldVars, rowVars, dialogVars, logVars, loadVars, levelVars
<1>0. CallTypeOK /\ page' = page /\ call[i] \in UserCalls
  BY UserCallTypes DEF TypeOK, CallTypeOK
<1>1. okView' = okView
  BY <1>0 DEF okView
<1>2. CASE ServeUsers(i)
  <2>1. call[i] # None
    BY <1>2 DEF ServeUsers, Pending
  <2>2. \A j \in Slots : Continues(call[j], call'[j])
    <3>1. call[i].ask.kind \in {"edit", "add"} => call[i].ask.user \in Users
      BY <1>0, CallFields
    <3> QED
      BY <1>0, <1>2, <2>1, <3>1, Counting, Telling, Serving DEF ServeUsers, Listings, TypeOK
  <2>3. ASSUME NEW j \in Slots, Heard(j), Heard(j)'
        PROVE  Waits(j)'
    <3>1. call'[j].ask = call[j].ask /\ Waits(j)
      BY <2>2, <2>3 DEF Continues, Heard, ListenInv
    <3> QED
      BY <1>1, <1>2, <3>1 DEF ServeUsers, Waits
  <2>4. ListenInv'
    BY <2>2, <2>3, ListenKept
  <2> QED
    BY <1>1, <1>2, <2>4 DEF ServeUsers, PageInv
<1>3. CASE ~ServeUsers(i) /\ ~Recalled(i)
  <2>1. Heard(i) /\ (Answered(i) \/ Failed(i))
    BY <1>3 DEF UserCall, Listed, NotListed, Added, Changed, Deleted, PasswordChanged,
                NotSubmitted, Done, Answered, Answerable, Failed
  <2>2. ListenInv'
    BY <1>0, <2>1, Ending, ListenAfter
  <2>3. Waits(i)
    BY <2>1 DEF ListenInv
  <2>4. CASE Listed(i) \/ NotListed(i)
    BY <1>0, <1>1, <2>2, <2>3, <2>4 DEF Listed, NotListed, PageInv, Waits
  <2>5. CASE Added(i) \/ Changed(i) \/ Deleted(i)
    BY <1>1, <2>2, <2>3, <2>5 DEF Added, Changed, Deleted, Done, elsewhere, Row, PageInv, Waits, Kinds
  <2>6. CASE PasswordChanged(i) \/ NotSubmitted(i)
    BY <1>1, <2>2, <2>6 DEF PasswordChanged, NotSubmitted, Done, elsewhere, PageInv
  <2> QED
    BY <1>3, <2>4, <2>5, <2>6 DEF UserCall
<1>4. CASE Recalled(i)
  <2>1. \A j \in Slots : Continues(call[j], call'[j])
    BY <1>0, <1>4, Recalling DEF TypeOK, UserTypeOK
  <2>2. ASSUME NEW j \in Slots, Heard(j), Heard(j)'
        PROVE  Waits(j)'
    <3>1. call'[j].ask = call[j].ask /\ Waits(j)
      BY <2>1, <2>2 DEF Continues, Heard, ListenInv
    <3> QED
      BY <1>1, <1>4, <3>1 DEF Recalled, Waits
  <2>3. ListenInv'
    BY <2>1, <2>2, ListenKept
  <2> QED
    BY <1>1, <1>4, <2>3 DEF Recalled, PageInv
<1> QED
  BY <1>2, <1>3, <1>4

LEMMA LogCallListens ==
    ASSUME TypeOK, ListenInv, PageInv, AnswerInv, NEW i \in Slots, LogCall(i),
           UNCHANGED <<userVars, session>>
    PROVE  ListenInv' /\ PageInv'
<1> USE DEF userVars, fieldVars, rowVars, dialogVars, logVars, loadVars, levelVars
<1>0. CallTypeOK /\ page' = page /\ call[i] \in LogCalls
  BY LogCallTypes DEF TypeOK, CallTypeOK
<1>1. ASSUME okView' => data' \in [Tags -> Levels] /\ backup' \in [Tags -> Levels]
      PROVE  PageInv'
  BY <1>0, <1>1 DEF PageInv
<1>2. CASE ServeLog(i)
  <2>1. call[i] # None
    BY <1>2 DEF ServeLog, Pending
  <2>2. \A j \in Slots : Continues(call[j], call'[j])
    <3>1. call[i].ask.kind = "set" => call[i].ask.tag \in Tags
      BY <1>0, CallFields
    <3> QED
      BY <1>0, <1>2, <2>1, <3>1, Telling, Serving DEF ServeLog, TypeOK, LogTypeOK
  <2>3. ASSUME NEW j \in Slots, Heard(j), Heard(j)'
        PROVE  Waits(j)'
    <3>1. call'[j].ask = call[j].ask /\ Waits(j)
      BY <2>2, <2>3 DEF Continues, Heard, ListenInv
    <3> QED
      BY <1>2, <3>1 DEF ServeLog, Waits, okView
  <2>4. ListenInv'
    BY <2>2, <2>3, ListenKept
  <2> QED
    BY <1>1, <1>2, <2>4 DEF ServeLog, PageInv, okView
<1>3. CASE ~ServeLog(i)
  <2>1. Heard(i) /\ (Answered(i) \/ Failed(i))
    BY <1>3 DEF LogCall, LevelsLoaded, NamesLoaded, NotLoaded, IsSet, NotSet, Answered,
                Answerable, Failed
  <2>2. ListenInv'
    BY <1>0, <2>1, Ending, ListenAfter
  <2>3. Waits(i)
    BY <2>1 DEF ListenInv
  <2>4. CASE LevelsLoaded(i)
    <3>1. call[i].got \in [Tags -> Levels]
      BY <2>4 DEF LevelsLoaded, Answered, AnswerInv, Carries
    <3> QED
      BY <1>1, <2>2, <2>4, <3>1 DEF LevelsLoaded
  <2>5. CASE NamesLoaded(i) \/ NotLoaded(i)
    BY <1>1, <2>2, <2>3, <2>5 DEF NamesLoaded, NotLoaded, Waits, okView
  <2>6. CASE IsSet(i) \/ NotSet(i)
    BY <1>1, <2>2, <2>6 DEF IsSet, NotSet, elseLevels, PageInv, okView
  <2> QED
    BY <1>3, <2>4, <2>5, <2>6 DEF LogCall
<1> QED
  BY <1>2, <1>3

\* Who goes to another page listens to the calls of that page only.
LEMMA GoListens ==
    ASSUME TypeOK, ListenInv, PageInv,
           NEW p \in {"home", "users"} \cup LogRoutes, NEW a \in Requested \cup {None}, Go(p, a)
    PROVE  ListenInv' /\ PageInv'
<1> DEFINE calls == Abandoned(Slots)
<1>0. CallTypeOK /\ UserTypeOK /\ page' = p
  BY DEF TypeOK, CallTypeOK, Go
<1>1. calls \in [Slots -> UserCalls \cup LogCalls \cup {None}]
  BY <1>0, Abandoning
<1>2. ASSUME NEW j \in Slots
      PROVE  Continues(call[j], calls[j]) /\ (calls[j] # None => ~calls[j].heard)
  BY <1>0, AbandonedContinue
<1> HIDE DEF calls
<1>3. CASE p = "users"
  <2>1. EnterUsers(a, calls) /\ page # "users"
    BY <1>3 DEF Go, LogRoutes, calls
  <2>2. a \in Addresses \cup {None}
    BY <1>0, Addressing
  <2>3. ListenInv'
    BY <1>0, <1>1, <1>2, <1>3, <2>1, <2>2, FollowListens DEF EnterUsers
  <2> QED
    BY <1>0, <1>3, <2>1, <2>3 DEF EnterUsers, PageInv, rowVars, dialogVars, okView
<1>4. CASE p \in LogRoutes
  <2>1. EnterLog(p, calls) /\ LeaveUsers
    BY <1>4 DEF Go, LogRoutes, calls
  <2>2. ListenInv'
    BY <1>0, <1>1, <1>2, <1>4, <2>1, LoadListens DEF EnterLog
  <2> QED
    BY <1>0, <1>4, <2>1, <2>2 DEF EnterLog, Load, LeaveUsers, PageInv, okView, LogRoutes
<1>5. CASE p = "home"
  <2>1. NoLog /\ LeaveUsers /\ call' = calls
    BY <1>5 DEF Go, LogRoutes, calls
  <2>2. ListenInv'
    BY <1>2, <2>1, ListenKept DEF Heard
  <2> QED
    BY <1>0, <1>5, <2>1, <2>2 DEF LeaveUsers, PageInv, okView
<1> QED
  BY <1>3, <1>4, <1>5

\* Every step keeps who listens, and what is shown with it.
LEMMA StepKeepsListening ==
    ASSUME TypeOK, ListenInv, PageInv, AnswerInv, [Next]_vars
    PROVE  ListenInv' /\ PageInv'
<1> USE DEF userVars, fieldVars, rowVars, dialogVars, logVars, loadVars, levelVars, attachVars
<1>0. CallTypeOK
  BY DEF TypeOK, CallTypeOK
<1>1. ASSUME UNCHANGED <<page, userVars, loadVars, levelVars>>,
             \A j \in Slots : Continues(call[j], call'[j])
      PROVE  ListenInv' /\ PageInv'
  <2>1. ASSUME NEW j \in Slots, Heard(j), Heard(j)'
        PROVE  Waits(j)'
    BY <1>1, <2>1 DEF Continues, Heard, ListenInv, Waits, okView
  <2> QED
    BY <1>1, <2>1, ListenKept DEF PageInv, okView
<1>2. \A j \in Slots : Continues(call[j], call[j])
  BY DEF Continues, ListenInv
<1>3. CASE Signin \/ Signout \/ Refreshed
  BY <1>1, <1>2, <1>3 DEF Signin, Signout, Refreshed, NewSession
<1>4. ASSUME NEW p \in {"home", "users"} \cup LogRoutes, NEW a \in Requested \cup {None},
             Go(p, a)
      PROVE  ListenInv' /\ PageInv'
  BY <1>4, GoListens
<1>5. ASSUME NEW i \in Slots, Vanishes(i),
             UNCHANGED <<page, others, userVars, logVars, session>>
      PROVE  ListenInv' /\ PageInv'
  BY <1>0, <1>1, <1>5, Ending
<1>6. CASE UNCHANGED vars
  BY <1>1, <1>2, <1>6 DEF vars
<1> QED
  BY <1>3, <1>4, <1>5, <1>6, UserTaskListens, LogTaskListens, UserCallListens, LogCallListens
     DEF Next, Task, Ends
-------------------------------------------------------------------------------
(***************************************************************************)
(* What the answers say, and the rows and levels that are shown.           *)
(***************************************************************************)

\* The calls are these, or one more was issued.
Extends(calls) ==
    \/ call' = calls
    \/ \E i \in Slots, ask \in UserAsks \cup LogAsks :
         /\ calls[i] = None /\ call'[i] = NewCall(ask)
         /\ \A j \in Slots \ {i} : call'[j] = calls[j]

\* What is issued is not answered yet.
LEMMA Extending ==
    ASSUME NEW calls, Extends(calls), NEW j \in Slots
    PROVE  /\ Carried(call[j], calls[j], {}) => Carried(call[j], call'[j], {})
           /\ Remains(call[j], calls[j]) => Remains(call[j], call'[j])
<1>1. \A ask : ~NewCall(ask).served
  BY DEF NewCall
<1> QED
  BY <1>1 DEF Extends, Carried, Remains

LEMMA FollowExtends ==
    ASSUME NEW a \in Addresses \cup {None}, NEW left \in Lefts \cup {None},
           NEW calls \in [Slots -> UserCalls \cup LogCalls \cup {None}], Follow(a, left, calls)
    PROVE  Extends(calls)
<1>1. CASE a = None \/ (left # None /\ left.count = 0)
  BY <1>1 DEF Follow, Extends
<1>2. CASE a # None /\ ~(left # None /\ left.count = 0)
  <2> DEFINE r == IF left # None THEN left ELSE [request |-> a.request, count |-> -1]
             ask == [kind |-> "query", request |-> r.request, count |-> r.count]
  <2>1. Query(r, a, calls)
    BY <1>2 DEF Follow
  <2>2. ask \in UserAsks
    BY <1>2 DEF Lefts, Addresses, Counts, UserAsks
  <2>3. call' = calls \/ Issue(calls, ask)
    BY <2>1 DEF Query
  <2> QED
    BY <2>2, <2>3, Issuing DEF Extends
<1> QED
  BY <1>1, <1>2

\* The answers that are on their way after a step were so before it, and know
\* what it has changed.
Unaltered == \A j \in Slots : Carried(call[j], call'[j], {}) /\ Remains(call[j], call'[j])

LEMMA SameCalls == call' = call => Unaltered
<1>1. \A S : S \cup {} = S
  OBVIOUS
<1> QED
  BY <1>1 DEF Unaltered, Carried, Remains

\* The administrator changes nothing at the server, and other administrators
\* nothing on the page.
LEMMA UserTaskAnswers ==
    ASSUME TypeOK, ListenInv, PageInv, UserTask
    PROVE  \/ \E u \in Users :
                /\ OthersChange(u)
                /\ \A j \in Slots : /\ Carried(call[j], call'[j], Listing(u))
                                    /\ Remains(call[j], call'[j])
           \/ /\ UNCHANGED <<table, rows>>
              /\ \/ Unaltered /\ stale' = stale
                 \/ /\ page = "users" /\ stale' = Stale(Unheard(OfDialog))
                    /\ \A j \in Slots : Carried(call[j], call'[j], {})
                    /\ \A j \in Slots \ OfDialog : Remains(call[j], call'[j])
<1> USE DEF rowVars, dialogVars, fieldVars
<1>0. CallTypeOK /\ UserTypeOK /\ call \in [Slots -> UserCalls \cup LogCalls \cup {None}]
  BY DEF TypeOK, CallTypeOK
<1>1. Extends(call) => Unaltered
  <2>1. \A j \in Slots : Carried(call[j], call[j], {}) /\ Remains(call[j], call[j])
    BY DEF Carried, Remains
  <2> QED
    BY <2>1, Extending DEF Unaltered
<1>2. ASSUME NEW a \in Addresses, NEW left \in Lefts \cup {None}, Navigate(a, left)
      PROVE  Unaltered /\ UNCHANGED <<table, rows, stale>>
  BY <1>0, <1>1, <1>2, FollowExtends DEF Navigate, Extends
<1>3. ASSUME NEW f \in Filters, Type(f)
      PROVE  page = "users" /\ Unaltered /\ UNCHANGED <<table, rows, stale>>
  BY <1>3, SameCalls DEF Type, Alone
<1>4. CASE ClickQuery
  <2>1. Everybody \in Filters /\ typed \in Filters \cup {None} /\ lastRequest \in Lefts \cup {None}
    BY UserPageAssumption DEF TypeOK, UserTypeOK
  <2> QED
    BY <1>0, <1>2, <1>4, <2>1, Addressing DEF ClickQuery, Alone
<1>5. ASSUME NEW limit \in Limits, NEW offset \in 0..Cardinality(Users), TurnTo(limit, offset)
      PROVE  page = "users" /\ Unaltered /\ UNCHANGED <<table, rows, stale>>
  BY <1>0, <1>2, <1>5, Addressing DEF TurnTo, Alone
<1>6. ASSUME NEW a \in Requested \cup {None}, Back(a)
      PROVE  /\ page = "users" /\ UNCHANGED <<table, rows>>
             /\ stale' = Stale(Unheard(OfDialog))
             /\ \A j \in Slots : Carried(call[j], call'[j], {})
             /\ \A j \in Slots \ OfDialog : Remains(call[j], call'[j])
  <2> DEFINE calls == Abandoned(OfDialog)
  <2>1. a \in Addresses \cup {None} /\ lastRequest \in Lefts \cup {None}
    BY <1>0, Addressing DEF UserTypeOK
  <2>2. Follow(a, lastRequest, calls)
    BY <1>6 DEF Back
  <2>3. calls \in [Slots -> UserCalls \cup LogCalls \cup {None}]
    BY <1>0, Abandoning
  <2>4. ASSUME NEW j \in Slots
        PROVE  Carried(call[j], calls[j], {}) /\ (j \notin OfDialog => calls[j] = call[j])
    BY <1>0, Abandoning, AbandonedContinue
  <2> HIDE DEF calls
  <2>5. Extends(calls)
    BY <2>1, <2>2, <2>3, FollowExtends
  <2>6. \A j \in Slots \ OfDialog : Remains(call[j], calls[j])
    BY <2>4 DEF Remains
  <2> QED
    BY <1>6, <2>4, <2>5, <2>6, Extending DEF Back
<1>7. ASSUME NEW kind \in Kinds, NEW u \in Users \cup {None}, OpenDialog(kind, u)
      PROVE  page = "users" /\ Unaltered /\ UNCHANGED <<table, rows, stale>>
  BY <1>7, SameCalls DEF OpenDialog, Alone, elsewhere
<1>8. CASE CloseDialog
  BY <1>8, SameCalls DEF CloseDialog, PageInv, elsewhere
<1>9. ASSUME NEW u \in Users, NEW v \in Values \cup {None}, Submit(u, v)
      PROVE  page = "users" /\ Unaltered /\ UNCHANGED <<table, rows, stale>>
  <2>1. Issue(call, [kind |-> dialog.kind, user |-> u, value |-> v])
    BY <1>9 DEF Submit
  <2>2. Extends(call)
    BY <1>0, <1>9, <2>1, Asking, Issuing DEF Extends
  <2> QED
    BY <1>1, <1>9, <2>2 DEF Submit, elsewhere, PageInv
<1>10. ASSUME NEW u \in Users, OthersChange(u)
       PROVE  \A j \in Slots : /\ Carried(call[j], call'[j], Listing(u))
                               /\ Remains(call[j], call'[j])
  BY <1>0, <1>10, Telling, ByOthers DEF OthersChange
<1>11. ASSUME NEW r \in Pages, NEW counted \in BOOLEAN, Keeps(r, counted)
       PROVE  Unaltered /\ UNCHANGED <<table, rows, stale>>
  BY <1>11, SameCalls DEF Keeps
<1> QED
  BY <1>3, <1>4, <1>5, <1>6, <1>7, <1>8, <1>9, <1>10, <1>11 DEF UserTask

\* An answer that knows of a change still says what is so.
LEMMA AnswerKept ==
    ASSUME TypeOK, ListenInv, AnswerInv, NEW j \in Slots, NEW altered, Answerable(j)',
           Carried(call[j], call'[j], altered),
           call[j].ask.kind \in {"query"} \cup Kinds =>
             \A u \in Users : table'[u] = table[u] \/ u \in altered,
           call[j].ask.kind \in {"levels", "set"} =>
             \A t \in Tags : level'[t] = level[t] \/ t \in altered
    PROVE  Carries(j)'
<1> DEFINE c == call[j].ask
<1>1. /\ call[j] # None /\ call[j].heard /\ call[j].served
      /\ call'[j].ask = c /\ call'[j].got = call[j].got
      /\ call'[j].since = call[j].since \cup altered
  BY DEF Answerable, Heard, ListenInv, Carried
<1>2. Carries(j) /\ call[j] \in UserCalls \cup LogCalls
  BY <1>1 DEF AnswerInv, Answerable, Heard, TypeOK
<1>3. CASE c.kind = "query"
  BY <1>1, <1>2, <1>3 DEF Carries
<1>4. CASE c.kind \in {"edit", "add"}
  <2>1. c.user \in Users /\ c.kind \in {"query"} \cup Kinds
    BY <1>2, <1>4, CallFields DEF Kinds
  <2> QED
    BY <1>1, <1>2, <1>4, <2>1 DEF Carries
<1>5. CASE c.kind = "levels"
  BY <1>1, <1>2, <1>5 DEF Carries
<1>6. CASE c.kind = "set"
  <2>1. c.tag \in Tags
    BY <1>2, <1>6, CallFields DEF Kinds
  <2> QED
    BY <1>1, <1>2, <1>6, <2>1 DEF Carries
<1>7. CASE c.kind \notin {"query", "edit", "add", "levels", "set"}
  BY <1>1, <1>7 DEF Carries
<1> QED
  BY <1>3, <1>4, <1>5, <1>6, <1>7

\* What an answer says is so when it is given.
LEMMA ServeAnswers ==
    ASSUME TypeOK, ListenInv, NEW i \in Slots, call[i] # None, call'[i] # None,
           Continues(call[i], call'[i]),
           \/ /\ call[i].ask.kind = "query" /\ call'[i].got = Found(call[i].ask.request)
              /\ table' = table
           \/ /\ call[i].ask.kind \in {"edit", "add"}
              /\ table' = [table EXCEPT ![call[i].ask.user] = call[i].ask.value]
           \/ call[i].ask.kind \in {"delete", "password", "files"}
           \/ /\ call[i].ask.kind = "levels" /\ call'[i].got = level /\ level' = level
           \/ /\ call[i].ask.kind = "set"
              /\ level' = [level EXCEPT ![call[i].ask.tag] = call[i].ask.level]
    PROVE  Carries(i)'
<1> DEFINE c == call[i].ask
<1>1. call'[i].ask = c /\ call[i] \in UserCalls \cup LogCalls
  BY DEF Continues, TypeOK
<1>2. CASE c.kind = "query"
  <2>1. Found(c.request) \in Listings
    BY Counting DEF Listings, TypeOK
  <2>2. \A u \in Users : Found(c.request).rows[u] \in {None, table[u]}
    BY DEF Found
  <2> QED
    BY <1>1, <1>2, <2>1, <2>2 DEF Carries, Kinds
<1>3. CASE c.kind \in {"edit", "add"}
  <2>1. c.user \in Users
    BY <1>1, <1>3, CallFields
  <2>2. table'[c.user] = c.value
    BY <1>3, <2>1 DEF TypeOK, UserTypeOK
  <2> QED
    BY <1>1, <1>3, <2>2 DEF Carries
<1>4. CASE c.kind = "levels"
  BY <1>1, <1>4 DEF Carries, TypeOK, LogTypeOK
<1>5. CASE c.kind = "set"
  <2>1. c.tag \in Tags
    BY <1>1, <1>5, CallFields DEF Kinds
  <2>2. level'[c.tag] = c.level
    BY <1>5, <2>1 DEF TypeOK, LogTypeOK
  <2> QED
    BY <1>1, <1>5, <2>2 DEF Carries
<1>6. CASE c.kind \in {"delete", "password", "files"}
  BY <1>1, <1>6 DEF Carries
<1> QED
  BY <1>2, <1>3, <1>4, <1>5, <1>6

\* A change of a user is told to the page of the users, one of a level to that
\* of the levels.
LEMMA Change ==
    ASSUME TypeOK, ListenInv, NEW j \in Slots, Heard(j)
    PROVE  /\ call[j].ask.kind \in {"query"} \cup Kinds => \A u \in Users : Listing(u) = {u}
           /\ call[j].ask.kind \in {"levels", "set"} => \A t \in Tags : Noted(t) = {t}
  BY DEF ListenInv, Waits, Listing, Noted, okView, Kinds

\* Serving a call of the page of the users leaves every answer true.
LEMMA ServeUsersAnswers ==
    ASSUME TypeOK, ListenInv, AnswerInv, NEW i \in Slots, ServeUsers(i),
           UNCHANGED <<logVars, session>>
    PROVE  AnswerInv'
<1> DEFINE c == call[i].ask
<1>0. /\ CallTypeOK /\ call[i] # None /\ level' = level
      /\ c.kind \in {"query", "edit", "add", "delete", "password"}
  BY DEF TypeOK, CallTypeOK, ServeUsers, Pending, logVars
<1>1. call[i] \in UserCalls
  BY <1>0, CallFields DEF CallTypeOK, Kinds
<1>2. c.kind \in {"edit", "add"} => c.user \in Users
  BY <1>1, CallFields
<1>3. ASSUME NEW got \in Listings \cup {None}, NEW altered \in SUBSET Users,
             Served(i, got, altered), Audience(altered),
             \A j \in Slots : Heard(j) /\ call[j].ask.kind \in {"query"} \cup Kinds =>
               \A u \in Users : table'[u] = table[u] \/ u \in altered,
             \/ c.kind = "query" /\ got = Found(c.request) /\ table' = table
             \/ /\ c.kind \in {"edit", "add"}
                /\ table' = [table EXCEPT ![c.user] = c.value]
             \/ c.kind \in {"delete", "password"}
      PROVE  AnswerInv'
  <2>1. /\ \A j \in Slots : Continues(call[j], call'[j])
        /\ \A j \in Slots \ {i} : Carried(call[j], call'[j], altered)
        /\ call'[i] # None => call'[i].got = got
    BY <1>0, <1>1, <1>3, Serving
  <2>2. ASSUME NEW j \in Slots, Answerable(j)'
        PROVE  Carries(j)'
    <3>1. CASE j = i
      <4>1. call'[i] # None
        BY <2>2, <3>1 DEF Answerable, Heard
      <4> QED
        BY <1>0, <1>3, <2>1, <3>1, <4>1, ServeAnswers
    <3>2. CASE j # i
      <4>1. Heard(j)
        BY <2>1, <2>2 DEF Answerable, Heard, Continues
      <4> QED
        BY <1>0, <1>3, <2>1, <2>2, <3>2, <4>1, AnswerKept
    <3> QED
      BY <3>1, <3>2
  <2> QED
    BY <2>2 DEF AnswerInv
<1>4. Audience({}) /\ \A u \in Users : Audience(Listing(u)) /\ Listing(u) \subseteq Users
  BY <1>0, Telling DEF Listing
<1>5. CASE c.kind = "query" /\ Served(i, Found(c.request), {}) /\ table' = table
  <2>1. Found(c.request) \in Listings
    BY Counting DEF Listings, TypeOK
  <2> QED
    BY <1>3, <1>4, <1>5, <2>1
<1>6. CASE /\ c.kind \in {"edit", "add"} /\ Served(i, None, Listing(c.user))
           /\ table' = [table EXCEPT ![c.user] = c.value]
  <2>1. \A j \in Slots : Heard(j) /\ call[j].ask.kind \in {"query"} \cup Kinds =>
          \A u \in Users : table'[u] = table[u] \/ u \in Listing(c.user)
    BY <1>2, <1>6, Change DEF TypeOK, UserTypeOK
  <2> QED
    BY <1>2, <1>3, <1>4, <1>6, <2>1
<1>7. CASE c.kind \in {"delete", "password"} /\ Served(i, None, {}) /\ table' = table
  BY <1>3, <1>4, <1>7
<1> QED
  BY <1>5, <1>6, <1>7 DEF ServeUsers

\* So does serving a call of a page of the log.
LEMMA ServeLogAnswers ==
    ASSUME TypeOK, ListenInv, AnswerInv, NEW i \in Slots, ServeLog(i),
           UNCHANGED <<userVars, session>>
    PROVE  AnswerInv'
<1> DEFINE c == call[i].ask
<1>0. /\ CallTypeOK /\ call[i] # None /\ table' = table
      /\ c.kind \in {"levels", "files", "set"}
  BY DEF TypeOK, CallTypeOK, ServeLog, Pending, userVars
<1>1. call[i] \in LogCalls /\ level \in [Tags -> Levels]
  BY <1>0, CallFields DEF TypeOK, LogTypeOK, Kinds
<1>2. c.kind = "set" => c.tag \in Tags
  BY <1>1, CallFields
<1>3. ASSUME NEW got \in [Tags -> Levels] \cup {None}, NEW altered \in SUBSET Tags,
             Served(i, got, altered), Audience(altered),
             \A j \in Slots : Heard(j) /\ call[j].ask.kind \in {"levels", "set"} =>
               \A t \in Tags : level'[t] = level[t] \/ t \in altered,
             \/ c.kind = "levels" /\ got = level /\ level' = level
             \/ c.kind = "set" /\ level' = [level EXCEPT ![c.tag] = c.level]
             \/ c.kind = "files"
      PROVE  AnswerInv'
  <2>1. /\ \A j \in Slots : Continues(call[j], call'[j])
        /\ \A j \in Slots \ {i} : Carried(call[j], call'[j], altered)
        /\ call'[i] # None => call'[i].got = got
    BY <1>0, <1>1, <1>3, Serving
  <2>2. ASSUME NEW j \in Slots, Answerable(j)'
        PROVE  Carries(j)'
    <3>1. CASE j = i
      <4>1. call'[i] # None
        BY <2>2, <3>1 DEF Answerable, Heard
      <4> QED
        BY <1>0, <1>3, <2>1, <3>1, <4>1, ServeAnswers
    <3>2. CASE j # i
      <4>1. Heard(j)
        BY <2>1, <2>2 DEF Answerable, Heard, Continues
      <4> QED
        BY <1>0, <1>3, <2>1, <2>2, <3>2, <4>1, AnswerKept
    <3> QED
      BY <3>1, <3>2
  <2> QED
    BY <2>2 DEF AnswerInv
<1>4. Audience({}) /\ \A t \in Tags : Audience(Noted(t)) /\ Noted(t) \subseteq Tags
  BY <1>0, Telling DEF Noted
<1>5. CASE c.kind \in {"levels", "files"} /\ Served(i, level, {}) /\ level' = level
  BY <1>1, <1>3, <1>4, <1>5
<1>6. CASE /\ c.kind = "set" /\ Served(i, None, Noted(c.tag))
           /\ level' = [level EXCEPT ![c.tag] = c.level]
  <2>1. \A j \in Slots : Heard(j) /\ call[j].ask.kind \in {"levels", "set"} =>
          \A t \in Tags : level'[t] = level[t] \/ t \in Noted(c.tag)
    BY <1>2, <1>6, Change DEF TypeOK, LogTypeOK
  <2> QED
    BY <1>2, <1>3, <1>4, <1>6, <2>1
<1> QED
  BY <1>5, <1>6 DEF ServeLog

\* What the administrator does on a page of the log leaves the answers that are
\* on their way.
LEMMA LogTaskAnswers ==
    ASSUME TypeOK, ListenInv, PageInv, LogTask
    PROVE  \/ \E t \in Tags :
                /\ OthersSet(t)
                /\ \A j \in Slots : /\ Carried(call[j], call'[j], Noted(t))
                                    /\ Remains(call[j], call'[j])
           \/ level' = level /\ Unaltered
<1> USE DEF loadVars, levelVars, attachVars
<1>0. CallTypeOK /\ call \in [Slots -> UserCalls \cup LogCalls \cup {None}]
  BY DEF TypeOK, CallTypeOK
<1>1. Extends(call) => Unaltered
  <2>1. \A j \in Slots : Carried(call[j], call[j], {}) /\ Remains(call[j], call[j])
    BY DEF Carried, Remains
  <2> QED
    BY <2>1, Extending DEF Unaltered
<1>2. CASE Refresh
  <2>1. page \in LogRoutes /\ Issue(call, [kind |-> page]) /\ level' = level
    BY <1>2 DEF Refresh, Load, LogRoutes
  <2>2. [kind |-> page] \in LogAsks
    BY <2>1 DEF LogAsks, LogRoutes
  <2>3. Extends(call)
    BY <1>0, <2>1, <2>2, Issuing DEF Extends
  <2> QED
    BY <1>1, <2>1, <2>3
<1>3. CASE Attach \/ Detach \/ \E l \in Listeners : Listen(l)
  BY <1>3, SameCalls DEF Attach, Detach, Listen, elseAttach
<1>4. ASSUME NEW t \in Tags, Reset(t) \/ \E l \in Levels : Select(t, l)
      PROVE  level' = level /\ Unaltered
  BY <1>4, SameCalls DEF Reset, Select, elseLevels
<1>5. ASSUME NEW t \in Tags, Set(t)
      PROVE  level' = level /\ Unaltered
  <2> DEFINE ask == [kind |-> "set", tag |-> t, level |-> data[t]]
  <2>1. ask \in LogAsks
    BY <1>5 DEF Set, PageInv, LogAsks
  <2>2. Extends(call)
    BY <1>0, <1>5, <2>1, Issuing DEF Set, Extends
  <2> QED
    BY <1>1, <1>5, <2>2 DEF Set, elseLevels
<1>6. ASSUME NEW t \in Tags, OthersSet(t)
      PROVE  \A j \in Slots : /\ Carried(call[j], call'[j], Noted(t))
                              /\ Remains(call[j], call'[j])
  BY <1>0, <1>6, Telling, ByOthers DEF OthersSet
<1> QED
  BY <1>2, <1>3, <1>4, <1>5, <1>6 DEF LogTask

\* Every step leaves every answer true.
LEMMA StepKeepsAnswers ==
    ASSUME TypeOK, ListenInv, PageInv, AnswerInv, KeptInv, [Next]_vars
    PROVE  AnswerInv'
<1>0. CallTypeOK
  BY DEF TypeOK, CallTypeOK
<1>1. ASSUME table' = table, level' = level, \A j \in Slots : Carried(call[j], call'[j], {})
      PROVE  AnswerInv'
  BY <1>1, AnswerKept DEF AnswerInv
<1>2. CASE UserTask /\ UNCHANGED <<logVars, session>>
  <2>1. ASSUME NEW u \in Users, OthersChange(u),
               \A j \in Slots : Carried(call[j], call'[j], Listing(u))
        PROVE  AnswerInv'
    <3>1. ASSUME NEW j \in Slots, Answerable(j)'
          PROVE  Carries(j)'
      <4>1. Heard(j)
        BY <2>1, <3>1 DEF Answerable, Heard, Carried, ListenInv
      <4>2. \A v \in Users : table'[v] = table[v] \/ v = u
        BY <2>1 DEF OthersChange, TypeOK, UserTypeOK
      <4>3. call[j].ask.kind \in {"query"} \cup Kinds =>
              \A v \in Users : table'[v] = table[v] \/ v \in Listing(u)
        BY <2>1, <4>1, <4>2, Change
      <4> QED
        BY <1>2, <2>1, <3>1, <4>3, AnswerKept DEF logVars
    <3> QED
      BY <3>1 DEF AnswerInv
  <2> QED
    BY <1>1, <1>2, <2>1, UserTaskAnswers DEF logVars, Unaltered
<1>3. CASE LogTask /\ UNCHANGED <<userVars, session>>
  <2>1. ASSUME NEW t \in Tags, OthersSet(t),
               \A j \in Slots : Carried(call[j], call'[j], Noted(t))
        PROVE  AnswerInv'
    <3>1. ASSUME NEW j \in Slots, Answerable(j)'
          PROVE  Carries(j)'
      <4>1. Heard(j)
        BY <2>1, <3>1 DEF Answerable, Heard, Carried, ListenInv
      <4>2. \A v \in Tags : level'[v] = level[v] \/ v = t
        BY <2>1 DEF OthersSet, TypeOK, LogTypeOK
      <4>3. call[j].ask.kind \in {"levels", "set"} =>
              \A v \in Tags : level'[v] = level[v] \/ v \in Noted(t)
        BY <2>1, <4>1, <4>2, Change
      <4> QED
        BY <1>3, <2>1, <3>1, <4>3, AnswerKept DEF userVars
    <3> QED
      BY <3>1 DEF AnswerInv
  <2> QED
    BY <1>1, <1>3, <2>1, LogTaskAnswers DEF userVars, Unaltered
<1>4. ASSUME NEW i \in Slots, UserCall(i), UNCHANGED <<logVars, session>>
      PROVE  AnswerInv'
  <2>1. CASE ServeUsers(i)
    BY <1>4, <2>1, ServeUsersAnswers
  <2>2. CASE ~ServeUsers(i) /\ ~Recalled(i)
    <3>1. (Answered(i) \/ Failed(i)) /\ table' = table
      BY <1>4, <2>2 DEF UserCall, Listed, NotListed, Added, Changed, Deleted, PasswordChanged,
                        NotSubmitted, Done, elsewhere
    <3> QED
      BY <1>0, <1>1, <1>4, <3>1, Ending DEF logVars
  <2>3. CASE Recalled(i)
    <3>1. /\ \A j \in Slots \ {i} : call'[j] = call[j]
          /\ call'[i].ask.kind = "query"
          /\ \E k \in kept : call'[i].got = k.got /\ call'[i].since = k.since
      BY <1>0, <2>3, Recalling DEF TypeOK, UserTypeOK
    <3>2. table' = table /\ level' = level /\ kept \subseteq KeptAnswers
      BY <1>4, <2>3 DEF Recalled, userVars, logVars, TypeOK, UserTypeOK
    <3>3. Carries(i)'
      <4>1. PICK k \in kept : call'[i].got = k.got /\ call'[i].since = k.since
        BY <3>1
      <4>2. k.got \in Listings
        BY <3>2 DEF KeptAnswers
      <4> QED
        BY <3>1, <3>2, <4>1, <4>2 DEF Carries, KeptInv
    <3>4. ASSUME NEW j \in Slots \ {i}, Answerable(j)'
          PROVE  Carries(j)'
      <4>1. Carries(j)
        BY <3>1, <3>4 DEF AnswerInv, Answerable, Heard
      <4> QED
        BY <3>1, <3>2, <4>1 DEF Carries
    <3> QED
      BY <3>3, <3>4 DEF AnswerInv
  <2> QED
    BY <2>1, <2>2, <2>3
<1>5. ASSUME NEW i \in Slots, LogCall(i), UNCHANGED <<userVars, session>>
      PROVE  AnswerInv'
  <2>1. CASE ServeLog(i)
    BY <1>5, <2>1, ServeLogAnswers
  <2>2. CASE ~ServeLog(i)
    <3>1. (Answered(i) \/ Failed(i)) /\ level' = level
      BY <1>5, <2>2 DEF LogCall, LevelsLoaded, NamesLoaded, NotLoaded, IsSet, NotSet, elseLevels
    <3> QED
      BY <1>0, <1>1, <1>5, <3>1, Ending DEF userVars
  <2> QED
    BY <2>1, <2>2
<1>6. ASSUME NEW i \in Slots, Vanishes(i),
             UNCHANGED <<page, others, userVars, logVars, session>>
      PROVE  AnswerInv'
  BY <1>0, <1>1, <1>6, Ending DEF userVars, logVars
<1>7. CASE Signin \/ Signout \/ Refreshed \/ UNCHANGED vars
  BY <1>1, <1>7, SameCalls DEF Signin, Signout, Refreshed, NewSession, vars, userVars, logVars,
                               Unaltered
<1>8. ASSUME NEW p \in {"home", "users"} \cup LogRoutes, NEW a \in Requested \cup {None},
             Go(p, a)
      PROVE  AnswerInv'
  <2> DEFINE calls == Abandoned(Slots)
  <2>1. calls \in [Slots -> UserCalls \cup LogCalls \cup {None}]
    BY <1>0, Abandoning
  <2>2. \A j \in Slots : Carried(call[j], calls[j], {})
    BY <1>0, AbandonedContinue
  <2> HIDE DEF calls
  <2>3. CASE p = "users"
    <3>1. EnterUsers(a, calls) /\ NoLog
      BY <1>8, <2>3 DEF Go, LogRoutes, calls
    <3>2. a \in Addresses \cup {None}
      BY Addressing DEF TypeOK
    <3>3. Extends(calls)
      BY <2>1, <3>1, <3>2, FollowExtends DEF EnterUsers
    <3> QED
      BY <1>1, <2>2, <3>1, <3>3, Extending DEF EnterUsers, NoLog, LeaveLog
  <2>4. CASE p \in LogRoutes
    <3>1. EnterLog(p, calls) /\ LeaveUsers
      BY <1>8, <2>4 DEF Go, LogRoutes, calls
    <3>2. [kind |-> p] \in LogAsks
      BY <2>4 DEF LogAsks, LogRoutes
    <3>3. Extends(calls)
      BY <2>1, <3>1, <3>2, Issuing DEF EnterLog, Load, Extends
    <3> QED
      BY <1>1, <2>2, <3>1, <3>3, Extending DEF EnterLog, LeaveLog, LeaveUsers
  <2>5. CASE p = "home"
    <3>1. NoLog /\ LeaveUsers /\ call' = calls
      BY <1>8, <2>5 DEF Go, LogRoutes, calls
    <3> QED
      BY <1>1, <2>2, <3>1 DEF NoLog, LeaveLog, LeaveUsers
  <2> QED
    BY <2>3, <2>4, <2>5
<1> QED
  BY <1>2, <1>3, <1>4, <1>5, <1>6, <1>7, <1>8 DEF Next, Task, Ends

\* What the browser keeps knows of every change, whoever makes it.
LEMMA StepKeepsKept ==
    ASSUME TypeOK, KeptInv, [Next]_vars
    PROVE  KeptInv'
<1>1. ASSUME UNCHANGED <<table, kept>>
      PROVE  KeptInv'
  BY <1>1 DEF KeptInv
<1>2. ASSUME NEW u, NEW v, table' = [table EXCEPT ![u] = v], kept' = Outdated(u)
      PROVE  KeptInv'
  <2> SUFFICES ASSUME NEW k \in kept', NEW w \in Users, k.got.rows[w] # None,
                      k.got.rows[w] # table'[w]
               PROVE  w \in k.since
    BY DEF KeptInv
  <2>1. PICK b \in kept :
          k = IF b.got.rows[u] = None THEN b ELSE [b EXCEPT !.since = @ \cup {u}]
    BY <1>2 DEF Outdated
  <2>2. b \in KeptAnswers
    BY DEF TypeOK, UserTypeOK
  <2>3. /\ k.got = b.got /\ b.since \subseteq k.since
        /\ b.got.rows[u] # None => u \in k.since
    BY <2>1, <2>2 DEF KeptAnswers
  <2>4. w # u => table'[w] = table[w]
    BY <1>2 DEF TypeOK, UserTypeOK
  <2> QED
    BY <2>3, <2>4 DEF KeptInv
<1>3. CASE UserTask
  <2>1. ASSUME NEW u \in Users, OthersChange(u)
        PROVE  KeptInv'
    BY <1>2, <2>1 DEF OthersChange
  <2>2. ASSUME NEW r \in Pages, NEW counted \in BOOLEAN, Keeps(r, counted)
        PROVE  KeptInv'
    <3>1. \A u \in Users : Found(r).rows[u] \in {None, table[u]}
      BY DEF Found
    <3> QED
      BY <2>2, <3>1 DEF Keeps, KeptInv
  <2>3. CASE \/ \E f \in Filters : Type(f)
             \/ \E kind \in Kinds, u \in Users \cup {None} : OpenDialog(kind, u)
             \/ CloseDialog
             \/ \E u \in Users, v \in Values \cup {None} : Submit(u, v)
    BY <1>1, <2>3 DEF Type, OpenDialog, CloseDialog, Submit, elsewhere
  <2>4. CASE \/ ClickQuery
             \/ \E limit \in Limits, offset \in 0..Cardinality(Users) : TurnTo(limit, offset)
             \/ \E a \in Requested \cup {None} : Back(a)
    BY <1>1, <2>4 DEF ClickQuery, TurnTo, Navigate, Back
  <2> QED
    BY <1>3, <2>1, <2>2, <2>3, <2>4 DEF UserTask
<1>4. ASSUME NEW i \in Slots, UserCall(i)
      PROVE  KeptInv'
  <2>1. CASE ServeUsers(i)
    BY <1>1, <1>2, <2>1 DEF ServeUsers
  <2>2. CASE ~ServeUsers(i)
    <3>1. UNCHANGED <<table, kept>>
      BY <1>4, <2>2 DEF UserCall, Recalled, Listed, NotListed, Added, Changed, Deleted,
                        PasswordChanged, NotSubmitted, Done, elsewhere, userVars
    <3> QED
      BY <1>1, <3>1
  <2> QED
    BY <2>1, <2>2
<1>5. CASE \/ Signin \/ Signout \/ Refreshed \/ UNCHANGED vars
           \/ LogTask /\ UNCHANGED <<userVars, session>>
           \/ \E i \in Slots : LogCall(i) /\ UNCHANGED <<userVars, session>>
           \/ \E i \in Slots :
                Vanishes(i) /\ UNCHANGED <<page, others, userVars, logVars, session>>
  BY <1>1, <1>5 DEF Signin, Signout, Refreshed, NewSession, vars, userVars
<1>6. ASSUME NEW p \in {"home", "users"} \cup LogRoutes, NEW a \in Requested \cup {None},
             Go(p, a)
      PROVE  KeptInv'
  BY <1>1, <1>6 DEF Go, EnterUsers, LeaveUsers, LogRoutes
<1> QED
  BY <1>3, <1>4, <1>5, <1>6 DEF Next, Task, Ends

\* The answers that were on their way for a row or a level still are, or have
\* reached the page.
LEMMA StillUnanswered ==
    /\ \A u \in Users : Unanswered(u) =>
         \/ Unanswered(u)'
         \/ \E j \in Slots : /\ ~Remains(call[j], call'[j]) /\ Answerable(j)
                            /\ call[j].ask.kind = "edit" /\ call[j].ask.user = u
    /\ \A t \in Tags : SetUnanswered(t) =>
         \/ SetUnanswered(t)'
         \/ \E j \in Slots : /\ ~Remains(call[j], call'[j]) /\ Answerable(j)
                            /\ call[j].ask.kind = "set" /\ call[j].ask.tag = t
<1>1. ASSUME NEW j \in Slots, Answerable(j), Remains(call[j], call'[j])
      PROVE  Answerable(j)' /\ call'[j].ask = call[j].ask
  BY <1>1 DEF Answerable, Heard, Remains
<1> QED
  BY <1>1 DEF Unanswered, SetUnanswered

\* The rows a step does not change.
LEMMA RowsKept ==
    ASSUME RowsCurrent, rows' = rows,
           \A u \in Users : table'[u] = table[u] \/ rows[u] = None \/ u \in stale',
           \A u \in Users : rows[u] # None /\ u \in stale => u \in stale',
           \A j \in Slots :
             \/ Remains(call[j], call'[j])
             \/ /\ Answerable(j) /\ call[j].ask.kind = "edit" /\ rows[call[j].ask.user] # None
                  => call[j].ask.user \in stale'
    PROVE  RowsCurrent'
  BY StillUnanswered DEF RowsCurrent

\* A row is that of the server, or it is known not to be.
LEMMA StepKeepsRows ==
    ASSUME TypeOK, ListenInv, PageInv, AnswerInv, RowsCurrent, [Next]_vars
    PROVE  RowsCurrent'
<1> USE DEF rowVars
<1>0. CallTypeOK
  BY DEF TypeOK, CallTypeOK
<1>1. ASSUME UNCHANGED <<table, rows, stale>>, Unaltered
      PROVE  RowsCurrent'
  BY <1>1, RowsKept DEF Unaltered
<1>2. CASE UserTask /\ UNCHANGED <<logVars, session>>
  <2>1. ASSUME NEW u \in Users, OthersChange(u),
               \A j \in Slots : Remains(call[j], call'[j])
        PROVE  RowsCurrent'
    <3>1. rows' = rows /\ stale' = Stale({u}) /\ \A v \in Users : table'[v] = table[v] \/ v = u
      BY <2>1 DEF OthersChange, TypeOK, UserTypeOK
    <3> QED
      BY <2>1, <3>1, RowsKept DEF Stale
  <2>2. ASSUME UNCHANGED <<table, rows>>, stale' = Stale(Unheard(OfDialog)),
               \A j \in Slots \ OfDialog : Remains(call[j], call'[j])
        PROVE  RowsCurrent'
    <3>1. ASSUME NEW j \in Slots \cap OfDialog, Answerable(j), call[j].ask.kind = "edit",
                 rows[call[j].ask.user] # None
          PROVE  call[j].ask.user \in stale'
      BY <2>2, <3>1 DEF Stale, Unheard, Answerable
    <3> QED
      BY <2>2, <3>1, RowsKept DEF Stale
  <2> QED
    BY <1>1, <1>2, <2>1, <2>2, UserTaskAnswers DEF Unaltered
<1>3. CASE LogTask /\ UNCHANGED <<userVars, session>>
  BY <1>1, <1>3, LogTaskAnswers, RowsKept DEF userVars, Unaltered
<1>4. ASSUME NEW i \in Slots, ServeUsers(i)
      PROVE  RowsCurrent'
  <2> DEFINE c == call[i].ask
  <2>0. call[i] # None /\ ~call[i].served /\ rows' = rows
        /\ c.kind \in {"query", "edit", "add", "delete", "password"}
    BY <1>4 DEF ServeUsers, Pending
  <2>1. call[i] \in UserCalls
    BY <1>0, <2>0, CallFields DEF CallTypeOK, Kinds
  <2>2. c.kind \in {"edit", "add"} => c.user \in Users
    BY <2>1, CallFields
  <2>3. ASSUME NEW got \in Listings \cup {None}, NEW altered \in SUBSET Users,
               Served(i, got, altered), Audience(altered)
        PROVE  /\ \A j \in Slots : Continues(call[j], call'[j]) /\ Remains(call[j], call'[j])
               /\ Heard(i) => Answerable(i)' /\ call'[i].ask = c
    <3>1. /\ \A j \in Slots : Continues(call[j], call'[j])
          /\ \A j \in Slots \ {i} : Remains(call[j], call'[j])
          /\ call[i].heard => call'[i] # None
          /\ call'[i] # None => call[i].heard /\ call'[i].served
      BY <1>0, <2>0, <2>1, <2>3, Serving
    <3>2. Remains(call[i], call'[i])
      BY <2>0 DEF Remains
    <3> QED
      BY <3>1, <3>2 DEF Heard, Answerable, Continues, ListenInv
  <2>4. Audience({}) /\ \A u \in Users : Audience(Listing(u)) /\ Listing(u) \subseteq Users
    BY <1>0, Telling DEF Listing
  <2>5. CASE c.kind = "query" /\ Served(i, Found(c.request), {}) /\ UNCHANGED <<table, stale>>
    <3>1. Found(c.request) \in Listings
      BY Counting DEF Listings, TypeOK
    <3>2. \A j \in Slots : Remains(call[j], call'[j])
      BY <2>3, <2>4, <2>5, <3>1
    <3> QED
      BY <1>1, <2>0, <2>5, <3>2, RowsKept
  <2>6. CASE /\ c.kind \in {"edit", "add"} /\ Served(i, None, Listing(c.user))
             /\ table' = [table EXCEPT ![c.user] = c.value]
             /\ c.kind = "add" => table[c.user] = None
             /\ stale' = IF Heard(i) THEN stale ELSE Stale({c.user})
    <3>1. /\ \A j \in Slots : Remains(call[j], call'[j])
          /\ Heard(i) => Answerable(i)' /\ call'[i].ask = c
      BY <2>2, <2>3, <2>4, <2>6
    <3>2. \A u \in Users : u # c.user => table'[u] = table[u]
      BY <2>2, <2>6 DEF TypeOK, UserTypeOK
    <3>3. \A u \in Users : u \in stale => u \in stale'
      BY <2>6 DEF Stale
    <3>4. CASE ~Heard(i)
      BY <2>0, <2>6, <3>1, <3>2, <3>3, <3>4, RowsKept DEF Stale
    <3>5. CASE Heard(i) /\ c.kind = "edit"
      <4>1. ASSUME NEW u \in Users, u = c.user
            PROVE  Unanswered(u)'
        BY <3>1, <3>5, <4>1 DEF Unanswered
      <4>2. ASSUME NEW u \in Users, u # c.user, rows'[u] # None, rows'[u] # table'[u]
            PROVE  u \in stale' \/ Unanswered(u)'
        BY <2>0, <3>1, <3>2, <3>3, <4>2, StillUnanswered DEF RowsCurrent
      <4> QED
        BY <2>2, <2>6, <4>1, <4>2 DEF RowsCurrent
    <3>6. CASE Heard(i) /\ c.kind = "add"
      <4>1. \A u \in Users : ~Unanswered(u)
        BY <2>0, <3>6 DEF Unanswered, Answerable, ListenInv
      <4>2. \A u \in Users : rows[u] # None /\ rows[u] # table[u] => u \in stale
        BY <4>1 DEF RowsCurrent
      <4>3. rows[c.user] # None => c.user \in stale
        BY <2>2, <2>6, <3>6, <4>2
      <4> QED
        BY <2>0, <3>2, <3>3, <4>2, <4>3 DEF RowsCurrent
    <3> QED
      BY <2>6, <3>4, <3>5, <3>6
  <2>7. CASE Served(i, None, {}) /\ UNCHANGED <<table, stale>>
    <3>1. \A j \in Slots : Remains(call[j], call'[j])
      BY <2>3, <2>4, <2>7
    <3> QED
      BY <2>0, <2>7, <3>1, RowsKept
  <2> QED
    BY <1>4, <2>5, <2>6, <2>7 DEF ServeUsers
<1>5. ASSUME NEW i \in Slots, UserCall(i), ~ServeUsers(i), ~Recalled(i)
      PROVE  RowsCurrent'
  <2> DEFINE c == call[i].ask
  <2>1. /\ Heard(i) /\ (Answered(i) \/ Failed(i)) /\ table' = table
        /\ c.kind \in {"query", "edit", "add", "delete", "password"}
    BY <1>5 DEF UserCall, Listed, NotListed, Added, Changed, Deleted, PasswordChanged,
                NotSubmitted, Done, elsewhere, Answered, Answerable, Failed, Kinds
  <2>2. \A u \in Users : Unanswered(u) => Answerable(i) /\ c.kind = "edit" /\ c.user = u
    BY <2>1 DEF Unanswered, Answerable, ListenInv
  <2>3. call[i] \in UserCalls
    BY <1>0, <2>1, CallFields DEF CallTypeOK, Kinds, Heard
  <2>4. CASE Listed(i)
    <3>1. Carries(i) /\ rows' = call[i].got.rows
      BY <2>4 DEF Listed, Answered, AnswerInv
    <3>2. \A u \in Users : rows'[u] # None /\ rows'[u] # table[u] => u \in call[i].since
      BY <2>4, <3>1 DEF Carries, Listed
    <3> QED
      BY <2>1, <2>4, <3>2 DEF Listed, RowsCurrent
  <2>5. CASE Added(i) \/ Changed(i)
    <3>1. /\ rows' = [rows EXCEPT ![c.user] = c.value]
          /\ stale' = {w \in (stale \ {c.user}) \cup call[i].since : rows'[w] # None}
          /\ c.kind \in {"edit", "add"} /\ Answerable(i)
      BY <2>5 DEF Added, Changed, Done, Row, Answered
    <3>2. c.user \in Users /\ (table[c.user] = c.value \/ c.user \in call[i].since)
      BY <2>3, <3>1, CallFields DEF AnswerInv, Carries
    <3>3. ASSUME NEW u \in Users, rows'[u] # None, rows'[u] # table'[u]
          PROVE  u \in stale'
      <4>1. CASE u = c.user
        BY <2>1, <3>1, <3>2, <3>3, <4>1 DEF TypeOK, UserTypeOK
      <4>2. CASE u # c.user
        BY <2>1, <2>2, <3>1, <3>2, <3>3, <4>2 DEF RowsCurrent, TypeOK, UserTypeOK
      <4> QED
        BY <4>1, <4>2
    <3> QED
      BY <3>3 DEF RowsCurrent
  <2>6. CASE Deleted(i)
    <3>1. /\ rows' = [rows EXCEPT ![c.user] = None]
          /\ stale' = {w \in (stale \ {c.user}) \cup {} : rows'[w] # None}
          /\ c.kind = "delete"
      BY <2>6 DEF Deleted, Done, Row
    <3>2. c.user \in Users
      BY <2>3, <3>1, CallFields DEF Kinds
    <3> QED
      BY <2>1, <2>2, <3>1, <3>2 DEF RowsCurrent, TypeOK, UserTypeOK
  <2>7. CASE PasswordChanged(i)
    BY <2>1, <2>2, <2>7 DEF PasswordChanged, Done, RowsCurrent
  <2>8. CASE NotListed(i)
    BY <2>1, <2>2, <2>8 DEF NotListed, RowsCurrent
  <2>9. CASE NotSubmitted(i)
    <3>1. rows' = rows /\ stale' = Stale(Unheard({i}))
      BY <2>9 DEF NotSubmitted
    <3>2. ASSUME Answerable(i), c.kind = "edit", rows[c.user] # None
          PROVE  c.user \in stale'
      BY <3>1, <3>2 DEF Stale, Unheard, Answerable
    <3> QED
      BY <2>1, <2>2, <3>1, <3>2 DEF RowsCurrent, Stale
  <2> QED
    BY <1>5, <2>4, <2>5, <2>6, <2>7, <2>8, <2>9 DEF UserCall
<1>6. ASSUME NEW i \in Slots, LogCall(i), UNCHANGED <<userVars, session>>
      PROVE  RowsCurrent'
  <2>1. call[i] \in LogCalls /\ call[i] # None
    BY <1>6, LogCallTypes, CallFields
  <2>2. \A j \in Slots \ {i} : Remains(call[j], call'[j])
    <3>1. CASE ServeLog(i)
      <4>1. call[i].ask.kind = "set" => call[i].ask.tag \in Tags
        BY <2>1, CallFields
      <4>2. level \in [Tags -> Levels]
        BY DEF TypeOK, LogTypeOK
      <4> QED
        BY <1>0, <2>1, <3>1, <4>1, <4>2, Telling, Serving DEF ServeLog
    <3>2. CASE ~ServeLog(i)
      <4>1. Answered(i) \/ Failed(i)
        BY <1>6, <3>2 DEF LogCall, LevelsLoaded, NamesLoaded, NotLoaded, IsSet, NotSet
      <4> QED
        BY <1>0, <4>1, Ending DEF Remains
    <3> QED
      BY <3>1, <3>2
  <2>3. call[i].ask.kind # "edit"
    BY <2>1, CallFields
  <2> QED
    BY <1>6, <2>2, <2>3, RowsKept DEF userVars
<1>7. ASSUME NEW i \in Slots, Vanishes(i),
             UNCHANGED <<page, others, userVars, logVars, session>>
      PROVE  RowsCurrent'
  <2>1. \A j \in Slots \ {i} : Remains(call[j], call'[j])
    BY <1>0, <1>7, Ending DEF Remains
  <2>2. ~Answerable(i)
    BY <1>7 DEF Vanishes, Answerable, Heard
  <2> QED
    BY <1>7, <2>1, <2>2, RowsKept DEF userVars
<1>8. CASE Signin \/ Signout \/ Refreshed \/ UNCHANGED vars
  BY <1>1, <1>8, SameCalls DEF Signin, Signout, Refreshed, NewSession, vars, userVars
<1>9. ASSUME NEW p \in {"home", "users"} \cup LogRoutes, NEW a \in Requested \cup {None},
             Go(p, a)
      PROVE  RowsCurrent'
  <2>1. rows' = NoRows
    BY <1>9 DEF Go, EnterUsers, LeaveUsers, LogRoutes, PageInv
  <2> QED
    BY <2>1 DEF NoRows, RowsCurrent
<1>10. ASSUME NEW i \in Slots, Recalled(i)
       PROVE  RowsCurrent'
  <2>1. \A j \in Slots : Remains(call[j], call'[j])
    BY <1>0, <1>10, Recalling DEF TypeOK, UserTypeOK
  <2> QED
    BY <1>10, <2>1, RowsKept DEF Recalled, userVars
<1> QED
  BY <1>2, <1>3, <1>4, <1>5, <1>6, <1>7, <1>8, <1>9, <1>10 DEF Next, Task, Ends

\* The address the page follows is shown, or asked for, or was missed.
LEMMA FollowShows ==
    ASSUME NEW a, NEW left, NEW calls, Follow(a, left, calls), address' = a
    PROVE  AddressShown'
<1>1. CASE a = None
  BY <1>1 DEF AddressShown
<1>2. CASE a # None /\ left # None /\ left.count = 0
  BY <1>2 DEF Follow, AddressShown
<1>3. CASE a # None /\ ~(left # None /\ left.count = 0)
  <2>1. missed' \/ disabled'
    BY <1>3 DEF Follow, Query
  <2> QED
    BY <2>1 DEF AddressShown
<1> QED
  BY <1>1, <1>2, <1>3

\* Every step leaves the page with what its address asks for.
LEMMA StepKeepsShown ==
    ASSUME TypeOK, ListenInv, PageInv, AddressShown, [Next]_vars
    PROVE  AddressShown'
<1> USE DEF fieldVars
<1>1. ASSUME UNCHANGED <<page, address, disabled, current, failed, missed>>
      PROVE  AddressShown'
  BY <1>1 DEF AddressShown
<1>2. ASSUME NEW a, NEW left, Navigate(a, left)
      PROVE  AddressShown'
  <2>1. CASE a = address
    BY <1>1, <1>2, <2>1 DEF Navigate
  <2>2. CASE a # address
    BY <1>2, <2>2, FollowShows DEF Navigate
  <2> QED
    BY <2>1, <2>2
<1>3. CASE UserTask
  <2>1. ASSUME NEW f, Type(f) PROVE AddressShown'
    BY <1>1, <2>1 DEF Type
  <2>2. CASE ClickQuery
    BY <1>2, <2>2 DEF ClickQuery
  <2>3. ASSUME NEW limit, NEW offset, TurnTo(limit, offset) PROVE AddressShown'
    BY <1>2, <2>3 DEF TurnTo
  <2>4. ASSUME NEW a, Back(a) PROVE AddressShown'
    BY <2>4, FollowShows DEF Back
  <2>5. ASSUME NEW kind, NEW u, OpenDialog(kind, u) PROVE AddressShown'
    BY <1>1, <2>5 DEF OpenDialog, elsewhere
  <2>6. CASE CloseDialog
    BY <1>1, <2>6 DEF CloseDialog, elsewhere
  <2>7. ASSUME NEW u, NEW v, Submit(u, v) PROVE AddressShown'
    BY <1>1, <2>7 DEF Submit, elsewhere
  <2>8. ASSUME NEW u, OthersChange(u) PROVE AddressShown'
    BY <1>1, <2>8 DEF OthersChange
  <2>9. ASSUME NEW r, NEW counted, Keeps(r, counted) PROVE AddressShown'
    BY <1>1, <2>9 DEF Keeps
  <2> QED
    BY <1>3, <2>1, <2>2, <2>3, <2>4, <2>5, <2>6, <2>7, <2>8, <2>9 DEF UserTask
<1>4. ASSUME NEW i \in Slots, UserCall(i)
      PROVE  AddressShown'
  <2>1. CASE Listed(i)
    <3>1. Waits(i) /\ call[i].ask.kind = "query"
      BY <2>1 DEF Listed, Answered, Answerable, ListenInv
    <3> QED
      BY <2>1, <3>1 DEF Listed, Waits, AddressShown
  <2>2. CASE NotListed(i)
    <3>1. failed' # 0
      BY <2>2 DEF NotListed, TypeOK, UserTypeOK
    <3> QED
      BY <3>1 DEF AddressShown
  <2>3. CASE ServeUsers(i) \/ Recalled(i)
    BY <1>1, <2>3 DEF ServeUsers, Recalled, userVars
  <2>4. CASE Added(i) \/ Changed(i) \/ Deleted(i) \/ PasswordChanged(i) \/ NotSubmitted(i)
    BY <1>1, <2>4 DEF Added, Changed, Deleted, PasswordChanged, NotSubmitted, Done, elsewhere
  <2> QED
    BY <1>4, <2>1, <2>2, <2>3, <2>4 DEF UserCall
<1>5. CASE LogTask /\ UNCHANGED <<userVars, session>>
  BY <1>1, <1>5, LogTaskTypes DEF userVars
<1>6. ASSUME NEW i \in Slots, LogCall(i), UNCHANGED <<userVars, session>>
      PROVE  AddressShown'
  <2>1. page' = page
    BY <1>6 DEF LogCall, ServeLog, LevelsLoaded, NamesLoaded, NotLoaded, IsSet, NotSet, elseLevels
  <2> QED
    BY <1>1, <1>6, <2>1 DEF userVars
<1>7. CASE \/ Signin \/ Signout \/ Refreshed \/ UNCHANGED vars
           \/ \E i \in Slots : Vanishes(i) /\ UNCHANGED <<page, others, userVars, logVars, session>>
  BY <1>1, <1>7 DEF Signin, Signout, Refreshed, NewSession, vars, userVars
<1>8. ASSUME NEW p \in {"home", "users"} \cup LogRoutes, NEW a, Go(p, a)
      PROVE  AddressShown'
  <2>1. CASE p = "users"
    BY <1>8, <2>1, FollowShows DEF Go, EnterUsers, LogRoutes
  <2>2. CASE p # "users"
    BY <1>8, <2>2 DEF Go, AddressShown
  <2> QED
    BY <2>1, <2>2
<1> QED
  BY <1>3, <1>4, <1>5, <1>6, <1>7, <1>8 DEF Next, Task, Ends

\* The levels a step does not change.
LEMMA LevelsKept ==
    ASSUME LevelsTrue, okView' => okView, backup' = backup,
           \A t \in Tags : okView' => level'[t] = level[t] \/ t \in changed',
           \A t \in Tags : t \in changed => t \in changed',
           \A j \in Slots :
             \/ Remains(call[j], call'[j])
             \/ Answerable(j) /\ call[j].ask.kind = "set" => call[j].ask.tag \in changed'
    PROVE  LevelsTrue'
  BY StillUnanswered DEF LevelsTrue

\* The levels that are shown are those of the server, or are known not to be.
LEMMA StepKeepsLevels ==
    ASSUME TypeOK, ListenInv, PageInv, AnswerInv, LevelsTrue, [Next]_vars
    PROVE  LevelsTrue'
<1> USE DEF loadVars, levelVars
<1>0. CallTypeOK
  BY DEF TypeOK, CallTypeOK
<1>1. ASSUME UNCHANGED <<backup, level, changed>>, okView' => okView, Unaltered
      PROVE  LevelsTrue'
  BY <1>1, LevelsKept DEF Unaltered
<1>2. ASSUME ~okView'
      PROVE  LevelsTrue'
  BY <1>2 DEF LevelsTrue
<1>3. CASE UserTask /\ UNCHANGED <<logVars, session>>
  <2>1. page' = page
    BY <1>3, UserTaskTypes
  <2>2. CASE page = "users"
    BY <1>2, <2>1, <2>2 DEF okView
  <2>3. CASE page # "users"
    <3>1. \A j \in Slots : Remains(call[j], call'[j])
      BY <1>3, <2>3, UserTaskAnswers DEF Unaltered
    <3> QED
      BY <1>3, <2>1, <3>1, LevelsKept DEF logVars, okView
  <2> QED
    BY <2>2, <2>3
<1>4. CASE LogTask
  <2>1. ASSUME NEW t \in Tags, OthersSet(t), \A j \in Slots : Remains(call[j], call'[j])
        PROVE  LevelsTrue'
    <3>1. /\ backup' = backup /\ okView' = okView /\ changed' = changed \cup Noted(t)
          /\ \A v \in Tags : level'[v] = level[v] \/ v = t
      BY <2>1 DEF OthersSet, okView, TypeOK, LogTypeOK
    <3> QED
      BY <2>1, <3>1, LevelsKept DEF Noted, okView
  <2>2. CASE Unaltered /\ ~\E t \in Tags : OthersSet(t)
    <3>1. CASE Refresh
      BY <1>2, <3>1 DEF Refresh, Load, okView
    <3>2. CASE Attach \/ Detach \/ \E l \in Listeners : Listen(l)
      BY <1>1, <2>2, <3>2 DEF Attach, Detach, Listen, elseAttach, okView
    <3>3. ASSUME NEW t \in Tags, Reset(t) \/ Set(t) \/ \E l \in Levels : Select(t, l)
          PROVE  LevelsTrue'
      BY <1>1, <2>2, <3>3 DEF Reset, Set, Select, elseLevels, okView
    <3> QED
      BY <1>4, <2>2, <3>1, <3>2, <3>3 DEF LogTask
  <2> QED
    BY <1>4, <2>1, <2>2, LogTaskAnswers DEF Unaltered
<1>5. ASSUME NEW i \in Slots, UserCall(i), UNCHANGED <<logVars, session>>
      PROVE  LevelsTrue'
  <2>1. call[i] \in UserCalls /\ call[i] # None /\ page' = page
    BY <1>5, UserCallTypes, CallFields
  <2>2. \A j \in Slots \ {i} : Remains(call[j], call'[j])
    <3>1. CASE ServeUsers(i)
      <4>1. call[i].ask.kind \in {"edit", "add"} => call[i].ask.user \in Users
        BY <2>1, CallFields
      <4>2. \A r : Found(r) \in Listings
        BY Counting DEF Listings, TypeOK
      <4> QED
        BY <1>0, <2>1, <3>1, <4>1, <4>2, Telling, Serving DEF ServeUsers
    <3>2. CASE ~ServeUsers(i) /\ ~Recalled(i)
      <4>1. Answered(i) \/ Failed(i)
        BY <1>5, <3>2 DEF UserCall, Listed, NotListed, Added, Changed, Deleted, PasswordChanged,
                          NotSubmitted, Done
      <4> QED
        BY <1>0, <4>1, Ending DEF Remains
    <3>3. CASE Recalled(i)
      BY <1>0, <3>3, Recalling DEF TypeOK, UserTypeOK
    <3> QED
      BY <3>1, <3>2, <3>3
  <2>3. call[i].ask.kind # "set"
    BY <2>1, CallFields DEF Kinds
  <2> QED
    BY <1>5, <2>1, <2>2, <2>3, LevelsKept DEF logVars, okView
<1>6. ASSUME NEW i \in Slots, ServeLog(i)
      PROVE  LevelsTrue'
  <2> DEFINE c == call[i].ask
  <2>0. /\ call[i] # None /\ ~call[i].served /\ backup' = backup /\ okView' = okView
        /\ c.kind \in {"levels", "files", "set"}
    BY <1>6 DEF ServeLog, Pending, okView
  <2>1. call[i] \in LogCalls
    BY <1>0, <2>0, CallFields DEF CallTypeOK, Kinds
  <2>2. c.kind = "set" => c.tag \in Tags
    BY <2>1, CallFields
  <2>3. CASE c.kind \in {"levels", "files"} /\ Heard(i)
    <3>1. ~okView
      BY <2>3 DEF ListenInv, Waits, okView
    <3> QED
      BY <1>2, <2>0, <3>1
  <2>4. CASE /\ c.kind = "set" /\ Served(i, None, Noted(c.tag))
             /\ level' = [level EXCEPT ![c.tag] = c.level]
             /\ changed' = IF Heard(i) THEN changed ELSE changed \cup Noted(c.tag)
    <3>1. /\ \A j \in Slots : Continues(call[j], call'[j])
          /\ \A j \in Slots \ {i} : Remains(call[j], call'[j])
          /\ call[i].heard => call'[i] # None
          /\ call'[i] # None => call[i].heard /\ call'[i].served
      BY <1>0, <2>0, <2>1, <2>2, <2>4, Telling, Serving
    <3>2. Remains(call[i], call'[i])
      BY <2>0 DEF Remains
    <3>3. \A t \in Tags : level'[t] = level[t] \/ t = c.tag
      BY <2>4 DEF TypeOK, LogTypeOK
    <3>4. CASE ~Heard(i)
      BY <2>0, <2>4, <3>1, <3>2, <3>3, <3>4, LevelsKept DEF Noted, okView
    <3>5. CASE Heard(i)
      <4>1. ASSUME NEW t \in Tags, t = c.tag
            PROVE  SetUnanswered(t)'
        BY <2>4, <3>1, <3>5, <4>1 DEF SetUnanswered, Answerable, Heard, Continues, ListenInv
      <4>2. ASSUME NEW t \in Tags, t # c.tag, okView'
            PROVE  backup'[t] = level'[t] \/ t \in changed' \/ SetUnanswered(t)'
        BY <2>0, <2>4, <3>1, <3>2, <3>3, <3>5, <4>2, StillUnanswered DEF LevelsTrue
      <4> QED
        BY <4>1, <4>2 DEF LevelsTrue
    <3> QED
      BY <3>4, <3>5
  <2> QED
    BY <1>6, <2>3, <2>4 DEF ServeLog
<1>7. ASSUME NEW i \in Slots, LogCall(i), ~ServeLog(i)
      PROVE  LevelsTrue'
  <2> DEFINE c == call[i].ask
  <2>1. Heard(i) /\ (Answered(i) \/ Failed(i)) /\ level' = level
    BY <1>7 DEF LogCall, LevelsLoaded, NamesLoaded, NotLoaded, IsSet, NotSet, elseLevels,
                Answered, Answerable, Failed
  <2>2. \A t \in Tags : SetUnanswered(t) => Answerable(i) /\ c.kind = "set" /\ c.tag = t
    BY <2>1 DEF SetUnanswered, Answerable, ListenInv
  <2>3. Waits(i)
    BY <2>1 DEF ListenInv
  <2>4. CASE LevelsLoaded(i)
    <3>1. Carries(i)
      BY <2>4 DEF LevelsLoaded, Answered, AnswerInv
    <3> QED
      BY <2>1, <2>4, <3>1 DEF LevelsLoaded, Carries, LevelsTrue
  <2>5. CASE NamesLoaded(i) \/ NotLoaded(i)
    BY <1>2, <2>3, <2>5 DEF NamesLoaded, NotLoaded, Waits, okView
  <2>6. CASE IsSet(i)
    <3>1. /\ backup' = [backup EXCEPT ![c.tag] = data[c.tag]]
          /\ changed' = (changed \ {c.tag}) \cup call[i].since
          /\ c.kind = "set" /\ Answerable(i) /\ okView' = okView
      BY <2>6 DEF IsSet, Answered, elseLevels, okView
    <3>2. Carries(i) /\ data[c.tag] = c.level /\ okView
      BY <2>3, <3>1 DEF AnswerInv, Waits
    <3>3. ASSUME NEW t \in Tags
          PROVE  backup'[t] = level'[t] \/ t \in changed'
      <4>1. CASE t = c.tag
        BY <2>1, <3>1, <3>2, <4>1 DEF Carries, TypeOK, LogTypeOK
      <4>2. CASE t # c.tag
        BY <2>1, <2>2, <3>1, <3>2, <4>2 DEF LevelsTrue, TypeOK, LogTypeOK
      <4> QED
        BY <4>1, <4>2
    <3> QED
      BY <3>3 DEF LevelsTrue
  <2>7. CASE NotSet(i)
    <3>1. /\ backup' = backup /\ okView' = okView
          /\ changed' = IF call[i].served THEN changed \cup {c.tag} ELSE changed
      BY <2>7 DEF NotSet, elseLevels, okView
    <3> QED
      BY <2>1, <2>2, <3>1 DEF LevelsTrue, Answerable
  <2> QED
    BY <1>7, <2>4, <2>5, <2>6, <2>7 DEF LogCall
<1>8. ASSUME NEW i \in Slots, Vanishes(i),
             UNCHANGED <<page, others, userVars, logVars, session>>
      PROVE  LevelsTrue'
  <2>1. \A j \in Slots \ {i} : Remains(call[j], call'[j])
    BY <1>0, <1>8, Ending DEF Remains
  <2>2. ~Answerable(i)
    BY <1>8 DEF Vanishes, Answerable, Heard
  <2> QED
    BY <1>8, <2>1, <2>2, LevelsKept DEF logVars, okView
<1>9. CASE Signin \/ Signout \/ Refreshed \/ UNCHANGED vars
  <2>1. UNCHANGED <<page, call, loadVars, levelVars, level>>
    BY <1>9 DEF Signin, Signout, Refreshed, NewSession, vars, logVars
  <2> QED
    BY <1>1, <2>1, SameCalls DEF okView
<1>10. ASSUME NEW p \in {"home", "users"} \cup LogRoutes, NEW a \in Requested \cup {None},
              Go(p, a)
       PROVE  LevelsTrue'
  BY <1>2, <1>10 DEF Go, EnterLog, NoLog, Load, LogRoutes, okView
<1> QED
  BY <1>3, <1>4, <1>5, <1>6, <1>7, <1>8, <1>9, <1>10 DEF Next, Task, Ends

\* A listener that is closed is not connected any more, nor does one connect
\* that is not tried to be.
LEMMA Phases ==
    ASSUME NEW l \in Listeners, NEW p, <<sub[l], p>> \in Subscription(l)!Steps
    PROVE  /\ sub[l] = "closed" => p = "over"
           /\ p \in {"trying", "connected"} => sub[l] \in {"trying", "connected"}
  BY DEF Subscription!Steps

\* The page that is left has closed its listener.
LEMMA CloseAttached ==
    ASSUME LogTypeOK, OnlyAttached, Close
    PROVE  \A l \in Listeners : sub'[l] \notin {"trying", "connected"}
<1>1. CASE listener = None
  BY <1>1, LogPageAssumption DEF Close, OnlyAttached
<1>2. CASE listener # None
  BY <1>2 DEF Close, OnlyAttached, LogTypeOK
<1> QED
  BY <1>1, <1>2

\* Every step leaves the log with the page that is attached to it.
LEMMA StepKeepsAttached ==
    ASSUME TypeOK, OnlyAttached, [Next]_vars
    PROVE  OnlyAttached'
<1> USE DEF loadVars, levelVars, attachVars
<1>0. LogTypeOK
  BY DEF TypeOK
<1>1. ASSUME UNCHANGED <<page, listener, sub>>
      PROVE  OnlyAttached'
  BY <1>1 DEF OnlyAttached
<1>2. CASE LogTask
  <2>1. CASE Attach
    BY <2>1, <1>0, LogPageAssumption DEF Attach, elseAttach, okView, OnlyAttached, LogTypeOK
  <2>2. CASE Detach
    BY <2>2, <1>0, CloseAttached DEF Detach, OnlyAttached
  <2>3. ASSUME NEW l \in Listeners, Listen(l)
        PROVE  OnlyAttached'
    <3>1. PICK p \in {"trying", "connected", "over"} :
            <<sub[l], p>> \in Subscription(l)!Steps /\ sub' = [sub EXCEPT ![l] = p]
      BY <2>3 DEF Listen
    <3>2. page' = page /\ listener' = listener
      BY <2>3 DEF Listen, elseAttach
    <3> QED
      BY <1>0, <3>1, <3>2, Phases DEF OnlyAttached, LogTypeOK
  <2>4. CASE Refresh
    BY <1>1, <2>4 DEF Refresh
  <2>5. ASSUME NEW t \in Tags, Reset(t) \/ Set(t) \/ OthersSet(t) \/ \E l \in Levels : Select(t, l)
        PROVE  OnlyAttached'
    BY <1>1, <2>5 DEF Reset, Set, OthersSet, Select, elseLevels
  <2> QED
    BY <1>2, <2>1, <2>2, <2>3, <2>4, <2>5 DEF LogTask
<1>3. ASSUME NEW i \in Slots, LogCall(i)
      PROVE  OnlyAttached'
  BY <1>1, <1>3 DEF LogCall, ServeLog, LevelsLoaded, NamesLoaded, NotLoaded, IsSet, NotSet, elseLevels
<1>4. CASE UserTask /\ UNCHANGED <<logVars, session>>
  <2>1. page' = page
    BY <1>4 DEF UserTask, Type, ClickQuery, TurnTo, Navigate, Back, OpenDialog, CloseDialog,
                Submit, OthersChange, Keeps, elsewhere
  <2> QED
    BY <1>1, <1>4, <2>1 DEF logVars
<1>5. ASSUME NEW i \in Slots, UserCall(i), UNCHANGED <<logVars, session>>
      PROVE  OnlyAttached'
  <2>1. page' = page
    BY <1>5 DEF UserCall, ServeUsers, Recalled, Listed, NotListed, Added, Changed, Deleted,
                PasswordChanged, NotSubmitted, Done, elsewhere
  <2> QED
    BY <1>1, <1>5, <2>1 DEF logVars
<1>6. CASE \/ Signin \/ Signout \/ Refreshed \/ UNCHANGED vars
           \/ \E i \in Slots : Vanishes(i) /\ UNCHANGED <<page, others, userVars, logVars, session>>
  BY <1>1, <1>6 DEF Signin, Signout, Refreshed, NewSession, vars, logVars
<1>7. ASSUME NEW p \in {"home", "users"} \cup LogRoutes, NEW a, Go(p, a)
      PROVE  OnlyAttached'
  <2>1. Close
    BY <1>7 DEF Go, EnterLog, NoLog, LeaveLog, LogRoutes
  <2> QED
    BY <1>0, <2>1, CloseAttached DEF OnlyAttached
<1> QED
  BY <1>2, <1>3, <1>4, <1>5, <1>6, <1>7 DEF Next, Task, Ends

\* Every step leaves the links with the token of the session.
LEMMA StepKeepsLinks ==
    ASSUME TypeOK, LinkCurrent, [Next]_vars
    PROVE  LinkCurrent'
<1>1. ASSUME UNCHANGED <<page, token, session>>
      PROVE  LinkCurrent'
  BY <1>1 DEF LinkCurrent
<1>2. CASE UserTask /\ UNCHANGED <<logVars, session>>
  <2>1. page' = page
    BY <1>2 DEF UserTask, Type, ClickQuery, TurnTo, Navigate, Back, OpenDialog, CloseDialog,
                Submit, OthersChange, Keeps, elsewhere
  <2> QED
    BY <1>1, <1>2, <2>1 DEF logVars
<1>3. CASE LogTask /\ UNCHANGED <<userVars, session>>
  <2>1. page' = page /\ token' = token
    BY <1>3 DEF LogTask, Refresh, Attach, Detach, Reset, Set, OthersSet, Select, Listen,
                elseLevels, elseAttach
  <2> QED
    BY <1>1, <1>3, <2>1
<1>4. ASSUME NEW i \in Slots, UserCall(i), UNCHANGED <<logVars, session>>
      PROVE  LinkCurrent'
  <2>1. page' = page
    BY <1>4 DEF UserCall, ServeUsers, Recalled, Listed, NotListed, Added, Changed, Deleted,
                PasswordChanged, NotSubmitted, Done, elsewhere
  <2> QED
    BY <1>1, <1>4, <2>1 DEF logVars
<1>5. ASSUME NEW i \in Slots, LogCall(i), UNCHANGED <<userVars, session>>
      PROVE  LinkCurrent'
  BY <1>1, <1>5 DEF LogCall, ServeLog, LevelsLoaded, NamesLoaded, NotLoaded, IsSet, NotSet, elseLevels
<1>6. ASSUME NEW s \in [token : Tokens, root : BOOLEAN] \cup {None}, NewSession(s)
      PROVE  LinkCurrent'
  BY <1>6, LogPageAssumption DEF NewSession, Told, TokenOf, LinkCurrent
<1>7. CASE Signin \/ Signout \/ Refreshed
  BY <1>6, <1>7, SessionSteps
<1>8. ASSUME NEW p \in {"home", "users"} \cup LogRoutes, NEW a, Go(p, a)
      PROVE  LinkCurrent'
  BY <1>8, LogPageAssumption DEF Go, Told, TokenOf, LinkCurrent, TypeOK
<1>9. CASE \/ UNCHANGED vars
           \/ \E i \in Slots : Vanishes(i) /\ UNCHANGED <<page, others, userVars, logVars, session>>
  BY <1>1, <1>9 DEF vars, logVars
<1> QED
  BY <1>2, <1>3, <1>4, <1>5, <1>7, <1>8, <1>9 DEF Next, Task, Ends
-------------------------------------------------------------------------------
(***************************************************************************)
(* The invariant, and what follows from it.                                *)
(***************************************************************************)

LEMMA InitEstablishes == Init => IInv
<1> SUFFICES ASSUME Init
             PROVE  IInv
  OBVIOUS
<1> USE DEF Init, InitCalls, InitUsers, InitLog
<1>1. UserTypeOK
  <2>1. NewRequest \in Requests /\ NoRows \in [Users -> Values \cup {None}] /\ -1 \in Counts
    BY UserPageAssumption DEF NewRequest, NoRows, Requests, Counts
  <2>2. 0 \in 0..MaxFailures /\ NewValue \in Values
    BY UserPageAssumption DEF NewValue, Values
  <2> QED
    BY <2>1, <2>2 DEF UserTypeOK
<1>2. LogTypeOK
  BY LogPageAssumption DEF LogTypeOK, NoLevels
<1>3. TypeOK
  BY <1>1, <1>2, CallsAssumption DEF TypeOK
<1>4. ListenInv /\ PageInv /\ AnswerInv /\ KeptInv
  BY DEF ListenInv, PageInv, AnswerInv, KeptInv, Answerable, Heard, okView
<1>5. AddressShown /\ RowsCurrent /\ LevelsTrue /\ OnlyAttached /\ LinkCurrent
  BY DEF AddressShown, RowsCurrent, NoRows, LevelsTrue, okView, OnlyAttached, LinkCurrent
<1> QED
  BY <1>3, <1>4, <1>5 DEF IInv

LEMMA StepKeeps == IInv /\ [Next]_vars => IInv'
  BY StepKeepsTypes, StepKeepsListening, StepKeepsAnswers, StepKeepsKept, StepKeepsShown,
     StepKeepsRows, StepKeepsLevels, StepKeepsAttached, StepKeepsLinks DEF IInv

LEMMA Invariant == Spec => []IInv
  BY InitEstablishes, StepKeeps, PTL DEF Spec

\* The variables of the pages stay in their types: what a page is told of
\* users is of users, and of tags of tags, whatever page was left before.
THEOREM TypeCorrect == Spec => []TypeOK
<1>1. IInv => TypeOK
  BY DEF IInv
<1> QED
  BY <1>1, Invariant, PTL

\* One component at most waits for a call, and for the one it still wants.
THEOREM OneListens == Spec => []ListenInv
<1>1. IInv => ListenInv
  BY DEF IInv
<1> QED
  BY <1>1, Invariant, PTL

\* When nothing is in progress the page of the users shows what its address
\* asks for, or has failed or was not asked to.
THEOREM Shown == Spec => []AddressShown
<1>1. IInv => AddressShown
  BY DEF IInv
<1> QED
  BY <1>1, Invariant, PTL

\* A row says what the table holds, or the user was changed without the page
\* hearing, or the row comes from an answer the browser has kept, and the user was
\* changed since the server gave it, by whomever.
THEOREM Current == Spec => []RowsCurrent
<1>1. IInv => RowsCurrent
  BY DEF IInv
<1> QED
  BY <1>1, Invariant, PTL

\* What the page takes for the levels of the server are they, or were changed
\* without the page hearing.
THEOREM LevelsAreTrue == Spec => []LevelsTrue
<1>1. IInv => LevelsTrue
  BY DEF IInv
<1> QED
  BY <1>1, Invariant, PTL

\* No listener goes on for a page that was left.
THEOREM Attached == Spec => []OnlyAttached
<1>1. IInv => OnlyAttached
  BY DEF IInv
<1> QED
  BY <1>1, Invariant, PTL

\* The links of the files hold the token of the session.
THEOREM Links == Spec => []LinkCurrent
<1>1. IInv => LinkCurrent
  BY DEF IInv
<1> QED
  BY <1>1, Invariant, PTL

\* The edit of one column leaves the other, unless the row was stale: changed by
\* others, or listed by an answer the browser has kept from before a change.
LEMMA EditStep ==
    ASSUME IInv, NEW i \in Slots, Edits(i), ServeUsers(i)
    PROVE  LET u == call[i].ask.user
               v == call[i].ask.value
           IN u \in stale \/ \A f \in DOMAIN v : v[f] = rows[u][f] => table'[u][f] = table[u][f]
<1> DEFINE u == call[i].ask.user
           v == call[i].ask.value
<1>1. call[i] # None /\ ~call[i].served /\ Heard(i) /\ call[i].ask.kind = "edit"
  BY DEF Edits, Pending
<1>2. u \in Users /\ rows[u] # None
  <2>1. Waits(i)
    BY <1>1 DEF IInv, ListenInv
  <2> QED
    BY <1>1, <2>1 DEF Waits, Kinds, IInv, PageInv
<1>3. ~Unanswered(u)
  BY <1>1 DEF Unanswered, Answerable, IInv, ListenInv
<1>4. rows[u] = table[u] \/ u \in stale
  BY <1>2, <1>3 DEF IInv, RowsCurrent
<1>5. table'[u] = v
  BY <1>1, <1>2 DEF ServeUsers, IInv, TypeOK, UserTypeOK
<1> QED
  BY <1>4, <1>5

\* What the administrator has not changed in the dialog stays as it is at the
\* server, unless the row was stale.
THEOREM EditsKeep == Spec => EditKeepsRest
<1>1. IInv /\ [Next]_vars =>
        [\A i \in Slots :
           Edits(i) /\ ServeUsers(i) =>
             LET u == call[i].ask.user
                 v == call[i].ask.value
             IN u \in stale \/ \A f \in DOMAIN v : v[f] = rows[u][f] => table'[u][f] = table[u][f]
        ]_<<call, table>>
  BY EditStep
<1> QED
  BY <1>1, Invariant, PTL DEF Spec, EditKeepsRest
-------------------------------------------------------------------------------
(***************************************************************************)
(* Nobody waits in vain.                                                   *)
(***************************************************************************)

\* Whoever listens to call i still does.
Stays(i) == Heard(i) => Heard(i)' /\ call'[i].ask = call[i].ask

\* Who waits for what, and that it waits for one thing only.
LEMMA Waiting ==
    ASSUME ListenInv, NoneInVain
    PROVE  /\ disabled => page = "users"
           /\ busy => page = "users" /\ dialog # None
           /\ setting => okView
           /\ \A i \in Slots : Heard(i) =>
                /\ disabled => call[i].ask.kind = "query"
                /\ busy => call[i].ask.kind \in Kinds
                /\ setting => call[i].ask.kind = "set"
                /\ page \in LogRoutes /\ ~ready => call[i].ask.kind = page
<1>1. ASSUME NEW i \in Slots, Heard(i)
      PROVE  Waits(i) /\ \A j \in Slots : Heard(j) => j = i
  BY <1>1 DEF ListenInv
<1>2. ASSUME disabled
      PROVE  page = "users"
  BY <1>1, <1>2 DEF NoneInVain, Listens, Waits
<1>3. ASSUME busy
      PROVE  page = "users" /\ dialog # None
  BY <1>1, <1>3 DEF NoneInVain, Listens, Waits
<1>4. ASSUME setting
      PROVE  okView
  BY <1>1, <1>4 DEF NoneInVain, Listens, Waits
<1>5. ASSUME NEW i \in Slots, Heard(i)
      PROVE  /\ disabled => call[i].ask.kind = "query"
             /\ busy => call[i].ask.kind \in Kinds
             /\ setting => call[i].ask.kind = "set"
             /\ page \in LogRoutes /\ ~ready => call[i].ask.kind = page
  BY <1>1, <1>5 DEF NoneInVain, Listens
<1> QED
  BY <1>2, <1>3, <1>4, <1>5

\* A step that neither makes a page wait nor takes a call from it.
LEMMA StillHeard ==
    ASSUME NoneInVain, \A i \in Slots : Stays(i),
           disabled' => disabled, busy' => busy, setting' => setting,
           page' \in LogRoutes /\ ~ready' => page' = page /\ ~ready
    PROVE  NoneInVain'
<1>1. ASSUME NEW kinds, Listens(kinds)
      PROVE  Listens(kinds)'
  BY <1>1 DEF Listens, Stays
<1> QED
  BY <1>1 DEF NoneInVain

\* A call that is issued is listened to.
LEMMA NewlyHeard ==
    ASSUME NEW calls \in [Slots -> UserCalls \cup LogCalls \cup {None}],
           NEW ask \in UserAsks \cup LogAsks, Issue(calls, ask)
    PROVE  \E i \in Slots : Heard(i)' /\ call'[i].ask = ask
<1>1. PICK i \in Slots : call'[i] = NewCall(ask) /\ call'[i] \in UserCalls \cup LogCalls \cup {None}
  BY Issuing DEF CallTypeOK
<1>2. NewCall(ask) # None
  <2>1. NewCall(ask) \in UserCalls \cup LogCalls
    BY DEF NewCall, UserCalls, LogCalls
  <2> QED
    BY <2>1, CallFields
<1> QED
  BY <1>1, <1>2 DEF Heard, NewCall

\* What others change keeps everybody listening; what is served, too.
LEMMA StaysTold ==
    ASSUME CallTypeOK, NEW altered, Audience(altered), NEW j \in Slots,
           call'[j] = Since(call[j], altered)
    PROVE  Stays(j)
<1>1. CASE call[j] # None /\ call[j].served
  BY <1>1, Knowing DEF Stays, Heard, Remains
<1>2. CASE ~(call[j] # None /\ call[j].served)
  BY <1>2 DEF Stays, Heard, Since
<1> QED
  BY <1>1, <1>2

\* Serving a call tells the others of it, and takes nothing from them.
LEMMA StaysServed ==
    ASSUME CallTypeOK, ListenInv, NEW i \in Slots, call[i] # None, NEW got, NEW altered,
           Served(i, got, altered), Audience(altered),
           \/ call[i] \in UserCalls /\ got \in Listings \cup {None}
           \/ call[i] \in LogCalls /\ got \in [Tags -> Levels] \cup {None}
    PROVE  \A j \in Slots : Stays(j)
<1>1. /\ \A j \in Slots : Continues(call[j], call'[j])
      /\ call[i].heard => call'[i] # None
      /\ call'[i] # None => call[i].heard
  BY Serving
<1>2. ASSUME NEW j \in Slots, j # i
      PROVE  Stays(j)
  BY <1>2, StaysTold DEF Served
<1>3. Stays(i)
  <2> SUFFICES ASSUME call[i].heard
               PROVE  call'[i] # None /\ call'[i].heard /\ call'[i].ask = call[i].ask
    BY DEF Stays, Heard
  <2>1. call'[i] = [call[i] EXCEPT !.served = TRUE, !.got = got]
    BY DEF Served
  <2>2. call'[i].heard = call[i].heard
    BY <2>1 DEF UserCalls, LogCalls
  <2> QED
    BY <1>1, <2>2 DEF Continues
<1> QED
  BY <1>2, <1>3
-------------------------------------------------------------------------------
\* The page of the users, given another address, by whoever waits for nothing else.
LEMMA FollowHeard ==
    ASSUME TypeOK, NEW a \in Addresses \cup {None}, NEW left \in Lefts \cup {None},
           NEW calls \in [Slots -> UserCalls \cup LogCalls \cup {None}],
           disabled => \E i \in Slots : calls[i] # None /\ calls[i].heard
                                       /\ calls[i].ask.kind = "query",
           Follow(a, left, calls), page' = "users", ~busy', ~setting'
    PROVE  NoneInVain'
<1>1. ASSUME call' = calls, disabled' = disabled
      PROVE  NoneInVain'
  BY <1>1 DEF NoneInVain, Listens, Heard, LogRoutes
<1>2. CASE a = None \/ (left # None /\ left.count = 0)
  BY <1>1, <1>2 DEF Follow
<1>3. CASE a # None /\ ~(left # None /\ left.count = 0)
  <2> DEFINE r == IF left # None THEN left ELSE [request |-> a.request, count |-> -1]
             ask == [kind |-> "query", request |-> r.request, count |-> r.count]
  <2>1. Query(r, a, calls)
    BY <1>3 DEF Follow
  <2>2. CASE disabled
    BY <1>1, <2>1, <2>2 DEF Query
  <2>3. CASE ~disabled
    <3>1. ask \in UserAsks
      BY <1>3 DEF Lefts, Addresses, Counts, UserAsks
    <3>2. Issue(calls, ask)
      BY <2>1, <2>3 DEF Query
    <3>3. ask.kind = "query"
      OBVIOUS
    <3> HIDE DEF ask, r
    <3>4. Listens({"query"})'
      BY <3>1, <3>2, <3>3, NewlyHeard DEF Listens
    <3> QED
      BY <3>4 DEF NoneInVain, LogRoutes
  <2> QED
    BY <2>2, <2>3
<1> QED
  BY <1>2, <1>3

\* The pages of the users ask before they wait, and wait for one thing at a time.
LEMMA UserTaskHeard ==
    ASSUME TypeOK, ListenInv, PageInv, NoneInVain, UserTask, UNCHANGED <<logVars, session>>
    PROVE  NoneInVain'
<1> USE DEF userVars, fieldVars, rowVars, dialogVars, logVars, loadVars, levelVars
<1>0. CallTypeOK /\ UserTypeOK /\ page' = page /\ ready' = ready /\ setting' = setting
  <2>1. page' = page
    BY UserTaskTypes
  <2> QED
    BY <2>1 DEF TypeOK, CallTypeOK
<1>1. page = "users" => ~setting
  BY Waiting DEF okView
<1>2. dialog = None => ~busy
  BY Waiting
<1>3. ASSUME call' = call, disabled' => disabled, busy' => busy
      PROVE  NoneInVain'
  BY <1>0, <1>3, StillHeard DEF Stays, Heard
<1>4. ASSUME NEW a \in Addresses, NEW left \in Lefts \cup {None}, Alone, Navigate(a, left)
      PROVE  NoneInVain'
  <2>1. CASE a = address
    BY <1>3, <1>4, <2>1 DEF Navigate
  <2>2. CASE a # address
    <3>1. Follow(a, left, call) /\ page' = "users" /\ ~busy' /\ ~setting' /\ ~disabled
      BY <1>0, <1>1, <1>2, <1>4, <2>2 DEF Navigate, Alone
    <3> QED
      BY <1>0, <3>1, FollowHeard DEF CallTypeOK
  <2> QED
    BY <2>1, <2>2
<1>5. ASSUME NEW f \in Filters, Type(f)
      PROVE  NoneInVain'
  BY <1>3, <1>5 DEF Type
<1>6. CASE ClickQuery
  <2>1. Everybody \in Filters /\ typed \in Filters \cup {None} /\ lastRequest \in Lefts \cup {None}
    BY UserPageAssumption DEF TypeOK, UserTypeOK
  <2> QED
    BY <1>0, <1>4, <1>6, <2>1, Addressing DEF ClickQuery
<1>7. ASSUME NEW limit \in Limits, NEW offset \in 0..Cardinality(Users), TurnTo(limit, offset)
      PROVE  NoneInVain'
  BY <1>0, <1>4, <1>7, Addressing DEF TurnTo
<1>8. ASSUME NEW a \in Requested \cup {None}, Back(a)
      PROVE  NoneInVain'
  <2> DEFINE calls == Abandoned(OfDialog)
  <2>1. a \in Addresses \cup {None} /\ lastRequest \in Lefts \cup {None}
    BY <1>0, Addressing DEF UserTypeOK
  <2>2. Follow(a, lastRequest, calls) /\ page' = "users" /\ ~busy' /\ ~setting'
    BY <1>0, <1>1, <1>8 DEF Back
  <2>3. calls \in [Slots -> UserCalls \cup LogCalls \cup {None}]
        /\ \A i \in Slots \ OfDialog : calls[i] = call[i]
    BY <1>0, Abandoning
  <2> HIDE DEF calls
  <2>4. ASSUME disabled
        PROVE  \E i \in Slots : calls[i] # None /\ calls[i].heard /\ calls[i].ask.kind = "query"
    <3>1. PICK i \in Slots : Heard(i) /\ call[i].ask.kind = "query"
      BY <2>4 DEF NoneInVain, Listens
    <3>2. i \notin OfDialog
      BY <3>1 DEF OfDialog, Kinds
    <3> QED
      BY <2>3, <3>1, <3>2 DEF Heard
  <2> QED
    BY <2>1, <2>2, <2>3, <2>4, FollowHeard
<1>9. ASSUME NEW kind \in Kinds, NEW u \in Users \cup {None}, OpenDialog(kind, u)
      PROVE  NoneInVain'
  BY <1>3, <1>9 DEF OpenDialog, elsewhere
<1>10. CASE CloseDialog
  BY <1>3, <1>10 DEF CloseDialog, elsewhere
<1>11. ASSUME NEW u \in Users, NEW v \in Values \cup {None}, Submit(u, v)
       PROVE  NoneInVain'
  <2> DEFINE ask == [kind |-> dialog.kind, user |-> u, value |-> v]
  <2>1. ask \in UserAsks /\ Issue(call, ask)
    BY <1>0, <1>11, Asking DEF Submit
  <2>2. dialog.kind \in Kinds
    BY <1>0, <1>11 DEF Submit, UserTypeOK, Dialogs
  <2>3. Listens(Kinds)'
    BY <1>0, <2>1, <2>2, NewlyHeard DEF Listens, CallTypeOK
  <2>4. page' = "users" /\ ~disabled' /\ ~setting'
    BY <1>0, <1>1, <1>11 DEF Submit, elsewhere, PageInv
  <2> QED
    BY <2>3, <2>4 DEF NoneInVain, LogRoutes
<1>12. ASSUME NEW u \in Users, OthersChange(u)
       PROVE  NoneInVain'
  <2>1. \A j \in Slots : Stays(j)
    BY <1>0, <1>12, Telling, StaysTold DEF OthersChange, ChangedByOthers
  <2> QED
    BY <1>0, <1>12, <2>1, StillHeard DEF OthersChange
<1>13. ASSUME NEW r \in Pages, NEW counted \in BOOLEAN, Keeps(r, counted)
       PROVE  NoneInVain'
  BY <1>3, <1>13 DEF Keeps
<1> QED
  BY <1>5, <1>6, <1>7, <1>8, <1>9, <1>10, <1>11, <1>12, <1>13 DEF UserTask

\* So do the pages of the logs.
LEMMA LogTaskHeard ==
    ASSUME TypeOK, ListenInv, PageInv, NoneInVain, LogTask, UNCHANGED <<userVars, session>>
    PROVE  NoneInVain'
<1> USE DEF userVars, fieldVars, rowVars, dialogVars, logVars, loadVars, levelVars, attachVars
<1>0. CallTypeOK /\ LogTypeOK
  BY DEF TypeOK, CallTypeOK
<1>1. page # "users" => ~disabled /\ ~busy
  BY Waiting
<1>2. ASSUME UNCHANGED <<page, call, ready, setting>>
      PROVE  NoneInVain'
  BY <1>2, StillHeard DEF Stays, Heard
<1>3. CASE Refresh
  <2>1. [kind |-> page] \in LogAsks /\ page \in LogRoutes
    BY <1>3 DEF Refresh, LogAsks, LogRoutes
  <2>2. \E i \in Slots : Heard(i)' /\ call'[i].ask = [kind |-> page]
    BY <1>0, <1>3, <2>1, NewlyHeard DEF Refresh, Load, CallTypeOK
  <2>3. Listens({page})'
    BY <1>3, <2>2 DEF Listens, Refresh
  <2>4. ~disabled' /\ ~busy' /\ ~setting' /\ page' = page
    BY <1>1, <1>3, Waiting DEF Refresh, okView
  <2> QED
    BY <2>3, <2>4 DEF NoneInVain
<1>4. CASE Attach \/ Detach \/ (\E l \in Listeners : Listen(l))
  BY <1>2, <1>4 DEF Attach, Detach, Listen, elseAttach
<1>5. ASSUME NEW t \in Tags, Reset(t) \/ \E l \in Levels : Select(t, l)
      PROVE  NoneInVain'
  BY <1>2, <1>5 DEF Reset, Select, elseLevels
<1>6. ASSUME NEW t \in Tags, Set(t)
      PROVE  NoneInVain'
  <2> DEFINE ask == [kind |-> "set", tag |-> t, level |-> data[t]]
  <2>1. ask \in LogAsks
    BY <1>6 DEF Set, PageInv, LogAsks
  <2>2. ask.kind = "set" /\ Issue(call, ask)
    BY <1>6 DEF Set
  <2> HIDE DEF ask
  <2>3. Listens({"set"})'
    BY <1>0, <2>1, <2>2, NewlyHeard DEF Listens, CallTypeOK
  <2>4. ~disabled' /\ ~busy' /\ ready' /\ page' = page
    BY <1>1, <1>6 DEF Set, elseLevels, okView
  <2> QED
    BY <2>3, <2>4 DEF NoneInVain
<1>7. ASSUME NEW t \in Tags, OthersSet(t)
      PROVE  NoneInVain'
  <2>1. \A j \in Slots : Stays(j)
    BY <1>0, <1>7, Telling, StaysTold DEF OthersSet, ChangedByOthers
  <2> QED
    BY <1>7, <2>1, StillHeard DEF OthersSet
<1> QED
  BY <1>3, <1>4, <1>5, <1>6, <1>7 DEF LogTask

\* A call ends: what was disabled for it is not any more, and nothing else was.
LEMMA UserCallHeard ==
    ASSUME TypeOK, ListenInv, PageInv, AnswerInv, NoneInVain, NEW i \in Slots, UserCall(i),
           UNCHANGED <<logVars, session>>
    PROVE  NoneInVain'
<1> USE DEF userVars, fieldVars, rowVars, dialogVars, logVars, loadVars, levelVars
<1>0. CallTypeOK /\ page' = page /\ call[i] \in UserCalls
  BY UserCallTypes DEF TypeOK, CallTypeOK
<1>1. CASE ServeUsers(i)
  <2>1. call[i] # None
    BY <1>1 DEF ServeUsers, Pending
  <2>2. call[i].ask.kind \in {"edit", "add"} => call[i].ask.user \in Users
    BY <1>0, CallFields
  <2>3. \A j \in Slots : Stays(j)
    BY <1>0, <1>1, <2>1, <2>2, Counting, Telling, StaysServed DEF ServeUsers, Listings, TypeOK
  <2> QED
    BY <1>0, <1>1, <2>3, StillHeard DEF ServeUsers
<1>2. CASE ~ServeUsers(i) /\ ~Recalled(i)
  <2>1. Heard(i)
    BY <1>2 DEF UserCall, Listed, NotListed, Added, Changed, Deleted, PasswordChanged,
                NotSubmitted, Done, Answered, Answerable, Failed
  <2>2. Waits(i)
    BY <2>1 DEF ListenInv
  <2>3. CASE Listed(i) \/ NotListed(i)
    <3>1. page = "users" /\ ~busy /\ ~setting
      BY <2>1, <2>2, <2>3, Waiting DEF Listed, NotListed, Waits, Kinds
    <3> QED
      BY <1>0, <2>3, <3>1 DEF Listed, NotListed, NoneInVain, LogRoutes
  <2>4. CASE Added(i) \/ Changed(i) \/ Deleted(i) \/ PasswordChanged(i) \/ NotSubmitted(i)
    <3>1. call[i].ask.kind \in Kinds
      BY <2>4 DEF Added, Changed, Deleted, PasswordChanged, NotSubmitted, Done, Kinds
    <3>2. page = "users" /\ ~disabled /\ ~setting
      BY <2>1, <2>2, <3>1, Waiting DEF Waits, Kinds
    <3>3. ~busy' /\ disabled' = disabled
      BY <2>4 DEF Added, Changed, Deleted, PasswordChanged, NotSubmitted, Done, elsewhere
    <3> QED
      BY <1>0, <3>2, <3>3 DEF NoneInVain, LogRoutes
  <2> QED
    BY <1>2, <2>3, <2>4 DEF UserCall
<1>3. CASE Recalled(i)
  <2>1. \A j \in Slots : Stays(j)
    BY <1>0, <1>3, Recalling DEF Stays, Heard, TypeOK, UserTypeOK
  <2> QED
    BY <1>0, <1>3, <2>1, StillHeard DEF Recalled
<1> QED
  BY <1>1, <1>2, <1>3

\* The same of the calls of the pages of the logs.
LEMMA LogCallHeard ==
    ASSUME TypeOK, ListenInv, PageInv, AnswerInv, NoneInVain, NEW i \in Slots, LogCall(i),
           UNCHANGED <<userVars, session>>
    PROVE  NoneInVain'
<1> USE DEF userVars, fieldVars, rowVars, dialogVars, logVars, loadVars, levelVars
<1>0. CallTypeOK /\ page' = page /\ call[i] \in LogCalls
  BY LogCallTypes DEF TypeOK, CallTypeOK
<1>1. CASE ServeLog(i)
  <2>1. call[i] # None
    BY <1>1 DEF ServeLog, Pending
  <2>2. call[i].ask.kind = "set" => call[i].ask.tag \in Tags
    BY <1>0, CallFields
  <2>3. \A j \in Slots : Stays(j)
    BY <1>0, <1>1, <2>1, <2>2, Telling, StaysServed DEF ServeLog, TypeOK, LogTypeOK
  <2> QED
    BY <1>0, <1>1, <2>3, StillHeard DEF ServeLog
<1>2. CASE ~ServeLog(i)
  <2>1. Heard(i)
    BY <1>2 DEF LogCall, LevelsLoaded, NamesLoaded, NotLoaded, IsSet, NotSet, Answered,
                Answerable, Failed
  <2>2. Waits(i)
    BY <2>1 DEF ListenInv
  <2>3. CASE LevelsLoaded(i) \/ NamesLoaded(i) \/ NotLoaded(i)
    <3>1. call[i].ask.kind \in {"levels", "files"}
      BY <2>3 DEF LevelsLoaded, NamesLoaded, NotLoaded
    <3>2. ~disabled /\ ~busy /\ ~setting
      BY <2>1, <2>2, <3>1, Waiting DEF Waits, Kinds
    <3> QED
      BY <1>0, <2>3, <3>2 DEF LevelsLoaded, NamesLoaded, NotLoaded, NoneInVain
  <2>4. CASE IsSet(i) \/ NotSet(i)
    <3>1. call[i].ask.kind = "set"
      BY <2>4 DEF IsSet, NotSet
    <3>2. ~disabled /\ ~busy /\ page = "levels" /\ ready
      BY <2>1, <2>2, <3>1, Waiting DEF Waits, Kinds, okView
    <3> QED
      BY <2>4, <3>2 DEF IsSet, NotSet, elseLevels, NoneInVain
  <2> QED
    BY <1>2, <2>3, <2>4 DEF LogCall
<1> QED
  BY <1>1, <1>2

\* Who goes to another page waits for what that page asks for.
LEMMA GoHeard ==
    ASSUME TypeOK, ListenInv, PageInv, NoneInVain,
           NEW p \in {"home", "users"} \cup LogRoutes, NEW a \in Requested \cup {None}, Go(p, a)
    PROVE  NoneInVain'
<1> DEFINE calls == Abandoned(Slots)
<1>0. CallTypeOK /\ UserTypeOK /\ page' = p
  BY DEF TypeOK, CallTypeOK, Go
<1>1. calls \in [Slots -> UserCalls \cup LogCalls \cup {None}]
  BY <1>0, Abandoning
<1> HIDE DEF calls
<1>2. CASE p = "users"
  <2>1. EnterUsers(a, calls) /\ NoLog /\ page # "users"
    BY <1>2 DEF Go, LogRoutes, calls
  <2>2. ~disabled /\ ~busy' /\ ~setting'
    BY <2>1, Waiting DEF EnterUsers, NoLog, LeaveLog, dialogVars
  <2>3. a \in Addresses \cup {None}
    BY <1>0, Addressing
  <2> QED
    BY <1>0, <1>1, <1>2, <2>1, <2>2, <2>3, FollowHeard DEF EnterUsers
<1>3. CASE p \in LogRoutes
  <2>1. EnterLog(p, calls) /\ LeaveUsers
    BY <1>3 DEF Go, LogRoutes, calls
  <2>2. [kind |-> p] \in LogAsks
    BY <1>3 DEF LogAsks, LogRoutes
  <2>3. \E i \in Slots : Heard(i)' /\ call'[i].ask = [kind |-> p]
    BY <1>1, <2>1, <2>2, NewlyHeard DEF EnterLog, Load
  <2>4. Listens({p})'
    BY <2>3 DEF Listens
  <2>5. ~disabled' /\ ~busy' /\ ~setting'
    BY <2>1 DEF EnterLog, LeaveLog, LeaveUsers
  <2> QED
    BY <1>0, <2>4, <2>5 DEF NoneInVain
<1>4. CASE p = "home"
  BY <1>0, <1>4 DEF Go, NoLog, LeaveLog, LeaveUsers, NoneInVain, LogRoutes
<1> QED
  BY <1>2, <1>3, <1>4

\* Whoever waits goes on being listened for in every step.
LEMMA StepKeepsHeard ==
    ASSUME TypeOK, ListenInv, PageInv, AnswerInv, NoneInVain, [Next]_vars
    PROVE  NoneInVain'
<1> USE DEF userVars, fieldVars, rowVars, dialogVars, logVars, loadVars, levelVars, attachVars
<1>1. ASSUME UNCHANGED <<page, disabled, busy, setting, ready>>, \A j \in Slots : Stays(j)
      PROVE  NoneInVain'
  BY <1>1, StillHeard
<1>2. CASE Signin \/ Signout \/ Refreshed
  BY <1>1, <1>2 DEF Signin, Signout, Refreshed, NewSession, Stays, Heard
<1>3. ASSUME NEW i \in Slots, Vanishes(i),
             UNCHANGED <<page, others, userVars, logVars, session>>
      PROVE  NoneInVain'
  <2>1. CallTypeOK /\ \A j \in Slots \ {i} : call'[j] = call[j]
    BY <1>3, Ending DEF TypeOK, CallTypeOK
  <2>2. \A j \in Slots : Stays(j)
    BY <1>3, <2>1 DEF Vanishes, Stays, Heard
  <2> QED
    BY <1>1, <1>3, <2>2
<1>4. CASE UNCHANGED vars
  BY <1>1, <1>4 DEF vars, Stays, Heard
<1> QED
  BY <1>2, <1>3, <1>4, GoHeard, UserTaskHeard, LogTaskHeard, UserCallHeard, LogCallHeard
     DEF Next, Task, Ends

\* Nothing stays disabled for want of a call: what is waited for is asked for,
\* and the answer or the error will be heard.
THEOREM WaitsForACall == Spec => []NoneInVain
<1>1. Init => NoneInVain
  BY DEF Init, InitUsers, InitLog, NoneInVain, LogRoutes
<1>2. IInv => TypeOK /\ ListenInv /\ PageInv /\ AnswerInv
  BY DEF IInv
<1>3. IInv /\ NoneInVain /\ [Next]_vars => NoneInVain'
  BY <1>2, StepKeepsHeard
<1> QED
  BY <1>1, <1>3, Invariant, PTL DEF Spec
===============================================================================
