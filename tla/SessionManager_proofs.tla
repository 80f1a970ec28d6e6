------------------------- MODULE SessionManager_proofs -------------------------
(***************************************************************************)
(* Proofs about the session manager of the front-end.  Completers have an  *)
(* invariant of their own; that of sessions follows a token from the       *)
(* server through storage, tabs and requests.                              *)
(***************************************************************************)
EXTENDS SessionManager, TLAPS

\* Every step is one of a tab or of the server.
LEMMA Steps ==
    ASSUME [Next]_vars
    PROVE  \/ \E t \in Tabs :
                \/ Open(t) \/ Signout(t) \/ SigninDone(t) \/ SigninFails(t)
                \/ Exchange(t) \/ RefreshDone(t) \/ RefreshFails(t)
                \/ \E u \in Users, rem \in BOOLEAN : Signin(t, u, rem)
                \/ \E i \in Slots : \/ Send(t, i) \/ Answered(t, i) \/ Join(t, i)
                                    \/ Changed(t, i) \/ Adopt(t, i) \/ Refresh(t, i)
           \/ \E k \in Given : Age(k) \/ Evict(k)
           \/ UNCHANGED vars
  BY ConstantsAssumption DEF Next, Tab, Retry
-------------------------------------------------------------------------------
(***************************************************************************)
(* Types, one variable or two at a time.                                   *)
(***************************************************************************)

TabType ==
    /\ subject \in [Tabs -> Optional(Sessions)]
    /\ remember \in [Tabs -> BOOLEAN]
    /\ signing \in [Tabs -> Optional(Signins)]
    /\ completer \in [Tabs -> {"none", "signin", "refresh"}]

PostType == posted \in [Tabs -> Optional(Posts)]

ReqType == req \in [Tabs -> [Slots -> Optional(Requests)]]

StoreType == key \in Optional(Sessions) /\ last \in Optional(Sessions)

ServerType ==
    /\ owner \in Seq(Users) /\ Len(owner) <= MaxTokens
    /\ age \in [Given -> {"fresh", "expired", "deleted"}]
    /\ alive \subseteq Given

\* TypeOK is the conjunction of the parts.
LEMMA Parts == TypeOK <=> TabType /\ PostType /\ ReqType /\ StoreType /\ ServerType
  BY DEF TypeOK, TabType, PostType, ReqType, StoreType, ServerType

\* A member of a set that may be missing, and is not.
LEMMA Present == ASSUME NEW S, NEW x \in Optional(S), x # None PROVE x \in S
  BY DEF Optional

\* A token that is given out is the next one, and those before keep their
\* owners.
LEMMA Giving ==
    ASSUME ServerType, NEW u \in Users, Give(u)
    PROVE  /\ Len(owner') \in Tokens /\ owner' \in Seq(Users) /\ Len(owner') <= MaxTokens
           /\ Given' = Given \cup {Len(owner')}
           /\ owner'[Len(owner')] = u
           /\ \A k \in Given : owner'[k] = owner[k]
           /\ age' \in [Given' -> {"fresh", "expired", "deleted"}]
<1> USE ConstantsAssumption
<1>1. /\ owner' = Append(owner, u) /\ Len(owner) < MaxTokens /\ Len(owner) \in Nat
      /\ owner' \in Seq(Users) /\ Len(owner') = Len(owner) + 1
  BY DEF ServerType, Give
<1>2. /\ Given = 1..Len(owner) /\ Given' = 1..Len(owner')
      /\ owner'[Len(owner')] = u /\ \A k \in Given : owner'[k] = owner[k]
  BY <1>1 DEF ServerType, Given
<1>3. Len(owner') \in Tokens /\ Len(owner') <= MaxTokens /\ Given' = Given \cup {Len(owner')}
  BY <1>1, <1>2 DEF Tokens
<1>4. age' \in [Given' -> {"fresh", "expired", "deleted"}]
  <2>1. age \in Seq({"fresh", "expired", "deleted"}) /\ Len(age) = Len(owner)
    BY <1>1, <1>2 DEF ServerType
  <2>2. age' = Append(age, "fresh")
    BY DEF Give
  <2>3. age' \in Seq({"fresh", "expired", "deleted"}) /\ Len(age') = Len(owner) + 1
    BY <2>1, <2>2
  <2> QED
    BY <1>1, <1>2, <2>3
<1> QED
  BY <1>1, <1>2, <1>3, <1>4
-------------------------------------------------------------------------------
\* Tabs keep their types.
LEMMA StepKeepsTabs == TypeOK /\ [Next]_vars => TabType'
<1> SUFFICES ASSUME TypeOK, [Next]_vars
             PROVE  TabType'
  OBVIOUS
<1> USE ConstantsAssumption, Parts DEF TabType, tabVars, storageVars, serverVars
<1>1. ASSUME NEW t \in Tabs, Open(t)
      PROVE  TabType'
  <2>1. Load(key) \in Optional(Sessions)
    BY DEF Load, StoreType, Optional
  <2> QED
    BY <1>1, <2>1 DEF Open, Optional
<1>2. ASSUME NEW t \in Tabs, Signout(t)
      PROVE  TabType'
  BY <1>2 DEF Signout, Optional, Remembered
<1>3. ASSUME NEW t \in Tabs, SigninDone(t)
      PROVE  TabType'
  <2> DEFINE s == [k |-> Len(owner'), user |-> signing[t].user]
  <2>1. signing[t] \in Signins
    BY <1>3, Present DEF SigninDone
  <2>2. s \in Sessions
    BY <1>3, <2>1, Giving DEF SigninDone, Signins, Sessions
  <2>3. subject' = [subject EXCEPT ![t] = s]
    BY <1>3 DEF SigninDone
  <2>4. UNCHANGED remember /\ signing' = [signing EXCEPT ![t] = None]
    BY <1>3 DEF SigninDone
  <2>5. completer' \in [Tabs -> {"none", "signin", "refresh"}]
    BY <1>3 DEF SigninDone, GiveUp
  <2> HIDE DEF s
  <2> QED
    BY <2>2, <2>3, <2>4, <2>5 DEF Optional
<1>4. ASSUME NEW t \in Tabs, SigninFails(t)
      PROVE  TabType'
  BY <1>4 DEF SigninFails, GiveUp, Optional
<1>5. ASSUME NEW t \in Tabs, Exchange(t)
      PROVE  TabType'
  BY <1>5 DEF Exchange
<1>6. ASSUME NEW t \in Tabs, RefreshDone(t)
      PROVE  TabType'
  <2> DEFINE s == [k |-> posted[t].new, user |-> posted[t].user]
  <2>1. posted[t] \in Posts /\ posted[t].new # 0
    BY <1>6, Present DEF RefreshDone, PostType
  <2>2. s \in Sessions
    BY <2>1 DEF Posts, Sessions
  <2>3. subject' = [subject EXCEPT ![t] = s] /\ UNCHANGED remember
    BY <1>6 DEF RefreshDone
  <2>4. signing' \in [Tabs -> Optional(Signins)]
    BY <1>6 DEF RefreshDone, Resume, Optional, Signins
  <2>5. completer' \in [Tabs -> {"none", "signin", "refresh"}]
    BY <1>6 DEF RefreshDone, Resume
  <2> HIDE DEF s
  <2> QED
    BY <2>2, <2>3, <2>4, <2>5 DEF Optional
<1>7. ASSUME NEW t \in Tabs, RefreshFails(t)
      PROVE  TabType'
  <2>1. signing' \in [Tabs -> Optional(Signins)]
    BY <1>7 DEF RefreshFails, Resume, Optional, Signins
  <2>2. completer' \in [Tabs -> {"none", "signin", "refresh"}]
    BY <1>7 DEF RefreshFails, Resume
  <2> QED
    BY <1>7, <2>1, <2>2 DEF RefreshFails
<1>8. ASSUME NEW t \in Tabs, NEW u \in Users, NEW rem \in BOOLEAN, Signin(t, u, rem)
      PROVE  TabType'
  <2>1. [st |-> IF completer[t] = "none" THEN "post" ELSE "wait",
         user |-> u, rem |-> rem] \in Signins
    BY DEF Signins
  <2> QED
    BY <1>8, <2>1 DEF Signin, Optional
<1>9. ASSUME NEW t \in Tabs, NEW i \in Slots, Send(t, i) \/ Answered(t, i)
      PROVE  TabType'
  BY <1>9 DEF Send, Answered
<1>10. ASSUME NEW t \in Tabs, NEW i \in Slots, Join(t, i) \/ Changed(t, i)
      PROVE  TabType'
  BY <1>10 DEF Join, Changed
<1>11. ASSUME NEW t \in Tabs, NEW i \in Slots, Adopt(t, i)
      PROVE  TabType'
  BY <1>11 DEF Adopt, StoreType
<1>12. ASSUME NEW t \in Tabs, NEW i \in Slots, Refresh(t, i)
      PROVE  TabType'
  BY <1>12 DEF Refresh, Remembered
<1>13. ASSUME NEW k \in Given, Age(k) \/ Evict(k)
      PROVE  TabType'
  BY <1>13 DEF Age, Evict
<1>14. CASE UNCHANGED vars
  BY <1>14 DEF vars
<1> HIDE DEF TabType
<1> QED
  BY <1>1, <1>2, <1>3, <1>4, <1>5, <1>6, <1>7, <1>8, <1>9, <1>10, <1>11, <1>12, <1>13, <1>14, Steps

\* So do refreshes in progress.
LEMMA StepKeepsPosts == TypeOK /\ [Next]_vars => PostType'
<1> SUFFICES ASSUME TypeOK, [Next]_vars
             PROVE  PostType'
  OBVIOUS
<1> USE ConstantsAssumption, Parts DEF PostType, tabVars, storageVars, serverVars
<1>1. ASSUME NEW t \in Tabs, Open(t)
      PROVE  PostType'
  BY <1>1 DEF Open, Optional
<1>2. ASSUME NEW t \in Tabs, Signout(t)
      PROVE  PostType'
  BY <1>2 DEF Signout
<1>3. ASSUME NEW t \in Tabs, SigninDone(t)
      PROVE  PostType'
  BY <1>3 DEF SigninDone
<1>4. ASSUME NEW t \in Tabs, SigninFails(t)
      PROVE  PostType'
  BY <1>4 DEF SigninFails
<1>5. ASSUME NEW t \in Tabs, Exchange(t)
      PROVE  PostType'
  <2>1. posted[t] \in Posts /\ posted[t].k \in Given
    BY <1>5, Present DEF Exchange, ServerType
  <2>2. owner[posted[t].k] \in Users /\ Give(owner[posted[t].k])
    BY <1>5, <2>1 DEF Exchange, ServerType, Given
  <2>3. Len(owner') \in Tokens
    BY <2>2, Giving
  <2>4. posted' = [posted EXCEPT ![t].new = Len(owner')]
    BY <1>5 DEF Exchange
  <2>5. [posted[t] EXCEPT !.new = Len(owner')] \in Posts
    BY <2>1, <2>3 DEF Posts
  <2> QED
    BY <2>4, <2>5 DEF Optional
<1>6. ASSUME NEW t \in Tabs, RefreshDone(t)
      PROVE  PostType'
  BY <1>6 DEF RefreshDone, Resume, Optional
<1>7. ASSUME NEW t \in Tabs, RefreshFails(t)
      PROVE  PostType'
  BY <1>7 DEF RefreshFails, Resume, Optional
<1>8. ASSUME NEW t \in Tabs, NEW u \in Users, NEW rem \in BOOLEAN, Signin(t, u, rem)
      PROVE  PostType'
  BY <1>8 DEF Signin
<1>9. ASSUME NEW t \in Tabs, NEW i \in Slots, Send(t, i) \/ Answered(t, i)
      PROVE  PostType'
  BY <1>9 DEF Send, Answered
<1>10. ASSUME NEW t \in Tabs, NEW i \in Slots, Join(t, i) \/ Changed(t, i)
      PROVE  PostType'
  BY <1>10 DEF Join, Changed
<1>11. ASSUME NEW t \in Tabs, NEW i \in Slots, Adopt(t, i)
      PROVE  PostType'
  BY <1>11 DEF Adopt
<1>12. ASSUME NEW t \in Tabs, NEW i \in Slots, Refresh(t, i)
      PROVE  PostType'
  <2>1. subject[t] \in Sessions
    <3>1. req[t][i] \in Requests /\ subject[t] = req[t][i].session
      BY <1>12, Present DEF Refresh, Current, Denied, ReqType
    <3> QED
      BY <3>1 DEF Requests
  <2>2. OfOtherTab(subject[t]) => last.k \in Tokens
    BY Present DEF OfOtherTab, Load, StoreType, Sessions
  <2> QED
    BY <1>12, <2>1, <2>2 DEF Refresh, Posts, Optional, Sessions
<1>13. ASSUME NEW k \in Given, Age(k) \/ Evict(k)
      PROVE  PostType'
  BY <1>13 DEF Age, Evict
<1>14. CASE UNCHANGED vars
  BY <1>14 DEF vars
<1> HIDE DEF PostType
<1> QED
  BY <1>1, <1>2, <1>3, <1>4, <1>5, <1>6, <1>7, <1>8, <1>9, <1>10, <1>11, <1>12, <1>13, <1>14, Steps

\* Settling the requests of a tab leaves requests.
LEMMA Settling ==
    ASSUME ReqType, NEW t \in Tabs, NEW c, NEW s \in Optional(Sessions), Settle(t, c, s)
    PROVE  ReqType'
<1>1. ASSUME NEW i \in Slots
      PROVE  (IF ~Waits(req[t][i], c) THEN req[t][i]
              ELSE IF s = None THEN None
              ELSE [req[t][i] EXCEPT !.st = "again", !.as = s]) \in Optional(Requests)
  <2>1. req[t][i] \in Optional(Requests)
    BY DEF ReqType
  <2>2. CASE ~Waits(req[t][i], c) \/ s = None
    BY <2>1, <2>2 DEF Optional
  <2>3. CASE Waits(req[t][i], c) /\ s # None
    <3>1. req[t][i] \in Requests /\ s \in Sessions
      BY <2>1, <2>3, Present DEF Waits
    <3> QED
      BY <2>3, <3>1 DEF Requests, Optional
  <2> QED
    BY <2>2, <2>3
<1> QED
  BY <1>1 DEF ReqType, Settle

\* So does marking one that is in progress, or ending it.
LEMMA Marked ==
    ASSUME ReqType, NEW t \in Tabs, NEW i \in Slots
    PROVE  /\ Throw(t, i) => ReqType'
           /\ \A c \in {"none", "signin", "refresh"} :
                req[t][i] # None /\ Wait(t, i, c) => ReqType'
           /\ \A s \in Sessions : req[t][i] # None /\ Again(t, i, s) => ReqType'
<1>1. Throw(t, i) => ReqType'
  BY DEF Throw, ReqType, Optional
<1>2. ASSUME req[t][i] # None
      PROVE  req[t][i] \in Requests
  BY <1>2, Present DEF ReqType
<1>3. ASSUME NEW c \in {"none", "signin", "refresh"}, req[t][i] # None, Wait(t, i, c)
      PROVE  ReqType'
  <2>1. [req[t][i] EXCEPT !.st = "wait", !.on = c] \in Requests
    BY <1>2, <1>3 DEF Requests
  <2>2. req' = [req EXCEPT ![t][i] = [req[t][i] EXCEPT !.st = "wait", !.on = c]]
    BY <1>3 DEF Wait, ReqType
  <2> QED
    BY <2>1, <2>2 DEF ReqType, Optional
<1>4. ASSUME NEW s \in Sessions, req[t][i] # None, Again(t, i, s)
      PROVE  ReqType'
  <2>1. [req[t][i] EXCEPT !.st = "again", !.as = s] \in Requests
    BY <1>2, <1>4 DEF Requests
  <2>2. req' = [req EXCEPT ![t][i] = [req[t][i] EXCEPT !.st = "again", !.as = s]]
    BY <1>4 DEF Again, ReqType
  <2> QED
    BY <2>1, <2>2 DEF ReqType, Optional
<1> QED
  BY <1>1, <1>3, <1>4

\* So do requests.
LEMMA StepKeepsRequests == TypeOK /\ [Next]_vars => ReqType'
<1> SUFFICES ASSUME TypeOK, [Next]_vars
             PROVE  ReqType'
  OBVIOUS
<1> USE ConstantsAssumption, Parts DEF ReqType, tabVars, storageVars, serverVars
<1>1. ASSUME NEW t \in Tabs, Open(t)
      PROVE  ReqType'
  BY <1>1 DEF Open, Optional
<1>2. ASSUME NEW t \in Tabs, Signout(t)
      PROVE  ReqType'
  BY <1>2 DEF Signout
<1>3. ASSUME NEW t \in Tabs, SigninDone(t)
      PROVE  ReqType'
  <2> DEFINE s == [k |-> Len(owner'), user |-> signing[t].user]
  <2>1. signing[t] \in Signins
    BY <1>3, Present DEF SigninDone, TabType
  <2>2. s \in Sessions
    BY <1>3, <2>1, Giving DEF SigninDone, Signins, Sessions
  <2>3. Settle(t, "signin", s)
    BY <1>3 DEF SigninDone
  <2> HIDE DEF s
  <2> QED
    BY <2>2, <2>3, Settling DEF Optional
<1>4. ASSUME NEW t \in Tabs, SigninFails(t)
      PROVE  ReqType'
  BY <1>4, Settling DEF SigninFails, Optional
<1>5. ASSUME NEW t \in Tabs, Exchange(t)
      PROVE  ReqType'
  BY <1>5 DEF Exchange
<1>6. ASSUME NEW t \in Tabs, RefreshDone(t)
      PROVE  ReqType'
  <2> DEFINE s == [k |-> posted[t].new, user |-> posted[t].user]
  <2>1. posted[t] \in Posts /\ posted[t].new # 0
    BY <1>6, Present DEF RefreshDone, PostType
  <2>2. s \in Sessions
    BY <2>1 DEF Posts, Sessions
  <2>3. Settle(t, "refresh", s)
    BY <1>6 DEF RefreshDone
  <2> HIDE DEF s
  <2> QED
    BY <2>2, <2>3, Settling DEF Optional
<1>7. ASSUME NEW t \in Tabs, RefreshFails(t)
      PROVE  ReqType'
  BY <1>7, Settling DEF RefreshFails, Optional
<1>8. ASSUME NEW t \in Tabs, NEW u \in Users, NEW rem \in BOOLEAN, Signin(t, u, rem)
      PROVE  ReqType'
  BY <1>8 DEF Signin
<1>9. ASSUME NEW t \in Tabs, NEW i \in Slots, Send(t, i) \/ Answered(t, i)
      PROVE  ReqType'
  <2>1. CASE Send(t, i)
    <3>1. subject[t] \in Sessions
      BY <2>1, Present DEF Send, TabType
    <3>2. [st |-> "sent", session |-> subject[t], as |-> subject[t], on |-> "none"] \in Requests
      BY <3>1 DEF Requests
    <3> QED
      BY <2>1, <3>2 DEF Send, Optional
  <2>2. CASE Answered(t, i)
    BY <2>2 DEF Answered, Optional
  <2> QED
    BY <1>9, <2>1, <2>2
<1>10. ASSUME NEW t \in Tabs, NEW i \in Slots, Join(t, i) \/ Changed(t, i)
      PROVE  ReqType'
  <2>1. CASE Join(t, i)
    BY <2>1, Marked DEF Join, Denied, TabType
  <2>2. CASE Changed(t, i)
    <3>1. CASE subject[t] = None
      BY <2>2, <3>1, Marked DEF Changed
    <3>2. CASE subject[t] # None
      BY <2>2, <3>2, Marked, Present DEF Changed, Denied, TabType
    <3> QED
      BY <3>1, <3>2
  <2> QED
    BY <1>10, <2>1, <2>2
<1>11. ASSUME NEW t \in Tabs, NEW i \in Slots, Adopt(t, i)
      PROVE  ReqType'
  <2>1. last \in Sessions
    BY <1>11, Present DEF Adopt, MayAdopt, OfOtherTab, Load, StoreType
  <2> QED
    BY <1>11, <2>1, Marked DEF Adopt, Current, Denied
<1>12. ASSUME NEW t \in Tabs, NEW i \in Slots, Refresh(t, i)
      PROVE  ReqType'
  BY <1>12, Marked DEF Refresh, Current, Denied
<1>13. ASSUME NEW k \in Given, Age(k) \/ Evict(k)
      PROVE  ReqType'
  BY <1>13 DEF Age, Evict
<1>14. CASE UNCHANGED vars
  BY <1>14 DEF vars
<1> HIDE DEF ReqType
<1> QED
  BY <1>1, <1>2, <1>3, <1>4, <1>5, <1>6, <1>7, <1>8, <1>9, <1>10, <1>11, <1>12, <1>13, <1>14, Steps

\* What is stored is a session.
LEMMA StepKeepsStore == TypeOK /\ [Next]_vars => StoreType'
<1> SUFFICES ASSUME TypeOK, [Next]_vars
             PROVE  StoreType'
  OBVIOUS
<1> USE ConstantsAssumption, Parts DEF StoreType, tabVars, storageVars, serverVars
<1>1. ASSUME NEW t \in Tabs, Open(t)
      PROVE  StoreType'
  BY <1>1 DEF Open
<1>2. ASSUME NEW t \in Tabs, Signout(t)
      PROVE  StoreType'
  BY <1>2 DEF Signout, Optional
<1>3. ASSUME NEW t \in Tabs, SigninDone(t)
      PROVE  StoreType'
  <2> DEFINE s == [k |-> Len(owner'), user |-> signing[t].user]
  <2>1. signing[t] \in Signins
    BY <1>3, Present DEF SigninDone, TabType
  <2>2. s \in Sessions
    BY <1>3, <2>1, Giving DEF SigninDone, Signins, Sessions
  <2>3. Save(s, signing[t].rem)
    BY <1>3 DEF SigninDone
  <2> HIDE DEF s
  <2> QED
    BY <2>2, <2>3 DEF Save, Optional
<1>4. ASSUME NEW t \in Tabs, SigninFails(t)
      PROVE  StoreType'
  BY <1>4 DEF SigninFails
<1>5. ASSUME NEW t \in Tabs, Exchange(t)
      PROVE  StoreType'
  BY <1>5 DEF Exchange
<1>6. ASSUME NEW t \in Tabs, RefreshDone(t)
      PROVE  StoreType'
  <2> DEFINE s == [k |-> posted[t].new, user |-> posted[t].user]
  <2>1. posted[t] \in Posts /\ posted[t].new # 0
    BY <1>6, Present DEF RefreshDone, PostType
  <2>2. s \in Sessions
    BY <2>1 DEF Posts, Sessions
  <2>3. Save(s, remember[t])
    BY <1>6 DEF RefreshDone
  <2> HIDE DEF s
  <2> QED
    BY <2>2, <2>3 DEF Save, Optional
<1>7. ASSUME NEW t \in Tabs, RefreshFails(t)
      PROVE  StoreType'
  BY <1>7 DEF RefreshFails
<1>8. ASSUME NEW t \in Tabs, NEW u \in Users, NEW rem \in BOOLEAN, Signin(t, u, rem)
      PROVE  StoreType'
  BY <1>8 DEF Signin
<1>9. ASSUME NEW t \in Tabs, NEW i \in Slots, Send(t, i) \/ Answered(t, i)
      PROVE  StoreType'
  BY <1>9 DEF Send, Answered
<1>10. ASSUME NEW t \in Tabs, NEW i \in Slots, Join(t, i) \/ Changed(t, i)
      PROVE  StoreType'
  BY <1>10 DEF Join, Changed
<1>11. ASSUME NEW t \in Tabs, NEW i \in Slots, Adopt(t, i)
      PROVE  StoreType'
  BY <1>11 DEF Adopt
<1>12. ASSUME NEW t \in Tabs, NEW i \in Slots, Refresh(t, i)
      PROVE  StoreType'
  BY <1>12 DEF Refresh
<1>13. ASSUME NEW k \in Given, Age(k) \/ Evict(k)
      PROVE  StoreType'
  BY <1>13 DEF Age, Evict
<1>14. CASE UNCHANGED vars
  BY <1>14 DEF vars
<1> HIDE DEF StoreType
<1> QED
  BY <1>1, <1>2, <1>3, <1>4, <1>5, <1>6, <1>7, <1>8, <1>9, <1>10, <1>11, <1>12, <1>13, <1>14, Steps

\* So does what the server knows.
LEMMA StepKeepsServer == TypeOK /\ [Next]_vars => ServerType'
<1> SUFFICES ASSUME TypeOK, [Next]_vars
             PROVE  ServerType'
  OBVIOUS
<1> USE ConstantsAssumption, Parts DEF tabVars, storageVars, serverVars
<1>1. ASSUME NEW t \in Tabs, Open(t)
      PROVE  ServerType'
  BY <1>1 DEF Open, ServerType, Given
<1>2. ASSUME NEW t \in Tabs, Signout(t)
      PROVE  ServerType'
  BY <1>2 DEF Signout, ServerType, Given
<1>3. ASSUME NEW t \in Tabs, SigninDone(t)
      PROVE  ServerType'
  <2>1. signing[t].user \in Users /\ Give(signing[t].user)
    <3>1. signing[t] \in Signins
      BY <1>3, Present DEF SigninDone, TabType
    <3> QED
      BY <1>3, <3>1 DEF SigninDone, Signins
  <2>2. alive' = alive \cup {Len(owner')}
    BY <1>3 DEF SigninDone
  <2> QED
    BY <2>1, <2>2, Giving DEF ServerType
<1>4. ASSUME NEW t \in Tabs, SigninFails(t)
      PROVE  ServerType'
  BY <1>4 DEF SigninFails, ServerType, Given
<1>5. ASSUME NEW t \in Tabs, Exchange(t)
      PROVE  ServerType'
  <2>1. posted[t] \in Posts /\ posted[t].k \in Given
    BY <1>5, Present DEF Exchange, ServerType, PostType
  <2>2. owner[posted[t].k] \in Users /\ Give(owner[posted[t].k])
    BY <1>5, <2>1 DEF Exchange, ServerType, Given
  <2>3. alive' = (alive \ {posted[t].k}) \cup {Len(owner')}
    BY <1>5 DEF Exchange
  <2> QED
    BY <2>2, <2>3, Giving DEF ServerType
<1>6. ASSUME NEW t \in Tabs, RefreshDone(t)
      PROVE  ServerType'
  BY <1>6 DEF RefreshDone, ServerType, Given
<1>7. ASSUME NEW t \in Tabs, RefreshFails(t)
      PROVE  ServerType'
  BY <1>7 DEF RefreshFails, ServerType, Given
<1>8. ASSUME NEW t \in Tabs, NEW u \in Users, NEW rem \in BOOLEAN, Signin(t, u, rem)
      PROVE  ServerType'
  BY <1>8 DEF Signin, ServerType, Given
<1>9. ASSUME NEW t \in Tabs, NEW i \in Slots, Send(t, i) \/ Answered(t, i)
      PROVE  ServerType'
  BY <1>9 DEF Send, Answered, ServerType, Given
<1>10. ASSUME NEW t \in Tabs, NEW i \in Slots, Join(t, i) \/ Changed(t, i)
      PROVE  ServerType'
  BY <1>10 DEF Join, Changed, ServerType, Given
<1>11. ASSUME NEW t \in Tabs, NEW i \in Slots, Adopt(t, i)
      PROVE  ServerType'
  BY <1>11 DEF Adopt, ServerType, Given
<1>12. ASSUME NEW t \in Tabs, NEW i \in Slots, Refresh(t, i)
      PROVE  ServerType'
  BY <1>12 DEF Refresh, ServerType, Given
<1>13. ASSUME NEW k \in Given, Age(k) \/ Evict(k)
      PROVE  ServerType'
  BY <1>13 DEF Age, Evict, ServerType, Given
<1>14. CASE UNCHANGED vars
  BY <1>14 DEF vars, ServerType, Given
<1> HIDE DEF ServerType
<1> QED
  BY <1>1, <1>2, <1>3, <1>4, <1>5, <1>6, <1>7, <1>8, <1>9, <1>10, <1>11, <1>12, <1>13, <1>14, Steps

\* Every step keeps the types.
LEMMA StepKeepsTypes == TypeOK /\ [Next]_vars => TypeOK'
<1> SUFFICES ASSUME TypeOK, [Next]_vars
             PROVE  TypeOK'
  OBVIOUS
<1>1. TabType' /\ PostType' /\ ReqType' /\ StoreType' /\ ServerType'
  BY StepKeepsTabs, StepKeepsPosts, StepKeepsRequests, StepKeepsStore, StepKeepsServer
<1> QED
  BY <1>1 DEF TypeOK, TabType, PostType, ReqType, StoreType, ServerType

\* The variables have their types at first.
LEMMA InitTypes == Init => TypeOK
  BY ConstantsAssumption DEF Init, TypeOK, Optional, Given

\* For any tabs, users and requests, every variable has its type.
THEOREM TypeCorrect == Spec => []TypeOK
  BY InitTypes, StepKeepsTypes, PTL DEF Spec
-------------------------------------------------------------------------------
\* A refresh that begins: of token k, in the name of the current user.
Begun(t, k) ==
    /\ k = subject[t].k \/ (OfOtherTab(subject[t]) /\ k = last.k)
    /\ completer' = [completer EXCEPT ![t] = "refresh"]
    /\ posted' = [posted EXCEPT ![t] = [k |-> k, user |-> subject[t].user, new |-> 0]]
    /\ [k |-> k, user |-> subject[t].user, new |-> 0] \in Posts

\* Refresh gives up, or a refresh begins.
LEMMA Refreshing ==
    ASSUME TypeOK, NEW t \in Tabs, NEW i \in Slots, Refresh(t, i)
    PROVE  /\ subject[t] \in Sessions
           /\ UNCHANGED <<completer, posted>> \/ \E k \in Tokens : Begun(t, k)
<1>1. subject[t] \in Sessions
  <2>1. req[t][i] \in Requests /\ subject[t] = req[t][i].session
    BY Parts, Present DEF Refresh, Current, Denied, ReqType
  <2> QED
    BY <2>1 DEF Requests
<1>2. OfOtherTab(subject[t]) => last.k \in Tokens
  BY Parts, Present DEF OfOtherTab, Load, StoreType, Sessions
<1>3. CASE UNCHANGED <<completer, posted>>
  BY <1>1, <1>3
<1>4. ASSUME NEW k \in {subject[t].k} \cup (IF OfOtherTab(subject[t]) THEN {last.k} ELSE {}),
             posted' = [posted EXCEPT ![t] = [k |-> k, user |-> subject[t].user, new |-> 0]],
             completer' = [completer EXCEPT ![t] = "refresh"]
      PROVE  \E l \in Tokens : Begun(t, l)
  <2>1. k \in Tokens
    BY <1>1, <1>2 DEF Sessions
  <2>2. [k |-> k, user |-> subject[t].user, new |-> 0] \in Posts
    BY <1>1, <2>1 DEF Posts, Sessions
  <2> QED
    <3>1. k = subject[t].k \/ (OfOtherTab(subject[t]) /\ k = last.k)
      OBVIOUS
    <3>2. Begun(t, k)
      BY <1>4, <2>2, <3>1 DEF Begun
    <3> QED
      BY <2>1, <3>2
<1> QED
  BY <1>1, <1>3, <1>4 DEF Refresh

\* A refresh whose token the server has exchanged is still in progress.
LEMMA StillPosted ==
    ASSUME TypeOK, NEW t \in Tabs, Exchange(t)
    PROVE  posted'[t] # None /\ \A u \in Tabs \ {t} : posted'[u] = posted[u]
<1> USE ConstantsAssumption, Parts DEF PostType
<1>1. posted[t] \in Posts /\ posted' = [posted EXCEPT ![t].new = Len(owner')]
  BY Present DEF Exchange
<1>2. owner[posted[t].k] \in Users /\ Give(owner[posted[t].k])
  BY DEF Exchange, ServerType, Given
<1>3. Len(owner') \in Tokens
  BY <1>2, Giving
<1>4. [posted[t] EXCEPT !.new = Len(owner')] \in Posts
  BY <1>1, <1>3 DEF Posts
<1> QED
  BY <1>1, <1>4

\* A completer stands for what is in progress.
LEMMA StepKeepsCompleters == TypeOK /\ CompleterInFlight /\ [Next]_vars => CompleterInFlight'
<1> SUFFICES ASSUME TypeOK, CompleterInFlight, [Next]_vars
             PROVE  CompleterInFlight'
  OBVIOUS
<1> USE ConstantsAssumption, Parts DEF CompleterInFlight, Posting, TabType, PostType, tabVars, storageVars, serverVars
<1>1. ASSUME NEW t \in Tabs, Open(t)
      PROVE  CompleterInFlight'
  BY <1>1 DEF Open
<1>2. ASSUME NEW t \in Tabs, Signout(t)
      PROVE  CompleterInFlight'
  BY <1>2 DEF Signout
<1>3. ASSUME NEW t \in Tabs, SigninDone(t)
      PROVE  CompleterInFlight'
  BY <1>3 DEF SigninDone, GiveUp
<1>4. ASSUME NEW t \in Tabs, SigninFails(t)
      PROVE  CompleterInFlight'
  BY <1>4 DEF SigninFails, GiveUp
<1>5. ASSUME NEW t \in Tabs, Exchange(t)
      PROVE  CompleterInFlight'
  BY <1>5, StillPosted DEF Exchange
<1>6. ASSUME NEW t \in Tabs, RefreshDone(t)
      PROVE  CompleterInFlight'
  BY <1>6 DEF RefreshDone, Resume
<1>7. ASSUME NEW t \in Tabs, RefreshFails(t)
      PROVE  CompleterInFlight'
  BY <1>7 DEF RefreshFails, Resume
<1>8. ASSUME NEW t \in Tabs, NEW u \in Users, NEW rem \in BOOLEAN, Signin(t, u, rem)
      PROVE  CompleterInFlight'
  <2>1. [st |-> IF completer[t] = "none" THEN "post" ELSE "wait",
         user |-> u, rem |-> rem] \in Signins
    BY DEF Signins
  <2> QED
    BY <1>8, <2>1 DEF Signin
<1>9. ASSUME NEW t \in Tabs, NEW i \in Slots, Send(t, i) \/ Answered(t, i)
      PROVE  CompleterInFlight'
  BY <1>9 DEF Send, Answered
<1>10. ASSUME NEW t \in Tabs, NEW i \in Slots, Join(t, i) \/ Changed(t, i)
      PROVE  CompleterInFlight'
  BY <1>10 DEF Join, Changed
<1>11. ASSUME NEW t \in Tabs, NEW i \in Slots, Adopt(t, i)
      PROVE  CompleterInFlight'
  BY <1>11 DEF Adopt
<1>12. ASSUME NEW t \in Tabs, NEW i \in Slots, Refresh(t, i)
      PROVE  CompleterInFlight'
  <2>1. CASE UNCHANGED <<completer, posted>>
    BY <1>12, <2>1 DEF Refresh
  <2>2. CASE ~UNCHANGED <<completer, posted>>
    <3>1. PICK k \in Tokens : Begun(t, k)
      BY <1>12, <2>2, Refreshing
    <3>2. completer' = [completer EXCEPT ![t] = "refresh"] /\ posted'[t] # None
          /\ \A u \in Tabs \ {t} : posted'[u] = posted[u]
      BY <3>1 DEF Begun
    <3> QED
      BY <1>12, <3>2 DEF Refresh
  <2> QED
    BY <2>1, <2>2
<1>13. ASSUME NEW k \in Given, Age(k) \/ Evict(k)
      PROVE  CompleterInFlight'
  BY <1>13 DEF Age, Evict
<1>14. CASE UNCHANGED vars
  BY <1>14 DEF vars
<1> HIDE DEF CompleterInFlight
<1> QED
  BY <1>1, <1>2, <1>3, <1>4, <1>5, <1>6, <1>7, <1>8, <1>9, <1>10, <1>11, <1>12, <1>13, <1>14, Steps

\* While a refresh is in progress every caller waits for it, and nobody waits
\* for what is not in progress.
THEOREM CompletersStandForRequests == Spec => []CompleterInFlight
<1>1. Init => CompleterInFlight
  BY DEF Init, CompleterInFlight
<1> QED
  BY InitTypes, StepKeepsTypes, StepKeepsCompleters, <1>1, PTL DEF Spec
\* Only the answer changes a refresh in progress, and only one not yet answered.
LEMMA StepKeepsRefresh ==
    ASSUME TypeOK, CompleterInFlight, [Next]_vars, NEW t \in Tabs, posted[t] # None
    PROVE  \/ posted'[t] \in {None, posted[t]}
           \/ /\ posted[t].new = 0
              /\ posted'[t].k = posted[t].k /\ posted'[t].user = posted[t].user
<1> USE Parts DEF PostType
<1>1. posted[t] \in Posts /\ completer[t] = "refresh"
  BY Present DEF CompleterInFlight
<1>2. CASE UNCHANGED posted
  BY <1>2
<1>3. ASSUME NEW u \in Tabs, Open(u) \/ RefreshDone(u) \/ RefreshFails(u)
      PROVE  posted'[t] \in {None, posted[t]}
  BY <1>3 DEF Open, RefreshDone, RefreshFails, Resume
<1>4. ASSUME NEW u \in Tabs, Exchange(u)
      PROVE  \/ posted'[t] = posted[t]
             \/ /\ posted[t].new = 0
                /\ posted'[t].k = posted[t].k /\ posted'[t].user = posted[t].user
  <2>1. posted' = [posted EXCEPT ![u].new = Len(owner')] /\ posted[u].new = 0
    BY <1>4 DEF Exchange
  <2>2. CASE u = t
    <3>1. posted'[t] = [posted[t] EXCEPT !.new = Len(owner')]
      BY <2>1, <2>2
    <3> QED
      BY <1>1, <2>1, <2>2, <3>1 DEF Posts
  <2>3. CASE u # t
    BY <2>1, <2>3
  <2> QED
    BY <2>2, <2>3
<1>5. ASSUME NEW u \in Tabs, NEW i \in Slots, Refresh(u, i)
      PROVE  posted'[t] = posted[t]
  <2>1. u # t
    BY <1>1, <1>5 DEF Refresh, Current
  <2>2. UNCHANGED posted \/ \E k \in Tokens : Begun(u, k)
    BY <1>5, Refreshing
  <2> QED
    BY <2>1, <2>2 DEF Begun
<1> QED
  BY <1>2, <1>3, <1>4, <1>5, Steps
     DEF Signout, SigninDone, SigninFails, Signin, Send, Answered, Join, Changed, Adopt,
         Age, Evict, vars, tabVars

\* However requests that are refused, sign-ins and answers follow each other, a
\* token is refreshed by one call at a time (session.ts:308-380).
THEOREM OneRefresh == Spec => RefreshesOnce
<1>1. TypeOK /\ CompleterInFlight /\ [Next]_vars =>
        [\A t \in Tabs : posted[t] # None /\ posted'[t] # None =>
           /\ posted'[t].k = posted[t].k /\ posted'[t].user = posted[t].user
           /\ posted[t].new # 0 => posted'[t] = posted[t]]_vars
  BY StepKeepsRefresh
<1> QED
  BY <1>1, TypeCorrect, CompletersStandForRequests, PTL DEF Spec, RefreshesOnce
-------------------------------------------------------------------------------
(***************************************************************************)
(* Waiters.                                                                *)
(***************************************************************************)

\* Settling c leaves nobody waiting for c, and nobody begins to wait.
LEMMA SettlesWaits ==
    ASSUME ReqType, NEW t \in Tabs, NEW c, NEW s, Settle(t, c, s)
    PROVE  \A u \in Tabs, i \in Slots, d \in {"signin", "refresh"} :
             Waits(req'[u][i], d) => Waits(req[u][i], d) /\ (u # t \/ d # c)
<1> SUFFICES ASSUME NEW u \in Tabs, NEW i \in Slots, NEW d \in {"signin", "refresh"},
                    Waits(req'[u][i], d)
             PROVE  Waits(req[u][i], d) /\ (u # t \/ d # c)
  OBVIOUS
<1>1. CASE u # t \/ ~Waits(req[t][i], c)
  <2>1. req'[u][i] = req[u][i]
    BY <1>1 DEF Settle, ReqType
  <2> QED
    BY <1>1, <2>1
<1>2. CASE u = t /\ Waits(req[t][i], c)
  <2>1. req[t][i] \in Requests
    BY <1>2, Present DEF Waits, ReqType
  <2>2. req'[t][i] = IF s = None THEN None ELSE [req[t][i] EXCEPT !.st = "again", !.as = s]
    BY <1>2 DEF Settle, ReqType
  <2> QED
    BY <1>2, <2>1, <2>2 DEF Requests, Waits
<1> QED
  BY <1>1, <1>2

\* Marking a request makes at most this one wait.
LEMMA MarksWaits ==
    ASSUME ReqType, NEW t \in Tabs, NEW i \in Slots, req[t][i] # None,
           NEW u \in Tabs, NEW j \in Slots, NEW d, Waits(req'[u][j], d)
    PROVE  /\ Throw(t, i) => Waits(req[u][j], d)
           /\ \A s : Again(t, i, s) => Waits(req[u][j], d)
           /\ \A c : Wait(t, i, c) => Waits(req[u][j], d) \/ (u = t /\ j = i /\ d = c)
<1>1. req[t][i] \in Requests
  BY Present DEF ReqType
<1>2. CASE u # t \/ j # i
  <2>1. Throw(t, i) \/ (\E c : Wait(t, i, c)) \/ (\E s : Again(t, i, s)) => req'[u][j] = req[u][j]
    BY <1>2 DEF Throw, Wait, Again, ReqType
  <2> QED
    BY <2>1
<1>3. CASE u = t /\ j = i
  <2>1. ~Throw(t, i)
    BY <1>3 DEF Throw, ReqType, Waits
  <2>2. ASSUME NEW s, Again(t, i, s)
        PROVE  FALSE
    <3>1. req'[t][i] = [req[t][i] EXCEPT !.st = "again", !.as = s]
      BY <2>2 DEF Again, ReqType
    <3> QED
      BY <1>1, <1>3, <3>1 DEF Requests, Waits
  <2>3. ASSUME NEW c, Wait(t, i, c)
        PROVE  d = c
    <3>1. req'[t][i] = [req[t][i] EXCEPT !.st = "wait", !.on = c]
      BY <2>3 DEF Wait, ReqType
    <3> QED
      BY <1>1, <1>3, <3>1 DEF Requests, Waits
  <2> QED
    BY <1>3, <2>1, <2>2, <2>3
<1> QED
  BY <1>2, <1>3

\* A sign-in that waited goes on when the refresh ends.
LEMMA Resumed ==
    ASSUME TypeOK, NEW t \in Tabs, Resume(t)
    PROVE  /\ \A u \in Tabs \ {t} : posted'[u] = posted[u] /\ signing'[u] = signing[u]
           /\ (signing[t] # None) = (signing'[t] # None)
           /\ signing'[t] # None => signing'[t].st = "post"
<1> USE Parts, ConstantsAssumption DEF TabType, PostType
<1>1. CASE signing[t] = None
  BY <1>1 DEF Resume
<1>2. CASE signing[t] # None
  <2>1. signing[t] \in Signins
    BY <1>2, Present
  <2>2. [signing[t] EXCEPT !.st = "post"] \in Signins
    BY <2>1 DEF Signins
  <2> QED
    BY <1>2, <2>1, <2>2 DEF Resume, Signins
<1> QED
  BY <1>1, <1>2

\* A refresh that does not give up is in progress.
LEMMA NewlyPosted ==
    ASSUME TypeOK, NEW t \in Tabs, NEW i \in Slots, Refresh(t, i),
           ~(Throw(t, i) /\ UNCHANGED posted)
    PROVE  posted'[t] # None /\ \A u \in Tabs \ {t} : posted'[u] = posted[u]
<1> USE Parts, ConstantsAssumption DEF PostType
<1>1. subject[t] \in Sessions
  BY Refreshing
<1>2. PICK k \in {subject[t].k} \cup (IF OfOtherTab(subject[t]) THEN {last.k} ELSE {}) :
        posted' = [posted EXCEPT ![t] = [k |-> k, user |-> subject[t].user, new |-> 0]]
  BY DEF Refresh
<1>3. k \in Tokens
  <2>1. OfOtherTab(subject[t]) => last.k \in Tokens
    BY Present DEF OfOtherTab, Load, StoreType, Sessions
  <2> QED
    BY <1>1, <1>2, <2>1 DEF Sessions
<1>4. [k |-> k, user |-> subject[t].user, new |-> 0] \in Posts
  BY <1>1, <1>3 DEF Posts, Sessions
<1> QED
  BY <1>2, <1>4

\* A step leaves everybody who waits with somebody to wait for.
LEMMA StepKeepsWaiters ==
    TypeOK /\ CompleterInFlight /\ NobodyWaitsInVain /\ [Next]_vars => NobodyWaitsInVain'
<1> SUFFICES ASSUME TypeOK, CompleterInFlight, NobodyWaitsInVain, [Next]_vars
             PROVE  NobodyWaitsInVain'
  OBVIOUS
<1> USE ConstantsAssumption, Parts DEF NobodyWaitsInVain, Attended, Posting, TabType, PostType,
        tabVars, storageVars, serverVars
<1>1. ASSUME NEW t \in Tabs, Open(t)
      PROVE  NobodyWaitsInVain'
  <2>1. /\ posted'[t] = None /\ signing'[t] = None
        /\ \A u \in Tabs \ {t} : posted'[u] = posted[u] /\ signing'[u] = signing[u]
    BY <1>1 DEF Open
  <2>2. \A u \in Tabs, i \in Slots :
          req'[u][i] = None \/ (u # t /\ req'[u][i] = req[u][i])
    BY <1>1 DEF Open, ReqType
  <2> QED
    BY <2>1, <2>2 DEF Waits
<1>2. ASSUME NEW t \in Tabs, Signout(t)
      PROVE  NobodyWaitsInVain'
  BY <1>2 DEF Signout
<1>3. ASSUME NEW t \in Tabs, SigninDone(t)
      PROVE  NobodyWaitsInVain'
  <2>1. Settle(t, "signin", [k |-> Len(owner'), user |-> signing[t].user])
    BY <1>3 DEF SigninDone
  <2>2. \A u \in Tabs, i \in Slots, d \in {"signin", "refresh"} :
          Waits(req'[u][i], d) => Waits(req[u][i], d) /\ (u # t \/ d # "signin")
    BY <2>1, SettlesWaits
  <2>3. UNCHANGED posted /\ signing' = [signing EXCEPT ![t] = None]
    BY <1>3 DEF SigninDone
  <2> QED
    BY <2>2, <2>3
<1>4. ASSUME NEW t \in Tabs, SigninFails(t)
      PROVE  NobodyWaitsInVain'
  <2>1. Settle(t, "signin", None)
    BY <1>4 DEF SigninFails
  <2>2. \A u \in Tabs, i \in Slots, d \in {"signin", "refresh"} :
          Waits(req'[u][i], d) => Waits(req[u][i], d) /\ (u # t \/ d # "signin")
    BY <2>1, SettlesWaits
  <2>3. UNCHANGED posted /\ signing' = [signing EXCEPT ![t] = None]
    BY <1>4 DEF SigninFails
  <2> QED
    BY <2>2, <2>3
<1>5. ASSUME NEW t \in Tabs, Exchange(t)
      PROVE  NobodyWaitsInVain'
  BY <1>5, StillPosted DEF Exchange
<1>6. ASSUME NEW t \in Tabs, RefreshDone(t)
      PROVE  NobodyWaitsInVain'
  <2>1. Settle(t, "refresh", [k |-> posted[t].new, user |-> posted[t].user])
    BY <1>6 DEF RefreshDone
  <2>2. \A u \in Tabs, i \in Slots, d \in {"signin", "refresh"} :
          Waits(req'[u][i], d) => Waits(req[u][i], d) /\ (u # t \/ d # "refresh")
    BY <2>1, SettlesWaits
  <2>3. Resume(t)
    BY <1>6 DEF RefreshDone
  <2> QED
    BY <2>2, <2>3, Resumed
<1>7. ASSUME NEW t \in Tabs, RefreshFails(t)
      PROVE  NobodyWaitsInVain'
  <2>1. Settle(t, "refresh", None)
    BY <1>7 DEF RefreshFails
  <2>2. \A u \in Tabs, i \in Slots, d \in {"signin", "refresh"} :
          Waits(req'[u][i], d) => Waits(req[u][i], d) /\ (u # t \/ d # "refresh")
    BY <2>1, SettlesWaits
  <2>3. Resume(t)
    BY <1>7 DEF RefreshFails
  <2> QED
    BY <2>2, <2>3, Resumed
<1>8. ASSUME NEW t \in Tabs, NEW u \in Users, NEW rem \in BOOLEAN, Signin(t, u, rem)
      PROVE  NobodyWaitsInVain'
  <2>1. UNCHANGED <<req, posted>> /\ \A v \in Tabs \ {t} : signing'[v] = signing[v]
    BY <1>8 DEF Signin
  <2>2. signing[t] = None
    BY <1>8 DEF Signin
  <2>3. signing'[t] # None /\ signing'[t].st = "wait" => posted[t] # None
    BY <1>8, <2>2 DEF Signin, CompleterInFlight
  <2> QED
    BY <2>1, <2>2, <2>3
<1>9. ASSUME NEW t \in Tabs, NEW i \in Slots, Send(t, i) \/ Answered(t, i)
      PROVE  NobodyWaitsInVain'
  <2>1. UNCHANGED <<signing, posted>>
    BY <1>9 DEF Send, Answered
  <2>2. \A u \in Tabs, j \in Slots :
          \/ req'[u][j] = req[u][j]
          \/ req'[u][j] = None
          \/ req'[u][j].st = "sent"
    BY <1>9 DEF Send, Answered, ReqType
  <2> QED
    BY <2>1, <2>2 DEF Waits
<1>10. ASSUME NEW t \in Tabs, NEW i \in Slots, Join(t, i) \/ Changed(t, i)
      PROVE  NobodyWaitsInVain'
  <2>1. UNCHANGED <<signing, posted>> /\ req[t][i] # None
    BY <1>10 DEF Join, Changed, Denied
  <2>2. CASE Join(t, i)
    <3>1. Wait(t, i, completer[t]) /\ completer[t] # "none"
      BY <2>2 DEF Join
    <3>2. \A u \in Tabs, j \in Slots, d \in {"signin", "refresh"} :
            Waits(req'[u][j], d) => Waits(req[u][j], d) \/ (u = t /\ d = completer[t])
      BY <2>1, <3>1, MarksWaits
    <3> QED
      BY <2>1, <3>1, <3>2 DEF CompleterInFlight
  <2>3. CASE Changed(t, i)
    <3>1. \A u \in Tabs, j \in Slots, d \in {"signin", "refresh"} :
            Waits(req'[u][j], d) => Waits(req[u][j], d)
      BY <2>1, <2>3, MarksWaits DEF Changed
    <3> QED
      BY <2>1, <3>1
  <2> QED
    BY <1>10, <2>2, <2>3
<1>11. ASSUME NEW t \in Tabs, NEW i \in Slots, Adopt(t, i)
      PROVE  NobodyWaitsInVain'
  <2>1. UNCHANGED <<signing, posted>> /\ req[t][i] # None /\ Again(t, i, last)
    BY <1>11 DEF Adopt, Current, Denied
  <2>2. \A u \in Tabs, j \in Slots, d \in {"signin", "refresh"} :
          Waits(req'[u][j], d) => Waits(req[u][j], d)
    BY <2>1, MarksWaits
  <2> QED
    BY <2>1, <2>2
<1>12. ASSUME NEW t \in Tabs, NEW i \in Slots, Refresh(t, i)
      PROVE  NobodyWaitsInVain'
  <2>1. UNCHANGED signing /\ req[t][i] # None
    BY <1>12 DEF Refresh, Current, Denied
  <2>2. (Throw(t, i) /\ UNCHANGED posted) \/ Wait(t, i, "refresh")
    BY <1>12 DEF Refresh
  <2>3. CASE Throw(t, i) /\ UNCHANGED posted
    <3>1. \A u \in Tabs, j \in Slots, d \in {"signin", "refresh"} :
            Waits(req'[u][j], d) => Waits(req[u][j], d)
      BY <2>1, <2>3, MarksWaits
    <3> QED
      BY <2>1, <2>3, <3>1
  <2>4. CASE Wait(t, i, "refresh") /\ ~(Throw(t, i) /\ UNCHANGED posted)
    <3>1. \A u \in Tabs, j \in Slots, d \in {"signin", "refresh"} :
            Waits(req'[u][j], d) => Waits(req[u][j], d) \/ (u = t /\ d = "refresh")
      BY <2>1, <2>4, MarksWaits
    <3>2. posted'[t] # None /\ \A u \in Tabs \ {t} : posted'[u] = posted[u]
      BY <1>12, <2>4, NewlyPosted
    <3> QED
      BY <2>1, <3>1, <3>2
  <2> QED
    BY <2>2, <2>3, <2>4
<1>13. ASSUME NEW k \in Given, Age(k) \/ Evict(k)
      PROVE  NobodyWaitsInVain'
  BY <1>13 DEF Age, Evict
<1>14. CASE UNCHANGED vars
  BY <1>14 DEF vars
<1> HIDE DEF NobodyWaitsInVain
<1> QED
  BY <1>1, <1>2, <1>3, <1>4, <1>5, <1>6, <1>7, <1>8, <1>9, <1>10, <1>11, <1>12, <1>13, <1>14, Steps

\* For any tabs, users and requests, whoever waits, waits for a call that is
\* in progress.
THEOREM NobodyIsForgotten == Spec => []NobodyWaitsInVain
<1>1. Init => NobodyWaitsInVain
  <2> SUFFICES ASSUME Init, NEW t \in Tabs
               PROVE  Attended(t)
    BY DEF NobodyWaitsInVain
  <2>1. signing[t] = None /\ \A i \in Slots : req[t][i] = None
    BY DEF Init
  <2> QED
    BY <2>1 DEF Attended, Waits
<1>2. Init => CompleterInFlight
  BY DEF Init, CompleterInFlight
<1> QED
  BY InitTypes, StepKeepsTypes, StepKeepsCompleters, StepKeepsWaiters, <1>1, <1>2, PTL DEF Spec
-------------------------------------------------------------------------------
(***************************************************************************)
(* Sessions and their owners.                                              *)
(***************************************************************************)

Known(k, u) == k \in Given /\ owner[k] = u

TabsKnown == \A t \in Tabs : subject[t] # None => Known(subject[t].k, subject[t].user)

StoreKnown ==
    /\ key # None => Known(key.k, key.user)
    /\ last # None => Known(last.k, last.user)

RequestsKnown ==
    \A t \in Tabs, i \in Slots :
      req[t][i] # None => Known(req[t][i].as.k, req[t][i].as.user)

PostsKnown ==
    \A t \in Tabs : posted[t] # None =>
      /\ Known(posted[t].k, posted[t].user)
      /\ posted[t].new # 0 => Known(posted[t].new, posted[t].user)

KnownInv == TabsKnown /\ StoreKnown /\ RequestsKnown /\ PostsKnown

\* What is known stays known: the server gives a token once.
LEMMA KnownStays ==
    ASSUME TypeOK, [Next]_vars, NEW k, NEW u, Known(k, u)
    PROVE  Known(k, u)'
<1>1. CASE UNCHANGED owner
  BY <1>1 DEF Known, Given
<1>2. ASSUME NEW u1 \in Users, Give(u1)
      PROVE  Known(k, u)'
  BY <1>2, Giving, Parts DEF Known
<1>3. ASSUME NEW t \in Tabs, SigninDone(t)
      PROVE  Known(k, u)'
  <2>1. signing[t] \in Signins
    BY <1>3, Parts, Present DEF SigninDone, TabType
  <2> QED
    BY <1>2, <1>3, <2>1 DEF SigninDone, Signins
<1>4. ASSUME NEW t \in Tabs, Exchange(t)
      PROVE  Known(k, u)'
  <2>1. owner[posted[t].k] \in Users
    BY <1>4, Parts DEF Exchange, ServerType, Given
  <2> QED
    BY <1>2, <1>4, <2>1 DEF Exchange
<1>5. ASSUME NEW t \in Tabs,
             \/ Open(t) \/ Signout(t) \/ SigninFails(t) \/ RefreshDone(t) \/ RefreshFails(t)
             \/ \E v \in Users, rem \in BOOLEAN : Signin(t, v, rem)
             \/ \E i \in Slots : \/ Send(t, i) \/ Answered(t, i) \/ Join(t, i)
                                 \/ Changed(t, i) \/ Adopt(t, i) \/ Refresh(t, i)
      PROVE  UNCHANGED owner
  BY <1>5 DEF Open, Signout, SigninFails, RefreshDone, RefreshFails, Signin, Send, Answered,
              Join, Changed, Adopt, Refresh, serverVars
<1>6. ASSUME NEW l \in Given, Age(l) \/ Evict(l)
      PROVE  UNCHANGED owner
  BY <1>6 DEF Age, Evict
<1>7. UNCHANGED vars => UNCHANGED owner
  BY DEF vars, serverVars
<1> QED
  BY <1>1, <1>3, <1>4, <1>5, <1>6, <1>7, Steps

\* The token of a sign-in is known as its user's; so is that of an exchange.
LEMMA SigninKnown ==
    ASSUME TypeOK, NEW t \in Tabs, SigninDone(t)
    PROVE  Len(owner') \in Given' /\ owner'[Len(owner')] = signing[t].user
<1>1. signing[t] \in Signins
  BY Parts, Present DEF SigninDone, TabType
<1>2. signing[t].user \in Users /\ Give(signing[t].user)
  BY <1>1 DEF SigninDone, Signins
<1> QED
  BY <1>2, Giving, Parts

LEMMA ExchangeKnown ==
    ASSUME TypeOK, PostsKnown, NEW t \in Tabs, Exchange(t)
    PROVE  /\ Len(owner') \in Given' /\ owner'[Len(owner')] = posted[t].user
           /\ posted'[t].k = posted[t].k /\ posted'[t].user = posted[t].user
           /\ posted'[t].new = Len(owner')
<1>1. posted[t] \in Posts /\ posted[t].k \in Given /\ owner[posted[t].k] = posted[t].user
  BY Parts, Present DEF Exchange, PostType, PostsKnown, Known
<1>2. posted[t].user \in Users /\ Give(posted[t].user)
  BY <1>1 DEF Exchange, Posts
<1>3. posted' = [posted EXCEPT ![t].new = Len(owner')]
  BY DEF Exchange
<1>4. Len(owner') \in Given' /\ owner'[Len(owner')] = posted[t].user
  BY <1>2, Giving, Parts
<1>5. posted'[t] = [posted[t] EXCEPT !.new = Len(owner')]
  BY <1>3, Parts DEF PostType
<1> QED
  BY <1>1, <1>4, <1>5 DEF Posts

\* Tabs hold known sessions.
LEMMA StepKeepsTabsKnown == TypeOK /\ KnownInv /\ [Next]_vars => TabsKnown'
<1> SUFFICES ASSUME TypeOK, KnownInv, [Next]_vars
             PROVE  TabsKnown'
  OBVIOUS
<1> USE ConstantsAssumption, KnownStays, Parts DEF KnownInv, TabsKnown, TabType, tabVars, storageVars, serverVars
<1>1. ASSUME NEW t \in Tabs, Open(t)
      PROVE  TabsKnown'
  BY <1>1 DEF Open, Load, StoreKnown
<1>2. ASSUME NEW t \in Tabs, Signout(t)
      PROVE  TabsKnown'
  BY <1>2 DEF Signout
<1>3. ASSUME NEW t \in Tabs, SigninDone(t)
      PROVE  TabsKnown'
  <2> DEFINE s == [k |-> Len(owner'), user |-> signing[t].user]
  <2>1. subject' = [subject EXCEPT ![t] = s]
    BY <1>3 DEF SigninDone
  <2>2. Len(owner') \in Given' /\ owner'[Len(owner')] = signing[t].user
    BY <1>3, SigninKnown
  <2> QED
    BY <2>1, <2>2 DEF Known
<1>4. ASSUME NEW t \in Tabs, SigninFails(t)
      PROVE  TabsKnown'
  BY <1>4 DEF SigninFails
<1>5. ASSUME NEW t \in Tabs, Exchange(t)
      PROVE  TabsKnown'
  BY <1>5 DEF Exchange
<1>6. ASSUME NEW t \in Tabs, RefreshDone(t)
      PROVE  TabsKnown'
  <2>1. Known(posted[t].new, posted[t].user)
    BY <1>6 DEF PostsKnown, RefreshDone
  <2>2. subject' = [subject EXCEPT ![t] = [k |-> posted[t].new, user |-> posted[t].user]]
    BY <1>6 DEF RefreshDone
  <2> QED
    BY <2>1, <2>2
<1>7. ASSUME NEW t \in Tabs, RefreshFails(t)
      PROVE  TabsKnown'
  BY <1>7 DEF RefreshFails
<1>8. ASSUME NEW t \in Tabs, NEW u \in Users, NEW rem \in BOOLEAN, Signin(t, u, rem)
      PROVE  TabsKnown'
  BY <1>8 DEF Signin
<1>9. ASSUME NEW t \in Tabs, NEW i \in Slots, Send(t, i) \/ Answered(t, i)
      PROVE  TabsKnown'
  BY <1>9 DEF Send, Answered
<1>10. ASSUME NEW t \in Tabs, NEW i \in Slots, Join(t, i) \/ Changed(t, i)
      PROVE  TabsKnown'
  BY <1>10 DEF Join, Changed
<1>11. ASSUME NEW t \in Tabs, NEW i \in Slots, Adopt(t, i)
      PROVE  TabsKnown'
  BY <1>11 DEF Adopt, MayAdopt, OfOtherTab, Load, StoreKnown
<1>12. ASSUME NEW t \in Tabs, NEW i \in Slots, Refresh(t, i)
      PROVE  TabsKnown'
  BY <1>12 DEF Refresh
<1>13. ASSUME NEW k \in Given, Age(k) \/ Evict(k)
      PROVE  TabsKnown'
  BY <1>13 DEF Age, Evict
<1>14. CASE UNCHANGED vars
  BY <1>14 DEF vars
<1> HIDE DEF TabsKnown
<1> QED
  BY <1>1, <1>2, <1>3, <1>4, <1>5, <1>6, <1>7, <1>8, <1>9, <1>10, <1>11, <1>12, <1>13, <1>14, Steps

\* So does the storage.
LEMMA StepKeepsStoreKnown == TypeOK /\ KnownInv /\ [Next]_vars => StoreKnown'
<1> SUFFICES ASSUME TypeOK, KnownInv, [Next]_vars
             PROVE  StoreKnown'
  OBVIOUS
<1> USE ConstantsAssumption, KnownStays, Parts DEF KnownInv, StoreKnown, tabVars, storageVars, serverVars
<1>1. ASSUME NEW t \in Tabs, Open(t)
      PROVE  StoreKnown'
  BY <1>1 DEF Open
<1>2. ASSUME NEW t \in Tabs, Signout(t)
      PROVE  StoreKnown'
  BY <1>2 DEF Signout
<1>3. ASSUME NEW t \in Tabs, SigninDone(t)
      PROVE  StoreKnown'
  <2> DEFINE s == [k |-> Len(owner'), user |-> signing[t].user]
  <2>1. Save(s, signing[t].rem)
    BY <1>3 DEF SigninDone
  <2>2. Len(owner') \in Given' /\ owner'[Len(owner')] = signing[t].user
    BY <1>3, SigninKnown
  <2>3. last' = s /\ (key' = s \/ key' = key)
    BY <2>1 DEF Save
  <2> QED
    BY <2>2, <2>3 DEF Known
<1>4. ASSUME NEW t \in Tabs, SigninFails(t)
      PROVE  StoreKnown'
  BY <1>4 DEF SigninFails
<1>5. ASSUME NEW t \in Tabs, Exchange(t)
      PROVE  StoreKnown'
  BY <1>5 DEF Exchange
<1>6. ASSUME NEW t \in Tabs, RefreshDone(t)
      PROVE  StoreKnown'
  <2>1. Known(posted[t].new, posted[t].user)
    BY <1>6 DEF PostsKnown, RefreshDone
  <2>2. Save([k |-> posted[t].new, user |-> posted[t].user], remember[t])
    BY <1>6 DEF RefreshDone
  <2> QED
    BY <2>1, <2>2 DEF Save
<1>7. ASSUME NEW t \in Tabs, RefreshFails(t)
      PROVE  StoreKnown'
  BY <1>7 DEF RefreshFails
<1>8. ASSUME NEW t \in Tabs, NEW u \in Users, NEW rem \in BOOLEAN, Signin(t, u, rem)
      PROVE  StoreKnown'
  BY <1>8 DEF Signin
<1>9. ASSUME NEW t \in Tabs, NEW i \in Slots, Send(t, i) \/ Answered(t, i)
      PROVE  StoreKnown'
  BY <1>9 DEF Send, Answered
<1>10. ASSUME NEW t \in Tabs, NEW i \in Slots, Join(t, i) \/ Changed(t, i)
      PROVE  StoreKnown'
  BY <1>10 DEF Join, Changed
<1>11. ASSUME NEW t \in Tabs, NEW i \in Slots, Adopt(t, i)
      PROVE  StoreKnown'
  BY <1>11 DEF Adopt
<1>12. ASSUME NEW t \in Tabs, NEW i \in Slots, Refresh(t, i)
      PROVE  StoreKnown'
  BY <1>12 DEF Refresh
<1>13. ASSUME NEW k \in Given, Age(k) \/ Evict(k)
      PROVE  StoreKnown'
  BY <1>13 DEF Age, Evict
<1>14. CASE UNCHANGED vars
  BY <1>14 DEF vars
<1> HIDE DEF StoreKnown
<1> QED
  BY <1>1, <1>2, <1>3, <1>4, <1>5, <1>6, <1>7, <1>8, <1>9, <1>10, <1>11, <1>12, <1>13, <1>14, Steps

\* Settling sends requests again with a session that is known.
LEMMA SettlesKnown ==
    ASSUME ReqType, RequestsKnown, NEW t \in Tabs, NEW c, NEW s, Settle(t, c, s)
    PROVE  \A u \in Tabs, i \in Slots : req'[u][i] # None =>
             \/ req[u][i] # None /\ req'[u][i].as = req[u][i].as
             \/ s # None /\ req'[u][i].as = s
<1> SUFFICES ASSUME NEW u \in Tabs, NEW i \in Slots, req'[u][i] # None
             PROVE  \/ req[u][i] # None /\ req'[u][i].as = req[u][i].as
                    \/ s # None /\ req'[u][i].as = s
  OBVIOUS
<1>1. CASE u # t \/ ~Waits(req[t][i], c)
  <2>1. req'[u][i] = req[u][i]
    BY <1>1 DEF Settle, ReqType
  <2> QED
    BY <2>1
<1>2. CASE u = t /\ Waits(req[t][i], c)
  <2>1. req[t][i] \in Requests
    BY <1>2, Present DEF Waits, ReqType
  <2>2. req'[t][i] = IF s = None THEN None ELSE [req[t][i] EXCEPT !.st = "again", !.as = s]
    BY <1>2 DEF Settle, ReqType
  <2>3. s # None /\ req'[t][i].as = s
    BY <1>2, <2>1, <2>2 DEF Requests
  <2> QED
    BY <1>2, <2>3
<1> QED
  BY <1>1, <1>2

\* So does marking; waiting does not change the session.
LEMMA MarksKnown ==
    ASSUME ReqType, NEW t \in Tabs, NEW i \in Slots
    PROVE  \A u \in Tabs, j \in Slots :
             /\ Throw(t, i) /\ req'[u][j] # None => req'[u][j] = req[u][j]
             /\ \A c : req[t][i] # None /\ Wait(t, i, c) /\ req'[u][j] # None =>
                         req[u][j] # None /\ req'[u][j].as = req[u][j].as
             /\ \A s : req[t][i] # None /\ Again(t, i, s) /\ req'[u][j] # None =>
                         \/ req[u][j] # None /\ req'[u][j].as = req[u][j].as
                         \/ req'[u][j].as = s
<1> SUFFICES ASSUME NEW u \in Tabs, NEW j \in Slots, req'[u][j] # None
             PROVE  /\ Throw(t, i) => req'[u][j] = req[u][j]
                    /\ \A c : req[t][i] # None /\ Wait(t, i, c) =>
                                req[u][j] # None /\ req'[u][j].as = req[u][j].as
                    /\ \A s : req[t][i] # None /\ Again(t, i, s) =>
                                \/ req[u][j] # None /\ req'[u][j].as = req[u][j].as
                                \/ req'[u][j].as = s
  OBVIOUS
<1>1. ASSUME req[t][i] # None
      PROVE  req[t][i] \in Requests
  BY <1>1, Present DEF ReqType
<1>2. CASE u # t \/ j # i
  <2>1. Throw(t, i) \/ (\E c : Wait(t, i, c)) \/ (\E s : Again(t, i, s)) => req'[u][j] = req[u][j]
    BY <1>2 DEF Throw, Wait, Again, ReqType
  <2> QED
    BY <2>1
<1>3. CASE u = t /\ j = i
  <2>1. ~Throw(t, i)
    BY <1>3 DEF Throw, ReqType
  <2>2. ASSUME NEW c, req[t][i] # None, Wait(t, i, c)
        PROVE  req'[t][i].as = req[t][i].as
    <3>1. req'[t][i] = [req[t][i] EXCEPT !.st = "wait", !.on = c]
      BY <2>2 DEF Wait, ReqType
    <3> QED
      BY <1>1, <2>2, <3>1 DEF Requests
  <2>3. ASSUME NEW s, req[t][i] # None, Again(t, i, s)
        PROVE  req'[t][i].as = s
    <3>1. req'[t][i] = [req[t][i] EXCEPT !.st = "again", !.as = s]
      BY <2>3 DEF Again, ReqType
    <3> QED
      BY <1>1, <2>3, <3>1 DEF Requests
  <2> QED
    BY <1>3, <2>1, <2>2, <2>3
<1> QED
  BY <1>2, <1>3

\* Requests are sent with known sessions.
LEMMA StepKeepsRequestsKnown == TypeOK /\ KnownInv /\ [Next]_vars => RequestsKnown'
<1> SUFFICES ASSUME TypeOK, KnownInv, [Next]_vars
             PROVE  RequestsKnown'
  OBVIOUS
<1> USE ConstantsAssumption, KnownStays, Parts DEF KnownInv, RequestsKnown, tabVars, storageVars, serverVars
<1>1. ASSUME NEW t \in Tabs, Open(t)
      PROVE  RequestsKnown'
  BY <1>1 DEF Open, ReqType
<1>2. ASSUME NEW t \in Tabs, Signout(t)
      PROVE  RequestsKnown'
  BY <1>2 DEF Signout
<1>3. ASSUME NEW t \in Tabs, SigninDone(t)
      PROVE  RequestsKnown'
  <2> DEFINE s == [k |-> Len(owner'), user |-> signing[t].user]
  <2>1. Settle(t, "signin", s)
    BY <1>3 DEF SigninDone
  <2>2. Len(owner') \in Given' /\ owner'[Len(owner')] = signing[t].user
    BY <1>3, SigninKnown
  <2>3. \A u \in Tabs, i \in Slots : req'[u][i] # None =>
          (req[u][i] # None /\ req'[u][i].as = req[u][i].as) \/ req'[u][i].as = s
    <3> HIDE DEF s, RequestsKnown
    <3> QED
      BY <2>1, SettlesKnown
  <2>4. s.k = Len(owner') /\ s.user = signing[t].user
    OBVIOUS
  <2>5. \A k, u : k = Len(owner') /\ u = signing[t].user => Known(k, u)'
    BY <2>2 DEF Known
  <2> HIDE DEF s
  <2> QED
    BY <2>3, <2>4, <2>5
<1>4. ASSUME NEW t \in Tabs, SigninFails(t)
      PROVE  RequestsKnown'
  BY <1>4, SettlesKnown DEF SigninFails
<1>5. ASSUME NEW t \in Tabs, Exchange(t)
      PROVE  RequestsKnown'
  BY <1>5 DEF Exchange
<1>6. ASSUME NEW t \in Tabs, RefreshDone(t)
      PROVE  RequestsKnown'
  <2> DEFINE s == [k |-> posted[t].new, user |-> posted[t].user]
  <2>1. Known(s.k, s.user)
    BY <1>6 DEF PostsKnown, RefreshDone
  <2>2. Settle(t, "refresh", s)
    BY <1>6 DEF RefreshDone
  <2> HIDE DEF s
  <2> QED
    BY <2>1, <2>2, SettlesKnown
<1>7. ASSUME NEW t \in Tabs, RefreshFails(t)
      PROVE  RequestsKnown'
  BY <1>7, SettlesKnown DEF RefreshFails
<1>8. ASSUME NEW t \in Tabs, NEW u \in Users, NEW rem \in BOOLEAN, Signin(t, u, rem)
      PROVE  RequestsKnown'
  BY <1>8 DEF Signin
<1>9. ASSUME NEW t \in Tabs, NEW i \in Slots, Send(t, i) \/ Answered(t, i)
      PROVE  RequestsKnown'
  <2>1. CASE Send(t, i)
    BY <2>1 DEF Send, ReqType, TabsKnown
  <2>2. CASE Answered(t, i)
    BY <2>2 DEF Answered, ReqType
  <2> QED
    BY <1>9, <2>1, <2>2
<1>10. ASSUME NEW t \in Tabs, NEW i \in Slots, Join(t, i) \/ Changed(t, i)
      PROVE  RequestsKnown'
  <2>1. CASE Join(t, i)
    BY <2>1, MarksKnown DEF Join, Denied
  <2>2. CASE Changed(t, i)
    BY <2>2, MarksKnown DEF Changed, Denied, TabsKnown
  <2> QED
    BY <1>10, <2>1, <2>2
<1>11. ASSUME NEW t \in Tabs, NEW i \in Slots, Adopt(t, i)
      PROVE  RequestsKnown'
  <2>1. Known(last.k, last.user) /\ Again(t, i, last) /\ req[t][i] # None
    BY <1>11 DEF Adopt, MayAdopt, OfOtherTab, Load, StoreKnown, Current, Denied
  <2> QED
    BY <2>1, MarksKnown
<1>12. ASSUME NEW t \in Tabs, NEW i \in Slots, Refresh(t, i)
      PROVE  RequestsKnown'
  <2>1. req[t][i] # None /\ (Throw(t, i) \/ Wait(t, i, "refresh"))
    BY <1>12 DEF Refresh, Current, Denied
  <2> QED
    BY <2>1, MarksKnown
<1>13. ASSUME NEW k \in Given, Age(k) \/ Evict(k)
      PROVE  RequestsKnown'
  BY <1>13 DEF Age, Evict
<1>14. CASE UNCHANGED vars
  BY <1>14 DEF vars
<1> HIDE DEF RequestsKnown
<1> QED
  BY <1>1, <1>2, <1>3, <1>4, <1>5, <1>6, <1>7, <1>8, <1>9, <1>10, <1>11, <1>12, <1>13, <1>14, Steps

\* A refresh in progress is of a token of its user, and gets one of its user.
LEMMA StepKeepsPostsKnown == TypeOK /\ KnownInv /\ [Next]_vars => PostsKnown'
<1> SUFFICES ASSUME TypeOK, KnownInv, [Next]_vars
             PROVE  PostsKnown'
  OBVIOUS
<1> USE ConstantsAssumption, KnownStays, Parts DEF KnownInv, PostType, tabVars, storageVars, serverVars
<1>1. ASSUME NEW t \in Tabs, Open(t)
      PROVE  PostsKnown'
  BY <1>1 DEF Open, PostsKnown
<1>2. ASSUME NEW t \in Tabs, Signout(t)
      PROVE  PostsKnown'
  BY <1>2 DEF Signout, PostsKnown
<1>3. ASSUME NEW t \in Tabs, SigninDone(t)
      PROVE  PostsKnown'
  BY <1>3 DEF SigninDone, PostsKnown
<1>4. ASSUME NEW t \in Tabs, SigninFails(t)
      PROVE  PostsKnown'
  BY <1>4 DEF SigninFails, PostsKnown
<1>5. ASSUME NEW t \in Tabs, Exchange(t)
      PROVE  PostsKnown'
  <2>1. \A u \in Tabs \ {t} : posted'[u] = posted[u]
    BY <1>5 DEF Exchange
  <2>2. Known(posted[t].k, posted[t].user)
    BY <1>5 DEF Exchange, PostsKnown
  <2>3. Known(posted[t].k, posted[t].user)'
    <3>1. posted'[t].k = posted[t].k /\ posted'[t].user = posted[t].user
      BY <1>5, ExchangeKnown
    <3> QED
      BY <2>2, <3>1 DEF Known
  <2>4. Known(posted[t].new, posted[t].user)'
    BY <1>5, ExchangeKnown DEF Known
  <2> QED
    BY <2>1, <2>3, <2>4 DEF PostsKnown
<1>6. ASSUME NEW t \in Tabs, RefreshDone(t)
      PROVE  PostsKnown'
  BY <1>6 DEF RefreshDone, Resume, PostsKnown
<1>7. ASSUME NEW t \in Tabs, RefreshFails(t)
      PROVE  PostsKnown'
  BY <1>7 DEF RefreshFails, Resume, PostsKnown
<1>8. ASSUME NEW t \in Tabs, NEW u \in Users, NEW rem \in BOOLEAN, Signin(t, u, rem)
      PROVE  PostsKnown'
  BY <1>8 DEF Signin, PostsKnown
<1>9. ASSUME NEW t \in Tabs, NEW i \in Slots, Send(t, i) \/ Answered(t, i)
      PROVE  PostsKnown'
  BY <1>9 DEF Send, Answered, PostsKnown
<1>10. ASSUME NEW t \in Tabs, NEW i \in Slots, Join(t, i) \/ Changed(t, i)
      PROVE  PostsKnown'
  BY <1>10 DEF Join, Changed, PostsKnown
<1>11. ASSUME NEW t \in Tabs, NEW i \in Slots, Adopt(t, i)
      PROVE  PostsKnown'
  BY <1>11 DEF Adopt, PostsKnown
<1>12. ASSUME NEW t \in Tabs, NEW i \in Slots, Refresh(t, i)
      PROVE  PostsKnown'
  <2>1. CASE UNCHANGED <<completer, posted>>
    BY <1>12, <2>1 DEF Refresh, PostsKnown
  <2>2. ASSUME NEW k \in Tokens, Begun(t, k)
        PROVE  PostsKnown'
    <3>1. Known(subject[t].k, subject[t].user)
      BY <1>12, Refreshing, ConstantsAssumption DEF KnownInv, TabsKnown
    <3>2. OfOtherTab(subject[t]) => Known(last.k, subject[t].user)
      BY DEF OfOtherTab, Load, KnownInv, StoreKnown
    <3>3. Known(k, subject[t].user)
      BY <2>2, <3>1, <3>2 DEF Begun
    <3> QED
      BY <1>12, <2>2, <3>3 DEF Begun, PostsKnown
  <2> QED
    BY <1>12, <2>1, <2>2, Refreshing
<1>13. ASSUME NEW k \in Given, Age(k) \/ Evict(k)
      PROVE  PostsKnown'
  BY <1>13 DEF Age, Evict, PostsKnown
<1>14. CASE UNCHANGED vars
  BY <1>14 DEF vars, PostsKnown
<1> HIDE DEF PostsKnown
<1> QED
  BY <1>1, <1>2, <1>3, <1>4, <1>5, <1>6, <1>7, <1>8, <1>9, <1>10, <1>11, <1>12, <1>13, <1>14, Steps
-------------------------------------------------------------------------------
\* However tabs sign in, refresh, take over and store sessions, each session
\* shows the user whom the server knows by its token.
THEOREM TokensAreTheirUsers == Spec => []TokenOfUser
<1>1. Init => KnownInv
  BY DEF Init, KnownInv, TabsKnown, StoreKnown, RequestsKnown, PostsKnown
<1>2. TypeOK /\ KnownInv /\ [Next]_vars => KnownInv'
  BY StepKeepsTabsKnown, StepKeepsStoreKnown, StepKeepsRequestsKnown, StepKeepsPostsKnown
     DEF KnownInv
<1>3. KnownInv => TokenOfUser
  BY DEF KnownInv, TabsKnown, StoreKnown, RequestsKnown, Known, TokenOfUser, Held
<1> QED
  BY InitTypes, StepKeepsTypes, <1>1, <1>2, <1>3, PTL DEF Spec
===============================================================================
