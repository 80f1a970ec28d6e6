----------------------------- MODULE Server_proofs -----------------------------
(***************************************************************************)
(* Proofs about the server: the accounts and their sessions (Accounts), the *)
(* conditional GET of the list of users (UserFind), the listener between the *)
(* gateway and the services (PipeListener), and the cache everything logs  *)
(* through (LoggerCache).                                                  *)
(***************************************************************************)
EXTENDS Accounts, UserFind, PipeListener, LoggerCache, SequenceTheorems, TLAPS
-------------------------------------------------------------------------------
(***************************************************************************)
(* Accounts, for any number of users, sessions and requests.               *)
(***************************************************************************)
\* What was copied from a row at version v agrees with the row as long as the
\* row has that version, and the row does not go away.
CopyOf(u, pw, r, v) ==
    /\ users[u] # None
    /\ v <= users[u].ver
    /\ v = users[u].ver => pw = users[u].pwd /\ r = users[u].root

SessionCopies ==
    \A t \in Tokens : tokens[t] # None =>
      CopyOf(tokens[t].user, tokens[t].pwd, tokens[t].root, tokens[t].ver)

SigninCopies ==
    \A h \in Handlers : call[h].op = "put" =>
      CopyOf(call[h].user, call[h].pwd, call[h].root, call[h].ver)

\* The three windows, by versions.
OldOnesExcused ==
    \A t \in Tokens :
      tokens[t] # None /\ tokens[t].ver < users[tokens[t].user].ver => Excused(tokens[t])

IInv == TypeOK /\ SessionCopies /\ SigninCopies /\ OldOnesExcused
-------------------------------------------------------------------------------
\* What a request in progress carries, by its kind.
LEMMA CallFields ==
    ASSUME TypeOK, NEW h \in Handlers
    PROVE  /\ call[h] = Idle \/ call[h].op \in {"put", "self", "reset", "change", "add", "revoke"}
           /\ call[h].op = "put" => /\ call[h].user \in Users
                                    /\ call[h].pwd \in Passwords
                                    /\ call[h].root \in BOOLEAN
                                    /\ call[h].ver \in 1..MaxVersion
           /\ call[h].op = "self" => call[h].user \in Users /\ call[h].new \in Passwords
           /\ call[h].op = "reset" => call[h].user \in Users /\ call[h].new \in Passwords
           /\ call[h].op = "change" => call[h].user \in Users /\ call[h].root \in BOOLEAN
           /\ call[h].op = "add" => /\ call[h].user \in Users
                                    /\ call[h].pwd \in Passwords
                                    /\ call[h].root \in BOOLEAN
           /\ call[h].op = "revoke" => call[h].user \in Users /\ call[h].ver \in 1..MaxVersion
BY DEF TypeOK, Call, Idle

\* The rows and sessions that exist have the fields of a row, of a session.
LEMMA RowFields ==
    ASSUME TypeOK, NEW u \in Users, users[u] # None
    PROVE  /\ users[u] \in Row
           /\ users[u].pwd \in Passwords
           /\ users[u].root \in BOOLEAN
           /\ users[u].ver \in 1..MaxVersion
BY DEF TypeOK, Row

LEMMA SessionFields ==
    ASSUME TypeOK, NEW t \in Tokens, tokens[t] # None
    PROVE  /\ tokens[t] \in Session
           /\ tokens[t].user \in Users
           /\ tokens[t].pwd \in Passwords
           /\ tokens[t].root \in BOOLEAN
           /\ tokens[t].ver \in 1..MaxVersion
BY DEF TypeOK, Session

\* None is not a row and not a session.
LEMMA NoneApart == None \notin Row /\ None \notin Session
BY ConstantsAssumption DEF Row, Session

\* The requests a handler can be left with.
LEMMA CallKinds ==
    /\ Idle \in Call
    /\ \A u \in Users, pw \in Passwords, r \in BOOLEAN, v \in 1..MaxVersion :
         [op |-> "put", user |-> u, pwd |-> pw, root |-> r, ver |-> v] \in Call
    /\ \A u \in Users, pw, q \in Passwords :
         [op |-> "self", user |-> u, old |-> pw, new |-> q] \in Call
    /\ \A u \in Users, pw \in Passwords : [op |-> "reset", user |-> u, new |-> pw] \in Call
    /\ \A u \in Users, r \in BOOLEAN : [op |-> "change", user |-> u, root |-> r] \in Call
    /\ \A u \in Users, pw \in Passwords, r \in BOOLEAN :
         [op |-> "add", user |-> u, pwd |-> pw, root |-> r] \in Call
    /\ \A u \in Users, v \in 1..MaxVersion : [op |-> "revoke", user |-> u, ver |-> v] \in Call
BY DEF Call

\* A committed change leaves a row with the next version.
LEMMA NextRow ==
    ASSUME TypeOK, NEW u \in Users, Changeable(u)
    PROVE  /\ \A pw \in Passwords : [users[u] EXCEPT !.pwd = pw, !.ver = @ + 1] \in Row
           /\ \A r \in BOOLEAN : [users[u] EXCEPT !.root = r, !.ver = @ + 1] \in Row
           /\ users[u].ver + 1 \in 1..MaxVersion
<1>1. users[u] \in Row
  BY RowFields DEF Changeable
<1>2. users[u].ver \in Nat /\ users[u].ver >= 1 /\ users[u].ver < MaxVersion
  BY <1>1 DEF Row, Changeable
<1>3. users[u].ver + 1 \in 1..MaxVersion
  BY <1>2, ConstantsAssumption
<1> QED
  BY <1>1, <1>3 DEF Row
-------------------------------------------------------------------------------
\* The steps of one handler keep the types.
LEMMA HandlerType ==
    ASSUME TypeOK, NEW h \in Handlers, Start(h) \/ Continue(h) \/ UpdateFails(h)
    PROVE  TypeOK'
<1> USE DEF TypeOK
<1>1. ASSUME NEW c \in Call, Begin(h, c), UNCHANGED <<up, users, tokens, missed, removed>>
      PROVE  TypeOK'
  BY <1>1 DEF Begin
<1>2. ASSUME NEW u \in Users, NEW pw \in Passwords, SigninRead(h, u, pw)
      PROVE  TypeOK'
  BY <1>1, <1>2, CallKinds, RowFields DEF SigninRead
<1>3. ASSUME NEW t \in Tokens, NEW pw \in Passwords, NEW q \in Passwords,
             SelfPassword(h, t, pw, q)
      PROVE  TypeOK'
  BY <1>1, <1>3, CallKinds, SessionFields DEF SelfPassword, Get
<1>4. ASSUME NEW t \in Tokens, NEW u \in Users,
             \/ \E pw \in Passwords, r \in BOOLEAN : UserAdd(h, t, u, pw, r)
             \/ \E pw \in Passwords : UserPassword(h, t, u, pw)
             \/ \E r \in BOOLEAN : UserChange(h, t, u, r)
      PROVE  TypeOK'
  BY <1>1, <1>4, CallKinds DEF UserAdd, UserPassword, UserChange, AdminCall
<1>5. ASSUME SigninPut(h)
      PROVE  TypeOK'
  <2>1. call' \in [Handlers -> Call]
    BY <1>5, CallKinds DEF SigninPut
  <2>2. tokens' \in [Tokens -> Session \cup {None}]
    <3>1. CASE UNCHANGED tokens
      BY <3>1
    <3>2. ASSUME NEW t \in Tokens,
                 Put(t, [user |-> call[h].user, pwd |-> call[h].pwd, root |-> call[h].root,
                         ver |-> call[h].ver, status |-> "live",
                         late |-> call[h].ver # users[call[h].user].ver])
          PROVE  tokens' \in [Tokens -> Session \cup {None}]
      <4>1. [user |-> call[h].user, pwd |-> call[h].pwd, root |-> call[h].root,
             ver |-> call[h].ver, status |-> "live",
             late |-> call[h].ver # users[call[h].user].ver] \in Session
        BY <1>5, CallFields DEF SigninPut, Session
      <4> QED
        BY <3>2, <4>1 DEF Put
    <3> QED
      BY <1>5, <3>1, <3>2 DEF SigninPut
  <2> QED
    BY <1>5, <2>1, <2>2 DEF SigninPut
<1>6. ASSUME NEW u \in Users, NEW row \in Row, Commit(h, u, row)
      PROVE  users' \in [Users -> Row \cup {None}] /\ call' \in [Handlers -> Call]
  <2>1. row.ver \in 1..MaxVersion
    BY DEF Row
  <2> QED
    BY <1>6, <2>1, CallKinds DEF Commit
<1>7. ASSUME Finish(h)
      PROVE  call' \in [Handlers -> Call]
  BY <1>7, CallKinds DEF Finish
<1>8. ASSUME SelfUpdate(h)
      PROVE  TypeOK'
  <2>1. call[h].user \in Users /\ call[h].new \in Passwords
    BY <1>8, CallFields DEF SelfUpdate
  <2>2. users' \in [Users -> Row \cup {None}] /\ call' \in [Handlers -> Call]
    BY <1>6, <1>7, <1>8, <2>1, NextRow DEF SelfUpdate
  <2> QED
    BY <1>8, <2>2 DEF SelfUpdate
<1>9. ASSUME ResetUpdate(h)
      PROVE  TypeOK'
  <2>1. call[h].user \in Users /\ call[h].new \in Passwords
    BY <1>9, CallFields DEF ResetUpdate
  <2>2. users' \in [Users -> Row \cup {None}] /\ call' \in [Handlers -> Call]
    BY <1>6, <1>7, <1>9, <2>1, NextRow DEF ResetUpdate
  <2> QED
    BY <1>9, <2>2 DEF ResetUpdate
<1>10. ASSUME ChangeUpdate(h)
       PROVE  TypeOK'
  <2>1. call[h].user \in Users /\ call[h].root \in BOOLEAN
    BY <1>10, CallFields DEF ChangeUpdate
  <2>2. users' \in [Users -> Row \cup {None}] /\ call' \in [Handlers -> Call]
    BY <1>6, <1>7, <1>10, <2>1, NextRow DEF ChangeUpdate
  <2> QED
    BY <1>10, <2>2 DEF ChangeUpdate
<1>11. ASSUME AddUpdate(h)
       PROVE  TypeOK'
  <2>1. [pwd |-> call[h].pwd, root |-> call[h].root, ver |-> 1] \in Row
    BY <1>11, CallFields, ConstantsAssumption DEF AddUpdate, Row
  <2> QED
    BY <1>7, <1>11, <2>1 DEF AddUpdate
<1>12. ASSUME Revoke(h)
       PROVE  TypeOK'
  BY <1>7, <1>12, CallFields DEF Revoke, DeleteID
<1>13. ASSUME UpdateFails(h)
       PROVE  TypeOK'
  BY <1>7, <1>13 DEF UpdateFails
<1> HIDE DEF TypeOK
<1>14. CASE Start(h)
  BY <1>2, <1>3, <1>4, <1>14, Zenon DEF Start
<1>15. CASE Continue(h)
  BY <1>5, <1>8, <1>9, <1>10, <1>11, <1>12, <1>15, Zenon DEF Continue
<1> QED
  BY <1>13, <1>14, <1>15

\* So do the steps of the process and of the session store.
LEMMA ServerType ==
    ASSUME TypeOK,
           \/ Boot \/ Crash
           \/ \E t \in Tokens : Expire(t) \/ Evict(t) \/ Signout(t) \/ Refresh(t)
           \/ \E t \in Tokens, ids \in RemoveIds : UserRemove(t, ids)
    PROVE  TypeOK'
<1> USE DEF TypeOK
<1>1. CASE Boot
  <2>1. MaxVersion > 0 =>
          \A pw \in Passwords : [pwd |-> pw, root |-> TRUE, ver |-> 1] \in Row
    BY ConstantsAssumption DEF Row
  <2> QED
    BY <1>1, <2>1 DEF Boot
<1>2. CASE Crash
  <2>1. call' \in [Handlers -> Call]
    BY <1>2, CallKinds DEF Crash
  <2> QED
    BY <1>2, <2>1 DEF Crash, PendingRevokes
<1>3. ASSUME NEW t \in Tokens, Expire(t) \/ Refresh(t)
      PROVE  TypeOK'
  <2>1. tokens[t] \in Session
    BY <1>3 DEF Expire, Refresh, Get
  <2>2. /\ [tokens[t] EXCEPT !.status = "expired"] \in Session
        /\ [tokens[t] EXCEPT !.status = "live"] \in Session
    BY <2>1 DEF Session
  <2> QED
    BY <1>3, <2>2 DEF Expire, Refresh
<1>4. ASSUME NEW t \in Tokens, Evict(t) \/ Signout(t)
      PROVE  TypeOK'
  BY <1>4 DEF Evict, Signout
<1>5. ASSUME NEW t \in Tokens, NEW ids \in RemoveIds, UserRemove(t, ids)
      PROVE  TypeOK'
  BY <1>5, ConstantsAssumption DEF UserRemove
<1> QED
  BY <1>1, <1>2, <1>3, <1>4, <1>5

\* A step keeps the types.
LEMMA TypeStep == TypeOK /\ [Next]_vars => TypeOK'
<1> SUFFICES ASSUME TypeOK, [Next]_vars
             PROVE  TypeOK'
  OBVIOUS
<1>1. CASE UNCHANGED vars
  BY <1>1 DEF vars, TypeOK
<1>2. CASE Next
  BY <1>2, HandlerType, ServerType DEF Next
<1> QED
  BY <1>1, <1>2

\* Type correctness of the tables, sessions and requests.
THEOREM TypeCorrect == Spec => []TypeOK
<1>1. Init => TypeOK
  BY CallKinds DEF Init, TypeOK
<1> QED
  BY <1>1, TypeStep, PTL DEF Spec
-------------------------------------------------------------------------------
(***************************************************************************)
(* What one step may do to the rows, to the sessions and to the excuses.   *)
(***************************************************************************)

\* A row that exists stays, as it is or with its next version; in the second
\* case the handler that changed it is about to revoke the user's sessions.
RowStep ==
    \A u \in Users : users[u] # None =>
      /\ users'[u] # None
      /\ \/ users'[u] = users[u]
         \/ /\ users'[u].ver = users[u].ver + 1
            /\ \E h \in Handlers : /\ call'[h].op = "revoke"
                                   /\ call'[h].user = u
                                   /\ call'[h].ver = users'[u].ver

\* A session is an earlier one, or was stored by the sign-in of a handler.
SameData(s, r) ==
    s.user = r.user /\ s.pwd = r.pwd /\ s.root = r.root /\ s.ver = r.ver /\ s.late = r.late

StoredBy(s, h) ==
    /\ call[h].op = "put"
    /\ s.user = call[h].user
    /\ s.pwd = call[h].pwd
    /\ s.root = call[h].root
    /\ s.ver = call[h].ver
    /\ s.late = (call[h].ver # users[call[h].user].ver)
    /\ users' = users

TokenStep ==
    \A t \in Tokens : tokens'[t] # None =>
      \/ tokens[t] # None /\ SameData(tokens'[t], tokens[t])
      \/ \E h \in Handlers : StoredBy(tokens'[t], h)

\* A request to store a session is an earlier one, or read the row just now.
PutStep ==
    \A h \in Handlers : call'[h].op = "put" =>
      \/ call'[h] = call[h]
      \/ /\ call'[h].user \in Users
         /\ users[call'[h].user] # None
         /\ call'[h].pwd = users[call'[h].user].pwd
         /\ call'[h].root = users[call'[h].user].root
         /\ call'[h].ver = users[call'[h].user].ver
         /\ users' = users

\* An excuse lasts until the user has no session left.
ExcusedNext(s) ==
    \/ \E h \in Handlers : call'[h].op = "revoke" /\ call'[h].user = s.user /\ call'[h].ver > s.ver
    \/ s.user \in missed'
    \/ s.late

ExcuseStep ==
    \A s \in Session : Excused(s) =>
      ExcusedNext(s) \/ \A t \in Tokens : tokens'[t] # None => tokens'[t].user # s.user
-------------------------------------------------------------------------------
\* A request begins: nothing but its handler changes.
LEMMA BeginSteps ==
    ASSUME TypeOK, NEW h \in Handlers, NEW c \in Call, Begin(h, c),
           c.op # "revoke",
           c.op = "put" => /\ c.user \in Users
                           /\ users[c.user] # None
                           /\ c.pwd = users[c.user].pwd
                           /\ c.root = users[c.user].root
                           /\ c.ver = users[c.user].ver,
           UNCHANGED <<up, users, tokens, missed, removed>>
    PROVE  RowStep /\ TokenStep /\ PutStep /\ ExcuseStep
<1>1. /\ call' \in [Handlers -> Call]
      /\ call'[h] = c
      /\ call[h].op = "idle"
      /\ \A g \in Handlers \ {h} : call'[g] = call[g]
  BY DEF Begin, TypeOK, Idle
<1>2. RowStep /\ TokenStep
  BY DEF RowStep, TokenStep, SameData
<1>3. PutStep
  BY <1>1 DEF PutStep
<1>4. ExcuseStep
  BY <1>1 DEF ExcuseStep, Excused, ExcusedNext, RevokePending
<1> QED
  BY <1>2, <1>3, <1>4

\* A change commits: its row advances, its handler is to revoke.
LEMMA CommitSteps ==
    ASSUME TypeOK, NEW h \in Handlers, call[h].op # "revoke",
           NEW u \in Users, NEW row \in Row, Commit(h, u, row),
           users[u] # None, row.ver = users[u].ver + 1,
           UNCHANGED <<up, tokens, missed, removed>>
    PROVE  RowStep /\ TokenStep /\ PutStep /\ ExcuseStep
<1>1. /\ call'[h] = [op |-> "revoke", user |-> u, ver |-> row.ver]
      /\ \A g \in Handlers \ {h} : call'[g] = call[g]
  BY DEF Commit, TypeOK
<1>2. /\ users'[u] = row
      /\ \A v \in Users \ {u} : users'[v] = users[v]
  BY DEF Commit, TypeOK
<1>3. RowStep
  BY <1>1, <1>2, NoneApart DEF RowStep
<1>4. TokenStep
  BY DEF TokenStep, SameData
<1>5. PutStep
  BY <1>1 DEF PutStep
<1>6. ExcuseStep
  BY <1>1 DEF ExcuseStep, Excused, ExcusedNext, RevokePending
<1> QED
  BY <1>3, <1>4, <1>5, <1>6

\* A request ends without having changed a row.
LEMMA FinishSteps ==
    ASSUME TypeOK, NEW h \in Handlers, call[h].op # "revoke", Finish(h),
           UNCHANGED <<up, users, tokens, missed, removed>>
    PROVE  RowStep /\ TokenStep /\ PutStep /\ ExcuseStep
<1>1. /\ call'[h].op = "idle"
      /\ \A g \in Handlers \ {h} : call'[g] = call[g]
  BY DEF Finish, TypeOK, Idle
<1>2. RowStep /\ TokenStep
  BY DEF RowStep, TokenStep, SameData
<1>3. PutStep
  BY <1>1 DEF PutStep
<1>4. ExcuseStep
  BY <1>1 DEF ExcuseStep, Excused, ExcusedNext, RevokePending
<1> QED
  BY <1>2, <1>3, <1>4

\* The steps of one handler.
LEMMA HandlerSteps ==
    ASSUME TypeOK, NEW h \in Handlers, Start(h) \/ Continue(h) \/ UpdateFails(h)
    PROVE  RowStep /\ TokenStep /\ PutStep /\ ExcuseStep
<1> DEFINE Goal == RowStep /\ TokenStep /\ PutStep /\ ExcuseStep
<1>1. ASSUME NEW u \in Users, NEW pw \in Passwords, SigninRead(h, u, pw)
      PROVE  Goal
  <2> DEFINE c == [op |-> "put", user |-> u, pwd |-> pw, root |-> users[u].root,
                   ver |-> users[u].ver]
  <2>1. c \in Call
    BY <1>1, CallKinds, RowFields DEF SigninRead
  <2>2. /\ c.op = "put" /\ c.user = u /\ users[u] # None /\ c.pwd = users[u].pwd
        /\ c.root = users[u].root /\ c.ver = users[u].ver
    BY <1>1 DEF SigninRead
  <2>3. Begin(h, c) /\ UNCHANGED <<up, users, tokens, missed, removed>>
    BY <1>1 DEF SigninRead
  <2> HIDE DEF c
  <2> QED
    BY <2>1, <2>2, <2>3, BeginSteps
<1>2. ASSUME NEW c \in Call, Begin(h, c), c.op \in {"self", "reset", "change", "add"},
             UNCHANGED <<up, users, tokens, missed, removed>>
      PROVE  Goal
  BY <1>2, BeginSteps
<1>3. ASSUME NEW t \in Tokens, NEW pw \in Passwords, NEW q \in Passwords,
             SelfPassword(h, t, pw, q)
      PROVE  Goal
  <2> DEFINE c == [op |-> "self", user |-> tokens[t].user, old |-> pw, new |-> q]
  <2>1. c \in Call /\ c.op = "self"
    BY <1>3, CallKinds, SessionFields DEF SelfPassword, Get
  <2> QED
    BY <1>2, <1>3, <2>1 DEF SelfPassword
<1>4. ASSUME NEW t \in Tokens, NEW u \in Users,
             \/ \E pw \in Passwords, r \in BOOLEAN : UserAdd(h, t, u, pw, r)
             \/ \E pw \in Passwords : UserPassword(h, t, u, pw)
             \/ \E r \in BOOLEAN : UserChange(h, t, u, r)
      PROVE  Goal
  <2>1. CASE \E pw \in Passwords, r \in BOOLEAN : UserAdd(h, t, u, pw, r)
    <3>1. PICK pw \in Passwords, r \in BOOLEAN : UserAdd(h, t, u, pw, r)
      BY <2>1
    <3>2. [op |-> "add", user |-> u, pwd |-> pw, root |-> r] \in Call
      BY CallKinds
    <3> QED
      BY <1>2, <3>1, <3>2 DEF UserAdd, AdminCall
  <2>2. CASE \E pw \in Passwords : UserPassword(h, t, u, pw)
    <3>1. PICK pw \in Passwords : UserPassword(h, t, u, pw)
      BY <2>2
    <3>2. [op |-> "reset", user |-> u, new |-> pw] \in Call
      BY CallKinds
    <3> QED
      BY <1>2, <3>1, <3>2 DEF UserPassword, AdminCall
  <2>3. CASE \E r \in BOOLEAN : UserChange(h, t, u, r)
    <3>1. PICK r \in BOOLEAN : UserChange(h, t, u, r)
      BY <2>3
    <3>2. [op |-> "change", user |-> u, root |-> r] \in Call
      BY CallKinds
    <3> QED
      BY <1>2, <3>1, <3>2 DEF UserChange, AdminCall
  <2> QED
    BY <1>4, <2>1, <2>2, <2>3
<1>5. ASSUME SigninPut(h)
      PROVE  Goal
  <2>1. /\ call'[h].op = "idle"
        /\ \A g \in Handlers \ {h} : call'[g] = call[g]
    BY <1>5 DEF SigninPut, TypeOK, Idle
  <2>2. TokenStep
    BY <1>5 DEF SigninPut, Put, TokenStep, StoredBy, SameData, TypeOK
  <2>3. RowStep
    BY <1>5 DEF SigninPut, RowStep
  <2>4. PutStep
    BY <2>1 DEF PutStep
  <2>5. ExcuseStep
    BY <1>5, <2>1 DEF SigninPut, ExcuseStep, Excused, ExcusedNext, RevokePending
  <2> QED
    BY <2>2, <2>3, <2>4, <2>5
<1>6. ASSUME SelfUpdate(h)
      PROVE  Goal
  <2> DEFINE u == call[h].user
  <2>1. u \in Users /\ call[h].new \in Passwords
    BY <1>6, CallFields DEF SelfUpdate
  <2>2. CASE Changeable(u) /\ Commit(h, u, [users[u] EXCEPT !.pwd = call[h].new, !.ver = @ + 1])
    <3> DEFINE row == [users[u] EXCEPT !.pwd = call[h].new, !.ver = @ + 1]
    <3>1. row \in Row /\ users[u] # None /\ row.ver = users[u].ver + 1
      BY <2>1, <2>2, NextRow, RowFields DEF Changeable, Row
    <3> HIDE DEF row, u
    <3> QED
      BY <1>6, <2>1, <2>2, <3>1, CommitSteps DEF SelfUpdate, row
  <2>3. CASE Finish(h) /\ UNCHANGED users
    BY <1>6, <2>3, FinishSteps DEF SelfUpdate
  <2> QED
    BY <1>6, <2>2, <2>3 DEF SelfUpdate
<1>7. ASSUME ResetUpdate(h)
      PROVE  Goal
  <2> DEFINE u == call[h].user
  <2>1. u \in Users /\ call[h].new \in Passwords
    BY <1>7, CallFields DEF ResetUpdate
  <2>2. CASE Changeable(u) /\ Commit(h, u, [users[u] EXCEPT !.pwd = call[h].new, !.ver = @ + 1])
    <3> DEFINE row == [users[u] EXCEPT !.pwd = call[h].new, !.ver = @ + 1]
    <3>1. row \in Row /\ users[u] # None /\ row.ver = users[u].ver + 1
      BY <2>1, <2>2, NextRow, RowFields DEF Changeable, Row
    <3> HIDE DEF row, u
    <3> QED
      BY <1>7, <2>1, <2>2, <3>1, CommitSteps DEF ResetUpdate, row
  <2>3. CASE Finish(h) /\ UNCHANGED users
    BY <1>7, <2>3, FinishSteps DEF ResetUpdate
  <2> QED
    BY <1>7, <2>2, <2>3 DEF ResetUpdate
<1>8. ASSUME ChangeUpdate(h)
      PROVE  Goal
  <2> DEFINE u == call[h].user
  <2>1. u \in Users /\ call[h].root \in BOOLEAN
    BY <1>8, CallFields DEF ChangeUpdate
  <2>2. CASE Changeable(u) /\ Commit(h, u, [users[u] EXCEPT !.root = call[h].root, !.ver = @ + 1])
    <3> DEFINE row == [users[u] EXCEPT !.root = call[h].root, !.ver = @ + 1]
    <3>1. row \in Row /\ users[u] # None /\ row.ver = users[u].ver + 1
      BY <2>1, <2>2, NextRow, RowFields DEF Changeable, Row
    <3> HIDE DEF row, u
    <3> QED
      BY <1>8, <2>1, <2>2, <3>1, CommitSteps DEF ChangeUpdate, row
  <2>3. CASE Finish(h) /\ UNCHANGED users
    BY <1>8, <2>3, FinishSteps DEF ChangeUpdate
  <2> QED
    BY <1>8, <2>2, <2>3 DEF ChangeUpdate
<1>9. ASSUME AddUpdate(h)
      PROVE  Goal
  <2>1. /\ call'[h].op = "idle"
        /\ \A g \in Handlers \ {h} : call'[g] = call[g]
    BY <1>9 DEF AddUpdate, Finish, TypeOK, Idle
  <2>2. \A v \in Users : users[v] # None => users'[v] = users[v]
    BY <1>9 DEF AddUpdate, TypeOK
  <2>3. RowStep
    BY <2>2 DEF RowStep
  <2>4. TokenStep
    BY <1>9 DEF AddUpdate, TokenStep, SameData
  <2>5. PutStep
    BY <2>1 DEF PutStep
  <2>6. ExcuseStep
    BY <1>9, <2>1 DEF AddUpdate, ExcuseStep, Excused, ExcusedNext, RevokePending
  <2> QED
    BY <2>3, <2>4, <2>5, <2>6
<1>10. ASSUME Revoke(h)
       PROVE  Goal
  <2>1. /\ call'[h].op = "idle"
        /\ \A g \in Handlers \ {h} : call'[g] = call[g]
    BY <1>10 DEF Revoke, Finish, TypeOK, Idle
  <2>2. TokenStep
    BY <1>10 DEF Revoke, DeleteID, TokenStep, SameData
  <2>3. RowStep
    BY <1>10 DEF Revoke, RowStep
  <2>4. PutStep
    BY <2>1 DEF PutStep
  <2>5. ExcuseStep
    <3>1. CASE DeleteID(call[h].user) /\ missed' = missed \ {call[h].user}
      BY <2>1, <3>1 DEF DeleteID, ExcuseStep, Excused, ExcusedNext, RevokePending
    <3>2. CASE missed' = missed \cup {call[h].user} /\ UNCHANGED tokens
      BY <2>1, <3>2 DEF ExcuseStep, Excused, ExcusedNext, RevokePending
    <3> QED
      BY <1>10, <3>1, <3>2 DEF Revoke
  <2> QED
    BY <2>2, <2>3, <2>4, <2>5
<1>11. ASSUME UpdateFails(h)
       PROVE  Goal
  BY <1>11, FinishSteps DEF UpdateFails
<1> HIDE DEF Goal
<1>12. ASSUME Start(h)
       PROVE  Goal
  BY <1>1, <1>3, <1>4, <1>12, Zenon DEF Start
<1>13. ASSUME Continue(h)
       PROVE  Goal
  BY <1>5, <1>6, <1>7, <1>8, <1>9, <1>10, <1>13, Zenon DEF Continue
<1> QED
  BY <1>11, <1>12, <1>13 DEF Goal

\* The steps of the process, of the session store and of Remove, when some row
\* exists (Boot seeds an empty table only).
LEMMA ServerSteps ==
    ASSUME TypeOK,
           \/ Boot \/ Crash
           \/ \E t \in Tokens : Expire(t) \/ Evict(t) \/ Signout(t) \/ Refresh(t)
           \/ \E t \in Tokens, ids \in RemoveIds : UserRemove(t, ids)
    PROVE  RowStep /\ TokenStep /\ PutStep /\ ExcuseStep
<1> DEFINE Goal == RowStep /\ TokenStep /\ PutStep /\ ExcuseStep
<1>1. ASSUME Boot
      PROVE  Goal
  <2>1. RowStep
    BY <1>1 DEF Boot, RowStep
  <2>2. TokenStep
    BY <1>1 DEF Boot, TokenStep, SameData
  <2>3. PutStep
    BY <1>1 DEF Boot, PutStep
  <2>4. ExcuseStep
    BY <1>1 DEF Boot, ExcuseStep, Excused, ExcusedNext, RevokePending
  <2> QED
    BY <2>1, <2>2, <2>3, <2>4
<1>2. ASSUME Crash
      PROVE  Goal
  <2>1. \A g \in Handlers : call'[g].op = "idle"
    BY <1>2 DEF Crash, Idle
  <2>2. RowStep
    BY <1>2 DEF Crash, RowStep
  <2>3. TokenStep
    BY <1>2 DEF Crash, TokenStep, SameData
  <2>4. PutStep
    BY <2>1 DEF PutStep
  <2>5. ExcuseStep
    <3>1. CASE Persistent
      <4>1. \A s \in Session : RevokePending(s) => s.user \in PendingRevokes
        BY DEF RevokePending, PendingRevokes, Session
      <4> QED
        BY <1>2, <3>1, <4>1 DEF Crash, ExcuseStep, Excused, ExcusedNext
    <3>2. CASE ~Persistent
      BY <1>2, <3>2 DEF Crash, ExcuseStep
    <3> QED
      BY <3>1, <3>2
  <2> QED
    BY <2>2, <2>3, <2>4, <2>5
<1>3. ASSUME NEW t \in Tokens, Expire(t) \/ Evict(t) \/ Signout(t) \/ Refresh(t)
      PROVE  Goal
  <2>1. UNCHANGED <<users, call, missed>>
    BY <1>3 DEF Expire, Evict, Signout, Refresh
  <2>2. TokenStep
    <3>1. CASE Evict(t) \/ Signout(t)
      BY <3>1 DEF Evict, Signout, TypeOK, TokenStep, SameData
    <3>2. CASE Expire(t) \/ Refresh(t)
      <4>1. tokens[t] \in Session
        BY <3>2 DEF Expire, Refresh, Get, TypeOK
      <4>2. \/ tokens' = [tokens EXCEPT ![t].status = "expired"]
            \/ tokens' = [tokens EXCEPT ![t].status = "live"]
        BY <3>2 DEF Expire, Refresh
      <4>3. /\ tokens[t] # None
            /\ SameData(tokens'[t], tokens[t])
        BY <3>2, <4>1, <4>2 DEF SameData, Session, Expire, Refresh, Get, TypeOK
      <4>4. \A r \in Tokens \ {t} : tokens'[r] = tokens[r]
        BY <4>2 DEF TypeOK
      <4>5. \A r \in Tokens \ {t} : SameData(tokens'[r], tokens[r])
        BY <4>4 DEF SameData
      <4> QED
        BY <4>3, <4>4, <4>5 DEF TokenStep
    <3> QED
      BY <1>3, <3>1, <3>2
  <2>3. RowStep
    BY <2>1 DEF RowStep
  <2>4. PutStep
    BY <2>1 DEF PutStep
  <2>5. ExcuseStep
    BY <2>1 DEF ExcuseStep, Excused, ExcusedNext, RevokePending
  <2> QED
    BY <2>2, <2>3, <2>4, <2>5
<1>4. ASSUME NEW t \in Tokens, NEW ids \in RemoveIds, UserRemove(t, ids)
      PROVE  Goal
  <2>1. UNCHANGED <<users, tokens, call, missed>>
    BY <1>4 DEF UserRemove
  <2> QED
    BY <2>1 DEF RowStep, TokenStep, SameData, PutStep, ExcuseStep, Excused, ExcusedNext,
                RevokePending
<1> HIDE DEF Goal
<1>5. Goal
  BY <1>1, <1>2, <1>3, <1>4
<1> QED
  BY <1>5 DEF Goal
-------------------------------------------------------------------------------
\* A copy of a row stays a copy when rows advance.
LEMMA CopyStays ==
    ASSUME TypeOK, RowStep,
           NEW u \in Users, NEW pw, NEW r, NEW v \in Nat, CopyOf(u, pw, r, v)
    PROVE  CopyOf(u, pw, r, v)'
<1>1. users[u] # None /\ users[u].ver \in Nat /\ v <= users[u].ver
  BY RowFields DEF CopyOf
<1>2. CASE users'[u] = users[u]
  BY <1>2 DEF CopyOf
<1>3. CASE users'[u] # None /\ users'[u].ver = users[u].ver + 1
  BY <1>1, <1>3 DEF CopyOf
<1> QED
  BY <1>1, <1>2, <1>3 DEF RowStep

\* The strengthened invariant is inductive.
LEMMA Inductive == IInv /\ [Next]_vars => IInv'
<1> SUFFICES ASSUME IInv, [Next]_vars
             PROVE  IInv'
  OBVIOUS
<1>1. TypeOK /\ TypeOK'
  BY TypeStep DEF IInv
<1>2. CASE UNCHANGED vars
  BY <1>2 DEF vars, IInv, TypeOK, SessionCopies, SigninCopies, OldOnesExcused, CopyOf, Excused,
              RevokePending, Row, Session, Call
<1>3. CASE Next
  <2>1. RowStep /\ TokenStep /\ PutStep /\ ExcuseStep
    BY <1>1, <1>3, HandlerSteps, ServerSteps DEF Next
  <2>2. SigninCopies'
    <3> SUFFICES ASSUME NEW h \in Handlers, call'[h].op = "put"
                 PROVE  CopyOf(call[h].user, call[h].pwd, call[h].root, call[h].ver)'
      BY DEF SigninCopies
    <3>1. CASE call'[h] = call[h]
      <4> DEFINE u == call[h].user
                 pw == call[h].pwd
                 r == call[h].root
                 v == call[h].ver
      <4>1. u \in Users /\ v \in Nat /\ CopyOf(u, pw, r, v)
        BY <1>1, <3>1, CallFields DEF IInv, SigninCopies
      <4>2. /\ users'[u] # None
            /\ v <= users'[u].ver
            /\ v = users'[u].ver => pw = users'[u].pwd /\ r = users'[u].root
        <5> HIDE DEF u, pw, r, v
        <5> QED
          BY <1>1, <2>1, <4>1, RowFields DEF CopyOf, RowStep
      <4> QED
        BY <3>1, <4>2 DEF CopyOf
    <3>2. CASE call'[h] # call[h]
      <4>1. users[call'[h].user].ver \in Nat
        BY <1>1, <2>1, <3>2, RowFields DEF PutStep
      <4> QED
        BY <2>1, <3>2, <4>1 DEF PutStep, CopyOf
    <3> QED
      BY <3>1, <3>2
  <2>3. SessionCopies'
    <3> SUFFICES ASSUME NEW t \in Tokens, tokens'[t] # None
                 PROVE  CopyOf(tokens[t].user, tokens[t].pwd, tokens[t].root, tokens[t].ver)'
      BY DEF SessionCopies
    <3> DEFINE s == tokens'[t]
    <3>1. \E v \in Nat : /\ v = s.ver
                         /\ s.user \in Users
                         /\ CopyOf(s.user, s.pwd, s.root, v)
      <4>1. CASE tokens[t] # None /\ SameData(s, tokens[t])
        BY <1>1, <4>1, SessionFields DEF SameData, IInv, SessionCopies
      <4>2. ASSUME NEW h \in Handlers, StoredBy(s, h)
            PROVE  s.ver \in Nat /\ s.user \in Users /\ CopyOf(s.user, s.pwd, s.root, s.ver)
        BY <1>1, <4>2, CallFields DEF StoredBy, IInv, SigninCopies
      <4> QED
        BY <2>1, <4>1, <4>2 DEF TokenStep
    <3>2. /\ users'[s.user] # None
          /\ s.ver <= users'[s.user].ver
          /\ s.ver = users'[s.user].ver =>
               s.pwd = users'[s.user].pwd /\ s.root = users'[s.user].root
      <4> HIDE DEF s
      <4> QED
        BY <1>1, <2>1, <3>1, RowFields DEF CopyOf, RowStep
    <3> QED
      BY <3>2 DEF CopyOf
  <2>4. OldOnesExcused'
    <3> SUFFICES ASSUME NEW t \in Tokens, tokens'[t] # None,
                        tokens'[t].ver < users'[tokens'[t].user].ver
                 PROVE  Excused(tokens[t])'
      BY DEF OldOnesExcused
    <3>1. CASE tokens[t] # None /\ SameData(tokens'[t], tokens[t])
      <4> DEFINE s == tokens[t]
                 u == tokens[t].user
      <4>1. s \in Session /\ u \in Users /\ s.ver \in Nat /\ users[u] # None
        BY <1>1, <3>1, SessionFields DEF IInv, SessionCopies, CopyOf
      <4>2. users[u].ver \in Nat /\ s.ver <= users[u].ver
        BY <1>1, <3>1, <4>1, RowFields DEF IInv, SessionCopies, CopyOf
      <4>3. CASE users'[u] = users[u]
        <5>1. Excused(s)
          BY <3>1, <4>3 DEF SameData, IInv, OldOnesExcused
        <5>2. ExcusedNext(s)
          BY <2>1, <3>1, <4>1, <5>1 DEF ExcuseStep, SameData
        <5> QED
          BY <3>1, <5>2 DEF ExcusedNext, Excused, RevokePending, SameData
      <4>4. CASE users'[u].ver = users[u].ver + 1 /\
                 \E h \in Handlers : /\ call'[h].op = "revoke"
                                     /\ call'[h].user = u
                                     /\ call'[h].ver = users'[u].ver
        BY <3>1, <4>2, <4>4 DEF Excused, RevokePending, SameData
      <4> QED
        BY <2>1, <4>1, <4>3, <4>4 DEF RowStep
    <3>2. ASSUME NEW h \in Handlers, StoredBy(tokens'[t], h)
          PROVE  Excused(tokens[t])'
      <4>1. call[h].ver # users[call[h].user].ver
        BY <1>1, <3>2, CallFields DEF StoredBy
      <4> QED
        BY <3>2, <4>1 DEF StoredBy, Excused
    <3> QED
      BY <2>1, <3>1, <3>2 DEF TokenStep
  <2> QED
    BY <1>1, <2>2, <2>3, <2>4 DEF IInv
<1> QED
  BY <1>2, <1>3

\* The initial state has no sessions and no requests.
LEMMA InitInv == Init => IInv
<1> SUFFICES ASSUME Init
             PROVE  IInv
  OBVIOUS
<1>1. TypeOK
  BY CallKinds DEF Init, TypeOK
<1>2. \A t \in Tokens : tokens[t] = None
  BY DEF Init
<1>3. \A h \in Handlers : call[h].op = "idle"
  BY DEF Init, Idle
<1> QED
  BY <1>1, <1>2, <1>3 DEF IInv, SessionCopies, SigninCopies, OldOnesExcused

\* A session agrees with its user's row except in the three windows: a
\* revocation under way, a revocation that was lost, a row that changed while
\* the sign-in was in progress.
THEOREM SessionsAreCurrent == Spec => []SessionsCurrent
<1>1. IInv => SessionsCurrent
  <2> SUFFICES ASSUME IInv, NEW t \in Tokens, Outdated(t)
               PROVE  Excused(tokens[t])
    BY DEF SessionsCurrent
  <2>1. tokens[t] # None
    BY DEF Outdated
  <2>2. CopyOf(tokens[t].user, tokens[t].pwd, tokens[t].root, tokens[t].ver)
    BY <2>1 DEF IInv, SessionCopies
  <2>3. tokens[t].user \in Users /\ tokens[t].ver \in Nat /\ users[tokens[t].user].ver \in Nat
    BY <2>1, <2>2, SessionFields, RowFields DEF IInv, CopyOf
  <2>4. tokens[t].ver < users[tokens[t].user].ver
    BY <2>2, <2>3 DEF CopyOf, Outdated
  <2> QED
    BY <2>1, <2>4 DEF IInv, OldOnesExcused
<1> QED
  BY <1>1, InitInv, Inductive, PTL DEF Spec

\* No request is in progress while the server is down.
DownIsIdle == ~up => \A h \in Handlers : call[h] = Idle

LEMMA DownInv == TypeOK /\ DownIsIdle /\ [Next]_vars => DownIsIdle'
<1> SUFFICES ASSUME TypeOK, DownIsIdle, [Next]_vars
             PROVE  DownIsIdle'
  OBVIOUS
<1>1. CASE UNCHANGED vars
  BY <1>1 DEF vars, DownIsIdle
<1>2. CASE Boot
  BY <1>2 DEF Boot, DownIsIdle
<1>3. CASE Crash
  BY <1>3 DEF Crash, DownIsIdle
<1>4. ASSUME NEW t \in Tokens,
             \/ Expire(t) \/ Evict(t) \/ Signout(t) \/ Refresh(t)
             \/ \E ids \in RemoveIds : UserRemove(t, ids)
      PROVE  DownIsIdle'
  BY <1>4 DEF Expire, Evict, Signout, Refresh, UserRemove, DownIsIdle
<1>5. ASSUME NEW h \in Handlers, Start(h)
      PROVE  DownIsIdle'
  BY <1>5 DEF Start, SigninRead, SelfPassword, UserAdd, UserPassword, UserChange, AdminCall,
              Begin, DownIsIdle
<1>6. ASSUME NEW h \in Handlers, Continue(h) \/ UpdateFails(h)
      PROVE  DownIsIdle'
  BY <1>6 DEF Continue, SigninPut, SelfUpdate, AddUpdate, ResetUpdate, ChangeUpdate, Revoke,
              UpdateFails, DownIsIdle, Idle
<1> QED
  BY <1>1, <1>2, <1>3, <1>4, <1>5, <1>6 DEF Next

\* A restart leaves every account that exists as it is.
THEOREM RestartIsHarmless == Spec => RestartKeepsAccounts
<1>1. Init => TypeOK /\ DownIsIdle
  BY InitInv DEF Init, IInv, DownIsIdle
<1>2. DownIsIdle /\ [Next]_vars =>
        [~up => \A u \in Users : users[u] # None => users'[u] = users[u]]_vars
  <2> SUFFICES ASSUME DownIsIdle, Next, ~up, NEW u \in Users, users[u] # None
               PROVE  users'[u] = users[u]
    OBVIOUS
  <2>1. CASE Boot
    BY <2>1 DEF Boot
  <2>2. ASSUME NEW h \in Handlers, Start(h) \/ Continue(h) \/ UpdateFails(h)
        PROVE  users'[u] = users[u]
    <3>1. call[h].op = "idle"
      BY DEF DownIsIdle, Idle
    <3>2. CASE Start(h)
      BY <3>2 DEF Start, SigninRead, SelfPassword, UserAdd, UserPassword, UserChange, AdminCall,
                  Begin
    <3>3. CASE Continue(h) \/ UpdateFails(h)
      BY <3>1, <3>3 DEF Continue, SigninPut, SelfUpdate, AddUpdate, ResetUpdate, ChangeUpdate,
                        Revoke, UpdateFails
    <3> QED
      BY <2>2, <3>2, <3>3
  <2>3. CASE Crash \/ \E t \in Tokens : \/ Expire(t) \/ Evict(t) \/ Signout(t) \/ Refresh(t)
                                       \/ \E ids \in RemoveIds : UserRemove(t, ids)
    BY <2>3 DEF Crash, Expire, Evict, Signout, Refresh, UserRemove
  <2> QED
    BY <2>1, <2>2, <2>3 DEF Next
<1> QED
  BY <1>1, <1>2, TypeStep, DownInv, PTL DEF Spec, RestartKeepsAccounts
-------------------------------------------------------------------------------
(***************************************************************************)
(* The conditional GET of the list of users.  An answer that was given is  *)
(* honest when no later change of the list hides behind its time; the      *)
(* invariant says so of answers in progress too.                           *)
(***************************************************************************)
\* A time read from the table is not ahead of it.
TimeInv ==
    /\ \A c \in Clients : find[c] # Nothing => find[c].lm <= modtime
    /\ NeverAhead

\* Every change since version v either moved the time beyond lm or left no
\* trace in it.
Honest(lm, v) ==
    \A u \in 1..MaxChanges : v < u /\ u <= version => u \in unmoved \/ lm < modtime

HonestInv ==
    \A c \in Clients :
      /\ find[c] # Nothing /\ find[c].ver # Nothing => Honest(find[c].lm, find[c].ver)
      /\ cache[c] # Nothing => Honest(cache[c].lm, cache[c].ver)

FindInv == FindTypeOK /\ TimeInv /\ HonestInv

\* Every step is one of the clock, a writer or a client.
LEMMA FindSteps ==
    ASSUME [FindNext]_findVars
    PROVE  \/ Tick \/ SetBack
           \/ \E w \in Writers : Stamp(w) \/ CommitChange(w) \/ Abort(w)
           \/ \E c \in Clients : \/ \E m \in {modtime, 0} : ReadModtime(c, m)
                                 \/ ReadList(c) \/ Fail(c) \/ Reply(c)
           \/ UNCHANGED findVars
  BY DEF FindNext, Request

\* A request in progress, and an answer that is kept, are records.
LEMMA FindRecords ==
    ASSUME FindTypeOK, NEW c \in Clients
    PROVE  /\ find[c] # Nothing => find[c] \in [lm : 0..MaxTime, ver : Versions \cup {Nothing}]
           /\ cache[c] # Nothing => cache[c] \in Answers
  BY DEF FindTypeOK

\* What a commit does to the time: it moves on, or stays where it is.
LEMMA CommitMoves ==
    ASSUME FindTypeOK, NEW w \in Writers, CommitChange(w)
    PROVE  /\ modtime' \in Times /\ modtime <= modtime'
           /\ version' = version + 1 /\ version' \in 1..MaxChanges
           /\ unmoved \subseteq unmoved'
           /\ version' \in unmoved' \/ modtime < modtime'
           /\ unmoved' \subseteq unmoved \cup {version'}
<1>1. stamp[w] \in Times
  BY DEF FindTypeOK, CommitChange
<1>2. modtime' = IF modtime < stamp[w] THEN stamp[w] ELSE modtime
  BY DEF CommitChange, Modified
<1>3. version' = version + 1 /\ version' \in 1..MaxChanges
  BY FindAssumption DEF FindTypeOK, CommitChange, Versions
<1>4. unmoved' = unmoved \cup (IF modtime' = modtime THEN {version'} ELSE {})
  BY DEF CommitChange
<1>5. modtime' \in Times /\ modtime <= modtime' /\ (modtime' = modtime \/ modtime < modtime')
  BY <1>1, <1>2, FindAssumption DEF FindTypeOK, Times
<1> QED
  BY <1>3, <1>4, <1>5
-------------------------------------------------------------------------------
\* Every step keeps the types.
LEMMA FindKeepsTypes == FindTypeOK /\ [FindNext]_findVars => FindTypeOK'
<1> SUFFICES ASSUME FindTypeOK, [FindNext]_findVars
             PROVE  FindTypeOK'
  OBVIOUS
<1> USE FindAssumption DEF Times, writeVars
<1>1. CASE Tick \/ SetBack
  <2>1. now' \in Times /\ UNCHANGED <<modtime, version, unmoved, stamp, find, cache>>
    BY <1>1 DEF FindTypeOK, Tick, SetBack
  <2> QED
    BY <2>1 DEF FindTypeOK, Versions
<1>2. ASSUME NEW w \in Writers, Stamp(w) \/ Abort(w)
      PROVE  FindTypeOK'
  BY <1>2 DEF FindTypeOK, Stamp, Abort
<1>3. ASSUME NEW w \in Writers, CommitChange(w)
      PROVE  FindTypeOK'
  <2>1. /\ modtime' \in Times /\ version' \in Versions
        /\ unmoved' \in SUBSET (1..MaxChanges)
    <3>1. modtime' \in Times /\ version' \in 1..MaxChanges
      BY <1>3, CommitMoves
    <3>2. unmoved' \subseteq unmoved \cup {version'}
      BY <1>3, CommitMoves
    <3>3. unmoved \subseteq 1..MaxChanges
      BY DEF FindTypeOK
    <3> QED
      BY <3>1, <3>2, <3>3 DEF Versions
  <2>2. stamp' \in [Writers -> Times \cup {Nothing}]
    BY <1>3 DEF FindTypeOK, CommitChange
  <2> QED
    BY <1>3, <2>1, <2>2 DEF FindTypeOK, CommitChange
<1>4. ASSUME NEW c \in Clients, NEW m \in {modtime, 0}, ReadModtime(c, m)
      PROVE  FindTypeOK'
  <2>1. m \in 0..MaxTime
    BY DEF FindTypeOK
  <2>2. find' \in [Clients -> [lm : 0..MaxTime, ver : Versions \cup {Nothing}] \cup {Nothing}]
    BY <1>4, <2>1 DEF FindTypeOK, ReadModtime
  <2> QED
    BY <1>4, <2>2 DEF FindTypeOK, ReadModtime
<1>5. ASSUME NEW c \in Clients, ReadList(c)
      PROVE  FindTypeOK'
  BY <1>5, FindRecords DEF FindTypeOK, ReadList
<1>6. ASSUME NEW c \in Clients, Fail(c)
      PROVE  FindTypeOK'
  BY <1>6 DEF FindTypeOK, Fail
<1>7. ASSUME NEW c \in Clients, Reply(c)
      PROVE  FindTypeOK'
  <2>1. find[c] \in Answers
    BY <1>7, FindRecords DEF Reply, Answers
  <2> QED
    BY <1>7, <2>1 DEF FindTypeOK, Reply
<1>8. CASE UNCHANGED findVars
  BY <1>8 DEF FindTypeOK, findVars
<1> QED
  BY <1>1, <1>2, <1>3, <1>4, <1>5, <1>6, <1>7, <1>8, FindSteps

\* Times that were read stay behind the table's, since that never goes back.
LEMMA FindKeepsTimes == FindTypeOK /\ TimeInv /\ [FindNext]_findVars => TimeInv'
<1> SUFFICES ASSUME FindTypeOK, TimeInv, [FindNext]_findVars
             PROVE  TimeInv'
  OBVIOUS
<1> USE DEF TimeInv, NeverAhead, writeVars
<1>1. CASE Tick \/ SetBack \/ UNCHANGED findVars
  BY <1>1 DEF Tick, SetBack, findVars
<1>2. ASSUME NEW w \in Writers, Stamp(w) \/ Abort(w)
      PROVE  TimeInv'
  BY <1>2 DEF Stamp, Abort
<1>3. ASSUME NEW w \in Writers, CommitChange(w)
      PROVE  TimeInv'
  <2>1. UNCHANGED <<find, cache>>
    BY <1>3 DEF CommitChange
  <2>2. modtime \in Nat /\ modtime' \in Nat /\ modtime <= modtime'
    BY <1>3, CommitMoves DEF FindTypeOK, Times
  <2>3. ASSUME NEW c \in Clients, find[c] # Nothing
        PROVE  find[c].lm <= modtime'
    BY <2>2, <2>3, FindRecords
  <2>4. ASSUME NEW c \in Clients, cache[c] # Nothing
        PROVE  cache[c].lm <= modtime'
    BY <2>2, <2>4, FindRecords DEF Answers
  <2> QED
    BY <2>1, <2>3, <2>4
<1>4. ASSUME NEW c \in Clients, NEW m \in {modtime, 0}, ReadModtime(c, m)
      PROVE  TimeInv'
  <2>1. m <= modtime
    BY DEF FindTypeOK, Times
  <2> QED
    BY <1>4, <2>1 DEF ReadModtime, FindTypeOK
<1>5. ASSUME NEW c \in Clients, ReadList(c)
      PROVE  TimeInv'
  <2>1. find'[c].lm = find[c].lm
    BY <1>5, FindRecords DEF ReadList, FindTypeOK
  <2> QED
    BY <1>5, <2>1 DEF ReadList, FindTypeOK
<1>6. ASSUME NEW c \in Clients, Fail(c)
      PROVE  TimeInv'
  BY <1>6 DEF Fail, FindTypeOK
<1>7. ASSUME NEW c \in Clients, Reply(c)
      PROVE  TimeInv'
  BY <1>7 DEF Reply, FindTypeOK
<1> QED
  BY <1>1, <1>2, <1>3, <1>4, <1>5, <1>6, <1>7, FindSteps
-------------------------------------------------------------------------------
\* An answer that was honest stays honest when a writer commits, provided its
\* time was read from the table.
LEMMA CommitKeepsHonest ==
    ASSUME FindTypeOK, NEW w \in Writers, CommitChange(w),
           NEW lm \in 0..MaxTime, NEW v \in Versions,
           lm <= modtime, Honest(lm, v)
    PROVE  Honest(lm, v)'
<1> SUFFICES ASSUME NEW u \in 1..MaxChanges, v < u, u <= version'
             PROVE  u \in unmoved' \/ lm < modtime'
  BY DEF Honest
<1>1. version \in Nat /\ modtime \in Nat /\ modtime' \in Nat /\ version' = version + 1
  BY CommitMoves DEF FindTypeOK, Versions, Times
<1>2. CASE u <= version
  BY <1>1, <1>2, CommitMoves DEF Honest
<1>3. CASE u = version'
  BY <1>1, <1>3, CommitMoves
<1> QED
  BY <1>1, <1>2, <1>3

\* Every step keeps answers honest.
LEMMA FindKeepsHonest == FindTypeOK /\ TimeInv /\ HonestInv /\ [FindNext]_findVars => HonestInv'
<1> SUFFICES ASSUME FindTypeOK, TimeInv, HonestInv, [FindNext]_findVars
             PROVE  HonestInv'
  OBVIOUS
<1> USE DEF HonestInv, writeVars
<1>1. CASE Tick \/ SetBack \/ UNCHANGED findVars
  BY <1>1 DEF Tick, SetBack, findVars, Honest
<1>2. ASSUME NEW w \in Writers, Stamp(w) \/ Abort(w)
      PROVE  HonestInv'
  BY <1>2 DEF Stamp, Abort, Honest
<1>3. ASSUME NEW w \in Writers, CommitChange(w)
      PROVE  HonestInv'
  <2>1. UNCHANGED <<find, cache>>
    BY <1>3 DEF CommitChange
  <2>2. ASSUME NEW c \in Clients, find[c] # Nothing, find[c].ver # Nothing
        PROVE  Honest(find[c].lm, find[c].ver)'
    <3>1. find[c].lm \in 0..MaxTime /\ find[c].ver \in Versions
      BY <2>2, FindRecords
    <3> DEFINE lm == find[c].lm  v == find[c].ver
    <3>2. lm <= modtime /\ Honest(lm, v)
      BY <2>2 DEF TimeInv
    <3>3. \A u \in 1..MaxChanges :
             v < u /\ u <= version' => u \in unmoved' \/ lm < modtime'
      <4> HIDE DEF lm, v
      <4> QED
        BY <1>3, <3>1, <3>2, CommitKeepsHonest DEF Honest, lm, v
    <3> QED
      BY <2>1, <3>3 DEF Honest
  <2>3. ASSUME NEW c \in Clients, cache[c] # Nothing
        PROVE  Honest(cache[c].lm, cache[c].ver)'
    <3>1. cache[c].lm \in 0..MaxTime /\ cache[c].ver \in Versions
      BY <2>3, FindRecords DEF Answers
    <3>2. cache[c].lm <= modtime /\ Honest(cache[c].lm, cache[c].ver)
      BY <2>3 DEF TimeInv, NeverAhead
    <3>3. \A u \in 1..MaxChanges :
             cache[c].ver < u /\ u <= version' => u \in unmoved' \/ cache[c].lm < modtime'
      BY <1>3, <3>1, <3>2, CommitKeepsHonest DEF Honest
    <3> QED
      BY <2>1, <3>3 DEF Honest
  <2> QED
    BY <2>1, <2>2, <2>3
<1>4. ASSUME NEW c \in Clients, NEW m \in {modtime, 0}, ReadModtime(c, m)
      PROVE  HonestInv'
  BY <1>4 DEF ReadModtime, FindTypeOK, Honest
<1>5. ASSUME NEW c \in Clients, ReadList(c)
      PROVE  HonestInv'
  <2>1. find'[c].ver = version /\ version \in Nat
    BY <1>5, FindRecords DEF ReadList, FindTypeOK, Versions
  <2>2. Honest(find[c].lm, find[c].ver)'
    BY <1>5, <2>1 DEF ReadList, Honest
  <2>3. \A d \in Clients \ {c} : find'[d] = find[d]
    BY <1>5 DEF ReadList, FindTypeOK
  <2>4. UNCHANGED <<cache, version, unmoved, modtime>>
    BY <1>5 DEF ReadList
  <2> QED
    BY <2>2, <2>3, <2>4 DEF Honest
<1>6. ASSUME NEW c \in Clients, Fail(c)
      PROVE  HonestInv'
  BY <1>6 DEF Fail, FindTypeOK, Honest
<1>7. ASSUME NEW c \in Clients, Reply(c)
      PROVE  HonestInv'
  BY <1>7 DEF Reply, FindTypeOK, Honest
<1> QED
  BY <1>1, <1>2, <1>3, <1>4, <1>5, <1>6, <1>7, FindSteps
-------------------------------------------------------------------------------
\* IInv is an invariant of the specification.
LEMMA FindInductive == FindSpec => []FindInv
<1>1. InitFind => FindInv
  BY FindAssumption
     DEF InitFind, FindInv, FindTypeOK, TimeInv, NeverAhead, HonestInv, Times, Versions
<1>2. FindInv /\ [FindNext]_findVars => FindInv'
  BY FindKeepsTypes, FindKeepsTimes, FindKeepsHonest DEF FindInv
<1> QED
  BY <1>1, <1>2, PTL DEF FindSpec

\* The table of times, requests and kept answers have their types; the time
\* in the table is never the zero time (Init, Modified).
THEOREM FindTypeCorrect == FindSpec => []FindTypeOK
  BY FindInductive, PTL DEF FindInv

\* Find with ServeMessage: no client is told a time ahead of the table's.
THEOREM NeverAheadOfTable == FindSpec => []NeverAhead
  BY FindInductive, PTL DEF FindInv, TimeInv

\* For any number of clients and writers and whatever the clock does, `not
\* modified` (checkIfModifiedSince) hides only changes that did not move the
\* time.
THEOREM HidesOnlyUnmoved == FindSpec => []StaleOnlyUnmoved
<1>1. FindInv => StaleOnlyUnmoved
  <2> SUFFICES ASSUME FindInv, NEW c \in Clients, Stale(c), NotModified(cache[c].lm, modtime),
                      NEW u \in (cache[c].ver + 1)..version
               PROVE  u \in unmoved
    BY DEF StaleOnlyUnmoved
  <2>1. cache[c] # Nothing /\ cache[c].lm \in Nat /\ cache[c].ver \in Nat
    BY FindRecords DEF FindInv, Stale, Answers, Versions
  <2>2. version \in 0..MaxChanges /\ modtime \in Nat
    BY DEF FindInv, FindTypeOK, Versions, Times
  <2>3. u \in 1..MaxChanges /\ cache[c].ver < u /\ u <= version
    BY <2>1, <2>2, FindAssumption
  <2>4. ~(cache[c].lm < modtime)
    BY <2>1, <2>2 DEF NotModified
  <2> QED
    BY <2>1, <2>3, <2>4 DEF FindInv, HonestInv, Honest
<1> QED
  BY <1>1, FindInductive, PTL
-------------------------------------------------------------------------------
(***************************************************************************)
(* The pipe listener, for any number of acceptors, dialers and closers.    *)
(***************************************************************************)
\* Where a Close call is while it holds l.m.
HoldingMutex == {"check", "close", "store", "unlock", "unlockErr"}

\* Where the Close call that closed the channel can be.
Won == {"store", "unlock", "nil"}

\* l.m excludes, and is held exactly between CloseLock and CloseUnlock.
MutexInv ==
    /\ \A c \in Closers : c \in mutex <=> at[c] \in HoldingMutex
    /\ \A c1, c2 \in mutex : c1 = c2

\* How done and the channel go together: they differ only while the winner is
\* between close(l.close) and the store.  This is what the unlocked read of
\* done and the check under the lock rely on.
DoneInv ==
    /\ done = 1 => closed
    /\ \A c \in Closers : at[c] = "store" => closed /\ done = 0
    /\ \A c \in Closers : at[c] = "close" => ~closed /\ done = 0
    /\ closed /\ done = 0 => \E c \in Closers : at[c] = "store"

\* One winner, and every loser has seen done set.
OutcomeInv ==
    /\ \A c1, c2 \in Closers : at[c1] \in Won /\ at[c2] \in Won => c1 = c2
    /\ \A c \in Closers : at[c] \in Won => closed
    /\ \A c \in Closers : at[c] \in {"errClosed", "unlockErr"} => done = 1

PipeInv ==
    /\ PipeTypeOK
    /\ NeverClosedTwice
    /\ MutexInv
    /\ DoneInv
    /\ OutcomeInv
    /\ NobodyParkedOnClosed

-------------------------------------------------------------------------------
\* Every state of the listener is well typed: each call is at a place of its
\* own function.
THEOREM PipeTypeCorrect == PipeSpec => []PipeTypeOK
<1> USE DEF PipeTypeOK, AcceptorPC, DialerPC, CloserPC, Callers, MoveTo, ParkedIn
<1>1. InitPipe => PipeTypeOK
  BY CallersDisjoint DEF InitPipe
<1>2. PipeTypeOK /\ [PipeNext]_pipeVars => PipeTypeOK'
  <2> SUFFICES ASSUME PipeTypeOK, [PipeNext]_pipeVars
               PROVE  PipeTypeOK'
    OBVIOUS
  <2>1. ASSUME NEW a \in Acceptors, AcceptCall(a)
        PROVE  PipeTypeOK'
    BY <2>1, CallersDisjoint DEF AcceptCall
  <2>2. ASSUME NEW a \in Acceptors, AcceptSelect(a)
        PROVE  PipeTypeOK'
    BY <2>2, CallersDisjoint DEF AcceptSelect, Handover
  <2>3. ASSUME NEW d \in Dialers, DialCheck(d)
        PROVE  PipeTypeOK'
    BY <2>3, CallersDisjoint DEF DialCheck
  <2>4. ASSUME NEW d \in Dialers, DialSelect(d)
        PROVE  PipeTypeOK'
    BY <2>4, CallersDisjoint DEF DialSelect, Handover
  <2>5. ASSUME NEW d \in Dialers, Cancel(d)
        PROVE  PipeTypeOK'
    BY <2>5, CallersDisjoint DEF Cancel
  <2>6. ASSUME NEW c \in Closers, CloseStep(c)
        PROVE  PipeTypeOK'
    <3>1. CASE CloseChannel(c)
      BY <3>1, CallersDisjoint DEF CloseChannel
    <3>2. CASE CloseLoad(c) \/ CloseLock(c) \/ CloseCheck(c) \/ CloseStore(c) \/ CloseUnlock(c)
      BY <3>2, CallersDisjoint
         DEF CloseLoad, CloseLock, CloseCheck, CloseStore, CloseUnlock
    <3> QED BY <2>6, <3>1, <3>2 DEF CloseStep
  <2>7. CASE UNCHANGED pipeVars
    BY <2>7 DEF pipeVars
  <2> QED
    BY <2>1, <2>2, <2>3, <2>4, <2>5, <2>6, <2>7 DEF PipeNext, AcceptStep, DialStep
<1> QED BY <1>1, <1>2, PTL DEF PipeSpec

-------------------------------------------------------------------------------
LEMMA PipeInit == InitPipe => PipeInv
<1>1. InitPipe => PipeTypeOK
  BY CallersDisjoint
     DEF InitPipe, PipeTypeOK, AcceptorPC, DialerPC, CloserPC, Callers
<1> QED
  BY <1>1 DEF InitPipe, PipeInv, NeverClosedTwice, MutexInv, DoneInv, OutcomeInv,
              NobodyParkedOnClosed, HoldingMutex, Won, Callers

\* A step of an acceptor, a dialer or a context leaves what the closers rely
\* on, and parks nobody on a closed channel.
LEMMA ConnStepInv ==
    ASSUME PipeInv, PipeTypeOK',
           \/ \E a \in Acceptors : AcceptStep(a)
           \/ \E d \in Dialers : DialStep(d) \/ Cancel(d)
    PROVE  PipeInv'
<1> USE CallersDisjoint DEF PipeInv, PipeTypeOK, Callers, MoveTo
<1>1. /\ UNCHANGED <<closed, done, mutex, panicked>>
      /\ \A c \in Closers : at'[c] = at[c]
  BY DEF AcceptStep, AcceptCall, AcceptSelect, DialStep, DialCheck, DialSelect,
         Cancel, Handover, ParkedIn
<1>2. MutexInv' /\ DoneInv' /\ OutcomeInv' /\ NeverClosedTwice'
  BY <1>1 DEF MutexInv, DoneInv, OutcomeInv, NeverClosedTwice
<1>3. NobodyParkedOnClosed'
  BY <1>1 DEF NobodyParkedOnClosed, AcceptStep, AcceptCall, AcceptSelect, DialStep,
              DialCheck, DialSelect, Cancel, Handover, ParkedIn
<1> QED BY <1>2, <1>3

LEMMA CloseStepInv ==
    ASSUME PipeInv, PipeTypeOK', NEW c \in Closers, CloseStep(c)
    PROVE  PipeInv'
<1> USE CallersDisjoint
    DEF PipeInv, PipeTypeOK, MutexInv, DoneInv, OutcomeInv, NobodyParkedOnClosed,
        NeverClosedTwice, Callers, MoveTo, HoldingMutex, Won
<1>1. CASE CloseLoad(c)    BY <1>1 DEF CloseLoad
<1>2. CASE CloseLock(c)    BY <1>2 DEF CloseLock
<1>3. CASE CloseCheck(c)   BY <1>3 DEF CloseCheck
<1>4. CASE CloseChannel(c)
  <2>1. /\ closed' = TRUE
        /\ UNCHANGED <<done, mutex>>
        /\ \A x \in Closers : at'[x] = IF x = c THEN "store" ELSE at[x]
        /\ \A x \in Acceptors \cup Dialers : at'[x] # "parked"
    BY <1>4 DEF CloseChannel, CloserPC, AcceptorPC, DialerPC
  <2>2. at[c] = "close" /\ ~closed /\ done = 0 /\ ~panicked'
    BY <1>4 DEF CloseChannel
  <2>3. MutexInv' /\ DoneInv'
    BY <2>1, <2>2
  <2>4. OutcomeInv'
    BY <2>1, <2>2
  <2> QED BY <2>1, <2>2, <2>3, <2>4
<1>5. CASE CloseStore(c)   BY <1>5 DEF CloseStore
<1>6. CASE CloseUnlock(c)  BY <1>6 DEF CloseUnlock
<1> QED BY <1>1, <1>2, <1>3, <1>4, <1>5, <1>6 DEF CloseStep

\* The inductive invariant.
THEOREM PipeInductive == PipeSpec => []PipeInv
<1>1. InitPipe => PipeInv
  BY PipeInit
<1>2. PipeInv /\ PipeTypeOK' /\ [PipeNext]_pipeVars => PipeInv'
  <2> SUFFICES ASSUME PipeInv, PipeTypeOK', [PipeNext]_pipeVars
               PROVE  PipeInv'
    OBVIOUS
  <2>1. CASE UNCHANGED pipeVars
    BY <2>1 DEF pipeVars, PipeInv, PipeTypeOK, MutexInv, DoneInv, OutcomeInv,
                NobodyParkedOnClosed, NeverClosedTwice
  <2>2. CASE PipeNext
    BY <2>2, ConnStepInv, CloseStepInv DEF PipeNext
  <2> QED BY <2>1, <2>2
<1> QED BY <1>1, <1>2, PipeTypeCorrect, PTL DEF PipeSpec

\* No interleaving of Close calls closes the channel twice (listener.go:40-47).
THEOREM NeverPanics == PipeSpec => []NeverClosedTwice
<1>1. PipeInv => NeverClosedTwice
  BY DEF PipeInv
<1> QED BY <1>1, PipeInductive, PTL

\* One Close succeeds, and whoever returned from Close left a closed listener.
THEOREM ReportsTruthfully == PipeSpec => []CloseReported
<1>1. PipeInv => CloseReported
  BY DEF PipeInv, OutcomeInv, DoneInv, CloseReported, Won
<1> QED BY <1>1, PipeInductive, PTL

\* No Accept and no DialContext is left parked on a closed listener.
THEOREM ReleasesParked == PipeSpec => []NobodyParkedOnClosed
<1>1. PipeInv => NobodyParkedOnClosed
  BY DEF PipeInv
<1> QED BY <1>1, PipeInductive, PTL

\* After close(l.close) no pipe changes hands.
THEOREM HandsOverOnlyOpen == PipeSpec => NoHandoverAfterClose
<1>1. PipeInv /\ [PipeNext]_pipeVars => [closed => peer' = peer]_pipeVars
  <2> SUFFICES ASSUME PipeInv, PipeNext, closed
               PROVE  peer' = peer
    BY DEF pipeVars
  <2>1. ParkedIn(Acceptors) = {} /\ ParkedIn(Dialers) = {}
    BY DEF PipeInv, NobodyParkedOnClosed, ParkedIn
  <2> QED
    BY <2>1 DEF PipeNext, AcceptStep, AcceptCall, AcceptSelect, DialStep, DialCheck,
                DialSelect, Cancel, CloseStep, CloseLoad, CloseLock, CloseCheck,
                CloseChannel, CloseStore, CloseUnlock
<1> QED BY <1>1, PipeInductive, PTL DEF PipeSpec, NoHandoverAfterClose

\* A call that meets a closed listener is one step from its return.
THEOREM OneStepToGo == PipeSpec => LastStep
<1>1. PipeInv /\ [PipeNext]_pipeVars =>
        [\A c \in Acceptors \cup Dialers :
           closed /\ at[c] # "idle" =>
             /\ at[c] # "parked"
             /\ at'[c] # at[c] => at'[c] \in {"errClosed", "errCtx"}]_pipeVars
  <2> SUFFICES ASSUME PipeInv, PipeNext, closed,
                      NEW c \in Acceptors \cup Dialers, at[c] # "idle", at'[c] # at[c]
               PROVE  at'[c] \in {"errClosed", "errCtx"}
    BY DEF PipeInv, NobodyParkedOnClosed, pipeVars
  <2> USE CallersDisjoint DEF PipeInv, PipeTypeOK, Callers, MoveTo
  <2>1. \A x \in Acceptors \cup Dialers : at[x] # "parked"
    BY DEF NobodyParkedOnClosed
  <2>2. ParkedIn(Acceptors) = {} /\ ParkedIn(Dialers) = {}
    BY <2>1 DEF ParkedIn
  <2>3. ASSUME NEW a \in Acceptors, AcceptStep(a)
        PROVE  at'[c] \in {"errClosed", "errCtx"}
    BY <2>2, <2>3 DEF AcceptStep, AcceptCall, AcceptSelect
  <2>4. ASSUME NEW d \in Dialers, DialStep(d) \/ Cancel(d)
        PROVE  at'[c] \in {"errClosed", "errCtx"}
    BY <2>1, <2>2, <2>4 DEF DialStep, DialCheck, DialSelect, Cancel
  <2>5. ASSUME NEW x \in Closers, CloseStep(x)
        PROVE  at'[c] = at[c]
    BY <2>1, <2>5 DEF CloseStep, CloseLoad, CloseLock, CloseCheck, CloseChannel,
                      CloseStore, CloseUnlock
  <2> QED BY <2>3, <2>4, <2>5 DEF PipeNext
<1> QED BY <1>1, PipeInductive, PTL DEF PipeSpec, LastStep

\* Close calls cannot block each other (listener.go:39-52).
THEOREM ClosesGoOn == PipeSpec => []SomeCloseGoesOn
<1>1. PipeInv => SomeCloseGoesOn
  BY DEF PipeInv, PipeTypeOK, MutexInv, HoldingMutex, SomeCloseGoesOn, ClosesOn
<1> QED BY <1>1, PipeInductive, PTL

\* Each accepted pipe is the pipe of exactly one dialer, and both ends returned.
THEOREM PairsEnds == PipeSpec => []ConnectionsPaired
<1> USE CallersDisjoint DEF ConnectionsPaired, Callers, MoveTo
<1>1. InitPipe => ConnectionsPaired
  BY DEF InitPipe
<1>2. ConnectionsPaired /\ PipeTypeOK /\ [PipeNext]_pipeVars => ConnectionsPaired'
  <2> SUFFICES ASSUME ConnectionsPaired, PipeTypeOK, [PipeNext]_pipeVars
               PROVE  ConnectionsPaired'
    OBVIOUS
  <2> USE DEF PipeTypeOK
  <2>1. ASSUME NEW a \in Acceptors, NEW d \in Dialers, Handover(a, d),
               at[a] # "conn", at[d] # "conn"
        PROVE  ConnectionsPaired'
    BY <2>1 DEF Handover
  <2>2. ASSUME NEW a \in Acceptors, AcceptStep(a)
        PROVE  ConnectionsPaired'
    BY <2>1, <2>2 DEF AcceptStep, AcceptCall, AcceptSelect, ParkedIn
  <2>3. ASSUME NEW d \in Dialers, DialStep(d)
        PROVE  ConnectionsPaired'
    BY <2>1, <2>3 DEF DialStep, DialCheck, DialSelect, ParkedIn
  <2>4. ASSUME NEW d \in Dialers, Cancel(d)
        PROVE  ConnectionsPaired'
    BY <2>4 DEF Cancel
  <2>5. ASSUME NEW c \in Closers, CloseStep(c)
        PROVE  ConnectionsPaired'
    <3>1. UNCHANGED peer
      BY <2>5 DEF CloseStep, CloseLoad, CloseLock, CloseCheck, CloseChannel,
                  CloseStore, CloseUnlock
    <3>2. \A x \in Acceptors \cup Dialers : at'[x] = "conn" <=> at[x] = "conn"
      BY <2>5 DEF CloseStep, CloseLoad, CloseLock, CloseCheck, CloseChannel,
                  CloseStore, CloseUnlock
    <3> QED BY <3>1, <3>2
  <2>6. CASE UNCHANGED pipeVars
    BY <2>6 DEF pipeVars
  <2> QED BY <2>2, <2>3, <2>4, <2>5, <2>6 DEF PipeNext
<1> QED BY <1>1, <1>2, PipeTypeCorrect, PTL DEF PipeSpec
-------------------------------------------------------------------------------
(***************************************************************************)
(* Every step of the listener is one of AtomicListener, or none: the       *)
(* linearization points are the handover, close(l.close), a select that    *)
(* finds the channel closed or its context ended, and the read of done.    *)
(***************************************************************************)
\* A step that moves one call and no pipe is, by what the call will now return,
\* no step, a refusal or a dialer that gives up.
LEMMA OneAnswer ==
    ASSUME NEW c \in Callers, DOMAIN at = Callers, DOMAIN at' = Callers,
           \A x \in Callers \ {c} : at'[x] = at[x],
           UNCHANGED <<closed, peer>>,
           \/ Answer(c)' = Answer(c)
           \/ closed /\ Answer(c) = "none" /\ Answer(c)' = "errClosed"
           \/ c \in Dialers /\ Answer(c) = "none" /\ Answer(c)' = "errCtx"
    PROVE  [Atomic!AtomicNext]_(Atomic!atomicVars)
<1> DEFINE f == [x \in Callers |-> Answer(x)]
<1>1. \A x \in Callers \ {c} : Answer(x)' = Answer(x)
  BY DEF Answer
<1>2. CASE Answer(c)' = Answer(c)
  <2>1. f' = f
    BY <1>1, <1>2
  <2> QED
    BY <2>1 DEF Atomic!atomicVars
<1>3. f' = [f EXCEPT ![c] = Answer(c)']
  BY <1>1
<1>4. CASE closed /\ Answer(c) = "none" /\ Answer(c)' = "errClosed"
  BY <1>3, <1>4 DEF Atomic!AtomicNext, Atomic!Refuse, Atomic!Waits, Callers
<1>5. CASE c \in Dialers /\ Answer(c) = "none" /\ Answer(c)' = "errCtx"
  BY <1>3, <1>5 DEF Atomic!AtomicNext, Atomic!GiveUp, Atomic!Waits, Callers
<1> QED
  BY <1>2, <1>4, <1>5

LEMMA MeetRefines ==
    ASSUME PipeTypeOK, NEW a \in Acceptors, NEW d \in Dialers, Handover(a, d), ~closed,
           at[a] \in {"select", "parked"}, at[d] \in {"select", "parked"}, UNCHANGED closed
    PROVE  Atomic!Connect(a, d)
<1> DEFINE f == [x \in Callers |-> Answer(x)]
<1>1. a \in Callers /\ d \in Callers /\ a # d
  BY CallersDisjoint DEF Callers
<1>2. Answer(a) = "none" /\ Answer(d) = "none"
  BY DEF Answer
<1>3. \A x \in Callers : at'[x] = IF x \in {a, d} THEN "conn" ELSE at[x]
  BY <1>1 DEF Handover, PipeTypeOK, Callers
<1>4. \A x \in Callers : Answer(x)' = IF x \in {a, d} THEN "conn" ELSE Answer(x)
  BY <1>3 DEF Answer
<1>5. f' = [f EXCEPT ![a] = "conn", ![d] = "conn"]
  BY <1>1, <1>4
<1> QED
  BY <1>1, <1>2, <1>5 DEF Atomic!Connect, Atomic!Waits, Handover

\* The listener is one whose calls are atomic.
THEOREM RefinesListener == PipeSpec => ImplementsListener
<1>1. InitPipe => Atomic!AtomicInit
  BY DEF InitPipe, Atomic!AtomicInit, Answer, Callers
<1>2. PipeInv /\ PipeTypeOK' /\ [PipeNext]_pipeVars => [Atomic!AtomicNext]_(Atomic!atomicVars)
  <2> SUFFICES ASSUME PipeInv, PipeTypeOK', [PipeNext]_pipeVars
               PROVE  [Atomic!AtomicNext]_(Atomic!atomicVars)
    OBVIOUS
  <2>1. DOMAIN at = Callers /\ DOMAIN at' = Callers /\ PipeTypeOK
    BY DEF PipeInv, PipeTypeOK, Callers
  <2>2. ASSUME NEW c \in Callers, NEW l, MoveTo(c, l)
        PROVE  /\ \A x \in Callers \ {c} : at'[x] = at[x]
               /\ at'[c] = l
    BY <2>1, <2>2 DEF MoveTo
  <2>3. Acceptors \subseteq Callers /\ Dialers \subseteq Callers /\ Closers \subseteq Callers
    BY DEF Callers
  <2>4. ASSUME NEW a \in Acceptors, AcceptStep(a)
        PROVE  [Atomic!AtomicNext]_(Atomic!atomicVars)
    <3>1. ASSUME NEW d \in ParkedIn(Dialers), Handover(a, d), at[a] = "select", UNCHANGED closed
          PROVE  Atomic!Connect(a, d)
      BY <2>1, <3>1, MeetRefines DEF ParkedIn, PipeInv, NobodyParkedOnClosed
    <3>2. ASSUME NEW d \in ParkedIn(Dialers), Handover(a, d), at[a] = "select", UNCHANGED closed
          PROVE  Atomic!AtomicNext
      BY <3>1, <3>2 DEF Atomic!AtomicNext, ParkedIn
    <3>3. ASSUME NEW l \in {"select", "parked", "errClosed"}, MoveTo(a, l), UNCHANGED <<closed, peer>>,
                 at[a] \in {"idle", "select"}, l = "errClosed" => closed
          PROVE  [Atomic!AtomicNext]_(Atomic!atomicVars)
      <4>1. Answer(a) = "none" /\ Answer(a)' = IF l = "errClosed" THEN l ELSE "none"
        BY <2>2, <2>3, <3>3 DEF Answer
      <4>2. \A x \in Callers \ {a} : at'[x] = at[x]
        BY <2>2, <2>3, <3>3
      <4> QED
        BY <2>1, <2>3, <3>3, <4>1, <4>2, OneAnswer
    <3> QED
      BY <2>4, <3>2, <3>3 DEF AcceptStep, AcceptCall, AcceptSelect
  <2>5. ASSUME NEW d \in Dialers, DialStep(d) \/ Cancel(d)
        PROVE  [Atomic!AtomicNext]_(Atomic!atomicVars)
    <3>1. ASSUME NEW a \in ParkedIn(Acceptors), Handover(a, d), at[d] = "select", UNCHANGED closed
          PROVE  Atomic!Connect(a, d)
      BY <2>1, <3>1, MeetRefines DEF ParkedIn, PipeInv, NobodyParkedOnClosed
    <3>2. ASSUME NEW a \in ParkedIn(Acceptors), Handover(a, d), at[d] = "select", UNCHANGED closed
          PROVE  Atomic!AtomicNext
      BY <3>1, <3>2 DEF Atomic!AtomicNext, ParkedIn
    <3>3. ASSUME NEW l \in {"select", "parked", "errClosed", "errCtx"}, MoveTo(d, l),
                 UNCHANGED <<closed, peer>>,
                 at[d] \in {"idle", "select"}, l = "errClosed" => closed
          PROVE  [Atomic!AtomicNext]_(Atomic!atomicVars)
      <4>1. Answer(d) = "none" /\ Answer(d)' = IF l \in {"errClosed", "errCtx"} THEN l ELSE "none"
        BY <2>2, <2>3, <3>3 DEF Answer
      <4>2. \A x \in Callers \ {d} : at'[x] = at[x]
        BY <2>2, <2>3, <3>3
      <4> QED
        BY <2>1, <2>3, <3>3, <4>1, <4>2, OneAnswer
    <3>4. CASE Cancel(d)
      <4>1. /\ \A x \in Callers \ {d} : at'[x] = at[x]
            /\ at'[d] = IF at[d] = "parked" THEN "errCtx" ELSE at[d]
            /\ UNCHANGED <<closed, peer>>
        BY <2>1, <2>3, <3>4 DEF Cancel
      <4>2. \/ Answer(d)' = Answer(d)
            \/ Answer(d) = "none" /\ Answer(d)' = "errCtx"
        BY <4>1 DEF Answer
      <4> QED
        BY <2>1, <2>3, <4>1, <4>2, OneAnswer
    <3>5. done = 0 \/ closed
      BY DEF PipeInv, DoneInv, PipeTypeOK
    <3>6. CASE DialStep(d)
      BY <3>2, <3>3, <3>5, <3>6 DEF DialStep, DialCheck, DialSelect
    <3> QED
      BY <2>5, <3>4, <3>6
  <2>6. ASSUME NEW c \in Closers, CloseStep(c)
        PROVE  [Atomic!AtomicNext]_(Atomic!atomicVars)
    <3>1. CASE CloseChannel(c)
      <4>1. ~closed /\ closed'
        BY <3>1 DEF CloseChannel, PipeInv, DoneInv
      <4>2. \A x \in Callers : at'[x] = IF x = c THEN "store"
                                        ELSE IF at[x] = "parked" THEN "errClosed" ELSE at[x]
        BY <3>1 DEF CloseChannel
      <4>3. Answer(c) = "none" /\ Answer(c)' = "nil"
        BY <2>3, <3>1, <4>2 DEF CloseChannel, Answer
      <4> DEFINE told == {x \in Acceptors \cup Dialers : at[x] = "parked"}
                 f == [x \in Callers |-> Answer(x)]
      <4>4. \A x \in Callers : x # c => Answer(x)' = IF x \in told THEN "errClosed" ELSE Answer(x)
        <5> SUFFICES ASSUME NEW x \in Callers, x # c
                     PROVE  Answer(x)' = IF x \in told THEN "errClosed" ELSE Answer(x)
          OBVIOUS
        <5>1. at[x] = "parked" <=> x \in told
          BY <2>1 DEF PipeTypeOK, CloserPC, Callers
        <5> QED
          BY <4>2, <5>1 DEF Answer
      <4>5. \A x \in told : Answer(x) = "none"
        BY DEF Answer
      <4>6. f' = [x \in DOMAIN f |-> IF x = c THEN "nil"
                                     ELSE IF x \in told THEN "errClosed" ELSE f[x]]
        BY <4>3, <4>4
      <4>7. told \in SUBSET {x \in Acceptors \cup Dialers : f[x] = "none"}
        BY <2>3, <4>5
      <4>8. f[c] = "none" /\ UNCHANGED peer
        BY <2>3, <3>1, <4>3 DEF CloseChannel
      <4>9. Atomic!Shut(c)
        BY <4>1, <4>6, <4>7, <4>8 DEF Atomic!Shut, Atomic!Waits
      <4> QED
        BY <4>9 DEF Atomic!AtomicNext
    <3>2. CASE ~CloseChannel(c)
      <4>1. /\ \A x \in Callers \ {c} : at'[x] = at[x]
            /\ UNCHANGED <<closed, peer>>
        BY <2>2, <2>3, <2>6, <3>2
           DEF CloseStep, CloseLoad, CloseLock, CloseCheck, CloseStore, CloseUnlock
      <4>2. done = 0 \/ closed
        BY DEF PipeInv, DoneInv, PipeTypeOK
      <4>3. \/ at[c] = "idle" /\ at'[c] = IF done = 0 THEN "lock" ELSE "errClosed"
            \/ at[c] = "lock" /\ at'[c] = "check"
            \/ at[c] = "check" /\ at'[c] = IF done = 0 THEN "close" ELSE "unlockErr"
            \/ at[c] = "store" /\ at'[c] = "unlock"
            \/ at[c] = "unlock" /\ at'[c] = "nil"
            \/ at[c] = "unlockErr" /\ at'[c] = "errClosed"
        BY <2>2, <2>3, <2>6, <3>2
           DEF CloseStep, CloseLoad, CloseLock, CloseCheck, CloseStore, CloseUnlock
      <4>4. \/ Answer(c)' = Answer(c)
            \/ closed /\ Answer(c) = "none" /\ Answer(c)' = "errClosed"
        BY <4>2, <4>3 DEF Answer
      <4> QED
        BY <2>1, <2>3, <4>1, <4>4, OneAnswer
    <3> QED
      BY <3>1, <3>2
  <2>7. CASE UNCHANGED pipeVars
    BY <2>7 DEF pipeVars, Atomic!atomicVars, Answer
  <2> QED
    BY <2>4, <2>5, <2>6, <2>7 DEF PipeNext
<1> QED
  BY <1>1, <1>2, PipeTypeCorrect, PipeInductive, PTL
     DEF PipeSpec, ImplementsListener, Atomic!AtomicSpec
-------------------------------------------------------------------------------
(***************************************************************************)
(* The log cache, for any number of goroutines and any sizes of channel and *)
(* buffer: the bytes reach the writer in order, the handshake of Sync is   *)
(* exclusive, a frozen cache stays frozen, and every step is one of AsyncLog. *)
(***************************************************************************)
\* TypeOK in two halves: the counters and program counters, the sequences.
ControlTypes ==
    /\ pc \in [Threads -> {"idle"} \cup WritePC \cup SyncPC]
    /\ line \in [Threads -> 0..MaxLine]
    /\ lock \in SUBSET Threads
    /\ sync \in 0..1 /\ signal \in 0..1
    /\ rpc \in {"take", "fill", "poll", "ack", "write"}
    /\ sent \in Nat /\ calls \in 0..MaxCalls

BufferTypes ==
    /\ ch \in Seq(Seq(Nat)) /\ Len(ch) <= ChanCap
    /\ rbuffer \in Seq(Nat)
    /\ p \in Seq(Nat) /\ Len(p) <= BufferSize
    /\ out \in Seq(Nat)

LEMMA TypeSplit == CacheTypeOK <=> ControlTypes /\ BufferTypes
  BY DEF CacheTypeOK, ControlTypes, BufferTypes

LEMMA RanksSeq ==
    ASSUME NEW k \in Nat, NEW n \in Nat
    PROVE  /\ Ranks(k, n) \in Seq(Nat)
           /\ Len(Ranks(k, n)) = n
           /\ \A i \in 1..n : Ranks(k, n)[i] = k + i
<1>1. Ranks(k, n) \in [1..n -> Nat]
  BY DEF Ranks
<1>2. Ranks(k, n) \in Seq(Nat)
  BY <1>1, SeqDef
<1> QED BY <1>1, <1>2, LenProperties DEF Ranks

\* What one turn of the copy loop does when r.buffer holds bytes.
LEMMA CopyStep ==
    ASSUME BufferTypes, Fill, rbuffer # <<>>, BufferSize \in Nat
    PROVE  /\ Copied \in 1..Len(rbuffer)
           /\ Len(p) + Copied <= BufferSize
           /\ p' \in Seq(Nat) /\ Len(p') = Len(p) + Copied
           /\ \A i \in 1..Len(p') :
                p'[i] = IF i <= Len(p) THEN p[i] ELSE rbuffer[i - Len(p)]
           /\ rbuffer' \in Seq(Nat) /\ Len(rbuffer') = Len(rbuffer) - Copied
           /\ \A i \in 1..Len(rbuffer') : rbuffer'[i] = rbuffer[i + Copied]
           /\ UNCHANGED <<ch, out, sent>>
<1> DEFINE a == SubSeq(rbuffer, 1, Copied)
           b == SubSeq(rbuffer, Copied + 1, Len(rbuffer))
<1>1. /\ p' = p \o a
      /\ rbuffer' = b
      /\ UNCHANGED <<ch, out, sent>>
      /\ Room > 0
  BY DEF Fill
<1>2. Len(rbuffer) \in Nat \ {0} /\ Len(p) \in Nat
  BY EmptySeq, LenProperties DEF BufferTypes
<1>3. Copied \in 1..Len(rbuffer) /\ Len(p) + Copied <= BufferSize
  BY <1>1, <1>2 DEF Copied, Room
<1> HIDE DEF Copied
<1>4. \A i \in 1..Len(rbuffer) : rbuffer[i] \in Nat
  BY ElementOfSeq DEF BufferTypes
<1>5. /\ a \in Seq(Nat) /\ Len(a) = Copied
      /\ \A i \in 1..Copied : a[i] = rbuffer[i]
  <2>1. \A i \in 1..Copied : rbuffer[i] \in Nat
    BY <1>3, <1>4
  <2> QED BY <1>3, <2>1, SubSeqProperties
<1>6. /\ b \in Seq(Nat) /\ Len(b) = Len(rbuffer) - Copied
      /\ \A i \in 1..Len(rbuffer) - Copied : b[i] = rbuffer[i + Copied]
  <2>1. \A i \in Copied + 1 .. Len(rbuffer) : rbuffer[i] \in Nat
    BY <1>3, <1>4
  <2>2. /\ b \in Seq(Nat)
        /\ Len(b) = IF Copied + 1 <= Len(rbuffer) THEN Len(rbuffer) - (Copied + 1) + 1 ELSE 0
        /\ \A i \in 1..Len(rbuffer) - (Copied + 1) + 1 : b[i] = rbuffer[Copied + 1 + i - 1]
    BY <1>2, <1>3, <2>1, SubSeqProperties
  <2> HIDE DEF b
  <2> QED BY <1>2, <1>3, <2>2
<1> HIDE DEF a, b
<1>7. /\ p' \in Seq(Nat) /\ Len(p') = Len(p) + Copied
      /\ \A i \in 1..Len(p') : p'[i] = IF i <= Len(p) THEN p[i] ELSE a[i - Len(p)]
  <2>1. p \in Seq(Nat) /\ a \in Seq(Nat)
    BY <1>5 DEF BufferTypes
  <2>2. /\ p \o a \in Seq(Nat)
        /\ Len(p \o a) = Len(p) + Len(a)
        /\ \A i \in 1..Len(p) + Len(a) :
             (p \o a)[i] = IF i <= Len(p) THEN p[i] ELSE a[i - Len(p)]
    BY <2>1, ConcatProperties
  <2> QED BY <1>1, <1>5, <2>2
<1>8. \A i \in 1..Len(p') : i > Len(p) => a[i - Len(p)] = rbuffer[i - Len(p)]
  BY <1>2, <1>3, <1>5, <1>7
<1>9. \A i \in 1..Len(p') : p'[i] = IF i <= Len(p) THEN p[i] ELSE rbuffer[i - Len(p)]
  <2> SUFFICES ASSUME NEW i \in 1..Len(p')
               PROVE  p'[i] = IF i <= Len(p) THEN p[i] ELSE rbuffer[i - Len(p)]
    OBVIOUS
  <2>1. p'[i] = IF i <= Len(p) THEN p[i] ELSE a[i - Len(p)]
    BY <1>7
  <2>2. ~(i <= Len(p)) => i > Len(p)
    BY <1>2
  <2> QED BY <1>8, <2>1, <2>2
<1>10. /\ rbuffer' \in Seq(Nat) /\ Len(rbuffer') = Len(rbuffer) - Copied
       /\ \A i \in 1..Len(rbuffer') : rbuffer'[i] = rbuffer[i + Copied]
  BY <1>1, <1>6
<1> QED BY <1>1, <1>3, <1>7, <1>9, <1>10

\* Take and the other turn of the loop receive the oldest line.
Receive ==
    /\ rbuffer = <<>> /\ ch # <<>>
    /\ rbuffer' = Head(ch) /\ ch' = Tail(ch)
    /\ UNCHANGED <<p, out, sent>>

LEMMA ReceiveStep ==
    ASSUME BufferTypes, Receive
    PROVE  /\ BufferTypes'
           /\ rbuffer' = ch[1]
           /\ Len(ch') = Len(ch) - 1
           /\ \A i \in 1..Len(ch') : ch'[i] = ch[i + 1]
<1>1. /\ rbuffer' \in Seq(Nat) /\ rbuffer' = ch[1]
      /\ ch' \in Seq(Seq(Nat))
      /\ Len(ch') = Len(ch) - 1
      /\ \A i \in 1..Len(ch') : ch'[i] = ch[i + 1]
  BY HeadTailProperties DEF BufferTypes, Receive
<1>2. Len(ch) \in Nat
  BY LenProperties DEF BufferTypes
<1> QED BY <1>1, <1>2, SizesPositive DEF BufferTypes, Receive

\* Every state is well typed: in particular the channel and l.buffer respect
\* their capacities.
THEOREM CacheTypeCorrect == CacheSpec => []CacheTypeOK
<1>1. InitCache => CacheTypeOK
  BY SizesPositive, EmptySeq DEF InitCache, CacheTypeOK
<1>2. CacheTypeOK /\ [CacheNext]_cacheVars => CacheTypeOK'
  <2> SUFFICES ASSUME ControlTypes, BufferTypes, [CacheNext]_cacheVars
               PROVE  ControlTypes' /\ BufferTypes'
    <3>1. CacheTypeOK' <=> ControlTypes' /\ BufferTypes'
      BY DEF CacheTypeOK, ControlTypes, BufferTypes
    <3> QED BY <3>1, TypeSplit
  <2>1. ASSUME NEW t \in Threads, Enter(t) \/ Lock(t) \/ Unlock(t) \/ RequestSync(t) \/ Answered(t)
        PROVE  ControlTypes' /\ BufferTypes'
    <3>1. UNCHANGED <<ch, rbuffer, p, out>>
      BY <2>1 DEF Enter, Lock, Unlock, RequestSync, Answered, readVars
    <3>2. BufferTypes'
      BY <3>1 DEF BufferTypes
    <3>3. ControlTypes'
      BY <2>1, SizesPositive
         DEF Enter, Lock, Unlock, RequestSync, Answered, ControlTypes, WritePC, SyncPC,
             Goto, readVars
    <3> QED BY <3>2, <3>3
  <2>2. ASSUME NEW t \in Threads, Push(t)
        PROVE  ControlTypes' /\ BufferTypes'
    <3>1. line[t] \in Nat /\ sent \in Nat
      BY SizesPositive DEF ControlTypes
    <3>2. ControlTypes'
      BY <2>2, <3>1 DEF Push, ControlTypes, WritePC, SyncPC, Goto, readVars
    <3>3. ch' \in Seq(Seq(Nat)) /\ Len(ch') = Len(ch) + 1
      <4>1. Ranks(sent, line[t]) \in Seq(Nat)
        BY <3>1, RanksSeq
      <4>2. ch' = Append(ch, Ranks(sent, line[t])) /\ ch \in Seq(Seq(Nat))
        BY <2>2 DEF Push, BufferTypes
      <4> QED BY <4>1, <4>2, AppendProperties
    <3>4. Len(ch) \in Nat /\ Len(ch) < ChanCap
      BY <2>2, LenProperties DEF Push, BufferTypes
    <3> QED BY <2>2, <3>2, <3>3, <3>4, SizesPositive DEF Push, BufferTypes, readVars
  <2>3. CASE Run
    <3>1. ControlTypes'
      BY <2>3 DEF Run, Take, Fill, FillEnds, Poll, Ack, WriteOut, ControlTypes, callVars
    <3>2. CASE (Take /\ rbuffer # <<>>) \/ FillEnds \/ Poll \/ Ack
      BY <3>1, <3>2 DEF Take, FillEnds, Poll, Ack, BufferTypes, callVars
    <3>3. CASE (Take \/ Fill) /\ rbuffer = <<>>
      BY <3>1, <3>3, ReceiveStep DEF Take, Fill, Receive, callVars
    <3>4. CASE Fill /\ rbuffer # <<>>
      BY <3>1, <3>4, CopyStep, SizesPositive DEF BufferTypes
    <3>5. CASE WriteOut
      BY <3>1, <3>5, ConcatProperties, EmptySeq, SizesPositive DEF WriteOut, BufferTypes, callVars
    <3> QED BY <2>3, <3>2, <3>3, <3>4, <3>5 DEF Run
  <2>4. CASE UNCHANGED cacheVars
    BY <2>4 DEF cacheVars, ControlTypes, BufferTypes
  <2> QED
    BY <2>1, <2>2, <2>3, <2>4 DEF CacheNext, Proceed
<1> QED BY <1>1, <1>2, PTL DEF CacheSpec

-------------------------------------------------------------------------------
\* l.Mutex excludes, and its holder is the goroutine inside its critical
\* section.
LockInv ==
    /\ \A t \in Threads : t \in lock <=> pc[t] \in Holding
    /\ \A t, u \in lock : t = u

\* Exactly one of: no Sync waits; its request is buffered; run is about to
\* answer; the answer is buffered.
HandshakeInv ==
    LET asked == IF sync = 1 THEN 1 ELSE 0
        taken == IF rpc = "ack" THEN 1 ELSE 0
        given == IF signal = 1 THEN 1 ELSE 0
    IN  asked + taken + given = IF \E t \in lock : pc[t] = "answer" THEN 1 ELSE 0

\* The mutex and the handshake hold in every state.
THEOREM Handshake == CacheSpec => [](LockInv /\ HandshakeInv)
<1> USE SizesPositive
    DEF CacheTypeOK, LockInv, HandshakeInv, WritePC, SyncPC, Holding, Goto, callVars, readVars
<1>1. InitCache => LockInv /\ HandshakeInv
  BY DEF InitCache
<1>2. CacheTypeOK /\ LockInv /\ HandshakeInv /\ [CacheNext]_cacheVars => (LockInv /\ HandshakeInv)'
  <2> SUFFICES ASSUME CacheTypeOK, LockInv, HandshakeInv, [CacheNext]_cacheVars
               PROVE  LockInv' /\ HandshakeInv'
    OBVIOUS
  <2>1. ASSUME NEW t \in Threads, Enter(t)
        PROVE  LockInv' /\ HandshakeInv'
    BY <2>1 DEF Enter
  <2>2. ASSUME NEW t \in Threads, Lock(t)
        PROVE  LockInv' /\ HandshakeInv'
    BY <2>2 DEF Lock
  <2>3. ASSUME NEW t \in Threads, Push(t)
        PROVE  LockInv' /\ HandshakeInv'
    BY <2>3 DEF Push
  <2>4. ASSUME NEW t \in Threads, Unlock(t)
        PROVE  LockInv' /\ HandshakeInv'
    BY <2>4 DEF Unlock
  <2>5. ASSUME NEW t \in Threads, RequestSync(t)
        PROVE  LockInv' /\ HandshakeInv'
    BY <2>5 DEF RequestSync
  <2>6. ASSUME NEW t \in Threads, Answered(t)
        PROVE  LockInv' /\ HandshakeInv'
    BY <2>6 DEF Answered
  <2>7. CASE Run
    <3>1. UNCHANGED <<pc, lock>>
      BY <2>7 DEF Run, Take, Fill, FillEnds, Poll, Ack, WriteOut
    <3>2. CASE Take \/ Fill \/ FillEnds \/ WriteOut
      <4>1. rpc # "ack" /\ rpc' # "ack" /\ UNCHANGED <<sync, signal>>
        BY <3>2 DEF Take, Fill, FillEnds, WriteOut
      <4> QED BY <3>1, <4>1
    <3>3. CASE Poll
      BY <3>1, <3>3 DEF Poll
    <3>4. CASE Ack
      BY <3>1, <3>4 DEF Ack
    <3> QED BY <2>7, <3>2, <3>3, <3>4 DEF Run
  <2>8. CASE UNCHANGED cacheVars
    BY <2>8 DEF cacheVars
  <2> QED
    BY <2>1, <2>2, <2>3, <2>4, <2>5, <2>6, <2>7, <2>8 DEF CacheNext, Proceed
<1> QED BY <1>1, <1>2, CacheTypeCorrect, PTL DEF CacheSpec

\* An answer buffered in l.signal is the answer the holder of the mutex is
\* waiting for, and run always finds room for it.
THEOREM AnswersMatch == CacheSpec => []AnswerBelongsToWaiter
<1>1. CacheTypeOK /\ LockInv /\ HandshakeInv => AnswerBelongsToWaiter
  BY DEF CacheTypeOK, HandshakeInv, AnswerBelongsToWaiter
<1> QED BY <1>1, CacheTypeCorrect, Handshake, PTL

\* A Sync that waits while run is parked on the empty channel holds the mutex
\* for ever, and with it stops every later Write (cache.go:31-38, 83-88).
THEOREM FreezeIsPermanent == CacheSpec => FrozenForever
<1>1. CacheTypeOK /\ LockInv /\ [CacheNext]_cacheVars => [Frozen => Frozen']_cacheVars
  <2> SUFFICES ASSUME CacheTypeOK, LockInv, CacheNext, Frozen
               PROVE  Frozen'
    BY DEF cacheVars
  <2> USE DEF CacheTypeOK, LockInv, Frozen, Holding, Goto, callVars, readVars
  <2>1. PICK s \in lock : pc[s] = "answer"
    OBVIOUS
  <2>2. CASE Run
    BY <2>2 DEF Run, Take, Fill, FillEnds, Poll, Ack, WriteOut
  <2>3. ASSUME NEW t \in Threads, Enter(t) \/ Lock(t)
        PROVE  Frozen'
    BY <2>1, <2>3 DEF Enter, Lock
  <2>4. ASSUME NEW t \in Threads, Proceed(t)
        PROVE  Frozen'
    BY <2>1, <2>4 DEF Proceed, Push, Unlock, RequestSync, Answered
  <2> QED BY <2>2, <2>3, <2>4 DEF CacheNext
<1> QED BY <1>1, CacheTypeCorrect, Handshake, PTL DEF CacheSpec, FrozenForever

-------------------------------------------------------------------------------
\* s holds the bytes after the first k, in order.
Follows(s, k) == \A i \in 1..Len(s) : s[i] = k + i

\* How many bytes have left the channel.
Gone == Len(out) + Len(p) + Len(rbuffer)

\* The lines of the channel are consecutive pieces of the stream that starts
\* where r.buffer ends and ends with the last byte sent.
ChannelInv ==
    /\ \A j \in 1..Len(ch) : Len(ch[j]) > 0 /\ Follows(ch[j], ch[j][1] - 1)
    /\ \A j \in 1..Len(ch) - 1 : ch[j + 1][1] = ch[j][1] + Len(ch[j])
    /\ \A j \in 1..Len(ch) : ch[j][1] - 1 + Len(ch[j]) <= sent
    /\ Len(ch) = 0 => sent = Gone
    /\ Len(ch) > 0 => /\ ch[1][1] = Gone + 1
                     /\ sent = ch[Len(ch)][1] - 1 + Len(ch[Len(ch)])

\* A line that is pushed is not empty.
PushInv == \A t \in Threads : pc[t] = "push" => line[t] > 0

\* Everything that was sent is in exactly one place, in order.
StreamInv ==
    /\ PushInv
    /\ Follows(out, 0)
    /\ Follows(p, Len(out))
    /\ Follows(rbuffer, Len(out) + Len(p))
    /\ ChannelInv

LEMMA GoneBound ==
    ASSUME BufferTypes, sent \in Nat, ChannelInv
    PROVE  Gone \in Nat /\ Len(out) <= Gone /\ Gone <= sent
<1>1. Len(out) \in Nat /\ Len(p) \in Nat /\ Len(rbuffer) \in Nat /\ Len(ch) \in Nat
  BY LenProperties DEF BufferTypes
<1>2. Gone \in Nat /\ Len(out) <= Gone
  BY <1>1 DEF Gone
<1>3. CASE Len(ch) = 0
  BY <1>2, <1>3 DEF ChannelInv
<1>4. CASE Len(ch) > 0
  <2>1. 1 \in 1..Len(ch) /\ ch[1] \in Seq(Nat)
    BY <1>1, <1>4, ElementOfSeq DEF BufferTypes
  <2>2. Len(ch[1]) \in Nat
    BY <2>1, LenProperties
  <2>3. ch[1][1] = Gone + 1 /\ ch[1][1] - 1 + Len(ch[1]) <= sent
    BY <1>4, <2>1 DEF ChannelInv
  <2>4. Gone + Len(ch[1]) <= sent
    <3> HIDE DEF Gone
    <3>1. ch[1][1] - 1 = Gone
      BY <1>2, <2>3
    <3> QED BY <2>3, <3>1
  <2> QED BY <1>2, <2>2, <2>4
<1> QED BY <1>1, <1>2, <1>3, <1>4

THEOREM Stream == CacheSpec => []StreamInv
<1>1. InitCache => StreamInv
  BY DEF InitCache, StreamInv, ChannelInv, Follows, Gone, PushInv
<1>2. ASSUME CacheTypeOK, StreamInv, [CacheNext]_cacheVars
      PROVE  StreamInv'
  <2>1. ControlTypes /\ BufferTypes
    BY <1>2, TypeSplit
  <2>2. /\ Len(out) \in Nat /\ Len(p) \in Nat /\ Len(rbuffer) \in Nat
        /\ Len(ch) \in Nat /\ sent \in Nat
        /\ \A j \in 1..Len(ch) : ch[j] \in Seq(Nat)
    BY <2>1, LenProperties, ElementOfSeq DEF BufferTypes, ControlTypes
  <2>3. PushInv'
    <3>1. CASE UNCHANGED <<pc, line>>
      BY <1>2, <3>1 DEF PushInv, StreamInv
    <3>2. ASSUME NEW t \in Threads,
                 Enter(t) \/ Lock(t) \/ Push(t) \/ Unlock(t) \/ RequestSync(t) \/ Answered(t)
          PROVE  PushInv'
      BY <1>2, <2>1, <3>2
         DEF PushInv, StreamInv, ControlTypes, Enter, Lock, Push, Unlock, RequestSync,
             Answered, Goto
    <3> QED
      BY <1>2, <3>1, <3>2
         DEF CacheNext, Run, Proceed, Take, Fill, FillEnds, Poll, Ack, WriteOut, cacheVars, callVars
  <2>4. CASE UNCHANGED <<ch, rbuffer, p, out, sent>>
    BY <1>2, <2>3, <2>4 DEF StreamInv, ChannelInv, Follows, Gone
  <2>5. ASSUME NEW t \in Threads, Push(t)
        PROVE  StreamInv'
    <3> DEFINE new == Ranks(sent, line[t])
    <3>1. line[t] \in Nat \ {0}
      BY <1>2, <2>1, <2>5, SizesPositive DEF ControlTypes, Push, StreamInv, PushInv
    <3>2. /\ new \in Seq(Nat) /\ Len(new) = line[t]
          /\ \A i \in 1..Len(new) : new[i] = sent + i
      BY <2>2, <3>1, RanksSeq
    <3>3. /\ ch' = Append(ch, new) /\ sent' = sent + line[t]
          /\ UNCHANGED <<rbuffer, p, out>>
      BY <2>5 DEF Push, readVars
    <3> HIDE DEF new
    <3>4. /\ Len(ch') = Len(ch) + 1
          /\ \A j \in 1..Len(ch) : ch'[j] = ch[j]
          /\ ch'[Len(ch) + 1] = new
      BY <2>1, <3>2, <3>3, AppendProperties DEF BufferTypes
    <3>5. Gone \in Nat /\ Gone' = Gone /\ Gone <= sent
      <4>1. Gone' = Gone
        BY <3>3 DEF Gone
      <4> QED BY <1>2, <2>1, <2>2, <4>1, GoneBound DEF StreamInv
    <3>6. /\ new[1] = sent + 1 /\ Len(new) > 0
          /\ Follows(new, new[1] - 1)
      <4>1. Len(new) > 0 /\ 1 \in 1..Len(new)
        BY <3>1, <3>2
      <4>2. new[1] = sent + 1
        BY <3>2, <4>1
      <4>3. new[1] - 1 = sent
        BY <2>2, <4>2
      <4> QED BY <3>2, <4>1, <4>2, <4>3 DEF Follows
    <3>7. \A j \in 1..Len(ch') :
             \/ j \in 1..Len(ch) /\ ch'[j] = ch[j]
             \/ j = Len(ch) + 1 /\ ch'[j] = new
      BY <2>2, <3>4
    <3>8. \A j \in 1..Len(ch') : Len(ch'[j]) > 0 /\ Follows(ch'[j], ch'[j][1] - 1)
      <4> SUFFICES ASSUME NEW j \in 1..Len(ch')
                   PROVE  Len(ch'[j]) > 0 /\ Follows(ch'[j], ch'[j][1] - 1)
        OBVIOUS
      <4>1. CASE j \in 1..Len(ch) /\ ch'[j] = ch[j]
        <5>1. Len(ch[j]) > 0 /\ Follows(ch[j], ch[j][1] - 1)
          BY <1>2, <4>1 DEF StreamInv, ChannelInv
        <5> QED BY <4>1, <5>1
      <4>2. CASE ch'[j] = new
        BY <3>6, <4>2
      <4> QED BY <3>7, <4>1, <4>2
    <3>9. \A j \in 1..Len(ch') - 1 : ch'[j + 1][1] = ch'[j][1] + Len(ch'[j])
      <4> SUFFICES ASSUME NEW j \in 1..Len(ch') - 1
                   PROVE  ch'[j + 1][1] = ch'[j][1] + Len(ch'[j])
        OBVIOUS
      <4>1. j \in 1..Len(ch) /\ ch'[j] = ch[j]
        BY <2>2, <3>4
      <4>2. CASE j < Len(ch)
        <5>1. j \in 1..Len(ch) - 1 /\ j + 1 \in 1..Len(ch) /\ ch'[j + 1] = ch[j + 1]
          BY <2>2, <3>4, <4>1, <4>2
        <5>2. ch[j + 1][1] = ch[j][1] + Len(ch[j])
          BY <1>2, <5>1 DEF StreamInv, ChannelInv
        <5> QED BY <4>1, <5>1, <5>2
      <4>3. CASE j = Len(ch)
        <5>1. ch[j] \in Seq(Nat) /\ Len(ch[j]) > 0 /\ sent = ch[j][1] - 1 + Len(ch[j])
          BY <1>2, <2>2, <4>1, <4>3 DEF StreamInv, ChannelInv
        <5>2. Len(ch[j]) \in Nat /\ ch[j][1] \in Nat
          BY <5>1, LenProperties, ElementOfSeq
        <5>3. sent + 1 = ch[j][1] + Len(ch[j])
          BY <5>1, <5>2
        <5> QED BY <3>4, <3>6, <4>1, <4>3, <5>3
      <4> QED BY <2>2, <4>1, <4>2, <4>3
    <3>10. \A j \in 1..Len(ch') : ch'[j][1] - 1 + Len(ch'[j]) <= sent'
      <4> SUFFICES ASSUME NEW j \in 1..Len(ch')
                   PROVE  ch'[j][1] - 1 + Len(ch'[j]) <= sent'
        OBVIOUS
      <4>1. CASE j \in 1..Len(ch) /\ ch'[j] = ch[j]
        <5>1. ch[j][1] - 1 + Len(ch[j]) <= sent
          BY <1>2, <4>1 DEF StreamInv, ChannelInv
        <5>2. ch[j] \in Seq(Nat) /\ Len(ch[j]) > 0
          BY <1>2, <2>2, <4>1 DEF StreamInv, ChannelInv
        <5>3. Len(ch[j]) \in Nat /\ ch[j][1] \in Nat
          BY <5>2, LenProperties, ElementOfSeq
        <5>4. ch[j][1] - 1 + Len(ch[j]) <= sent + line[t]
          BY SMTT(30), <2>2, <3>1, <5>1, <5>3
        <5> QED BY <3>3, <4>1, <5>1, <5>4
      <4>2. CASE ch'[j] = new
        BY SMTT(30), <2>2, <3>1, <3>2, <3>3, <3>5, <3>6, <4>2
      <4> QED BY <3>7, <4>1, <4>2
    <3>11. /\ Len(ch') > 0
           /\ ch'[1][1] = Gone + 1
           /\ sent' = ch'[Len(ch')][1] - 1 + Len(ch'[Len(ch')])
      <4>1. sent' = ch'[Len(ch')][1] - 1 + Len(ch'[Len(ch')])
        BY <2>2, <3>1, <3>2, <3>3, <3>4, <3>6
      <4>2. CASE Len(ch) = 0
        <5>1. sent = Gone
          BY <1>2, <4>2 DEF StreamInv, ChannelInv
        <5> QED BY <2>2, <3>4, <3>6, <4>1, <4>2, <5>1
      <4>3. CASE Len(ch) > 0
        <5>1. ch[1][1] = Gone + 1
          BY <1>2, <4>3 DEF StreamInv, ChannelInv
        <5> QED BY <2>2, <3>4, <4>1, <4>3, <5>1
      <4> QED BY <2>2, <4>2, <4>3
    <3>12. ChannelInv'
      BY <2>2, <3>4, <3>5, <3>8, <3>9, <3>10, <3>11 DEF ChannelInv
    <3> QED BY <1>2, <2>3, <3>3, <3>12 DEF StreamInv, Follows
  <2>6. CASE (Take \/ Fill) /\ rbuffer = <<>>
    <3>1. /\ BufferTypes' /\ rbuffer' = ch[1]
          /\ Len(ch') = Len(ch) - 1 /\ Len(ch) > 0
          /\ \A i \in 1..Len(ch') : ch'[i] = ch[i + 1]
          /\ UNCHANGED <<p, out, sent>>
      <4>1. Receive
        BY <2>6 DEF Take, Fill, Receive
      <4>2. Len(ch) > 0
        BY <2>1, <4>1, EmptySeq DEF Receive, BufferTypes
      <4> QED BY <2>1, <4>1, <4>2, ReceiveStep DEF Receive
    <3>2. /\ ch[1] \in Seq(Nat) /\ Len(ch[1]) \in Nat \ {0} /\ ch[1][1] \in Nat
          /\ ch[1][1] = Gone + 1 /\ Follows(ch[1], ch[1][1] - 1)
      <4>1. 1 \in 1..Len(ch)
        BY <2>2, <3>1
      <4>2. /\ ch[1] \in Seq(Nat) /\ Len(ch[1]) > 0
            /\ ch[1][1] = Gone + 1 /\ Follows(ch[1], ch[1][1] - 1)
        BY <1>2, <2>2, <3>1, <4>1 DEF StreamInv, ChannelInv
      <4> QED BY <4>2, LenProperties, ElementOfSeq
    <3>3. Len(rbuffer) = 0 /\ Gone = Len(out) + Len(p) /\ Gone' = Gone + Len(ch[1])
      BY <2>2, <2>6, <3>1, <3>2 DEF Gone
    <3>4. Follows(rbuffer', Len(out') + Len(p'))
      <4>1. ch[1][1] - 1 = Len(out') + Len(p')
        BY <2>2, <3>1, <3>2, <3>3
      <4> QED BY <3>1, <3>2, <4>1
    <3>5. \A j \in 1..Len(ch') : j + 1 \in 1..Len(ch) /\ ch'[j] = ch[j + 1]
      BY <2>2, <3>1
    <3>6. \A j \in 1..Len(ch') : Len(ch'[j]) > 0 /\ Follows(ch'[j], ch'[j][1] - 1)
      BY <1>2, <3>5 DEF StreamInv, ChannelInv
    <3>7. \A j \in 1..Len(ch') - 1 : ch'[j + 1][1] = ch'[j][1] + Len(ch'[j])
      <4> SUFFICES ASSUME NEW j \in 1..Len(ch') - 1
                   PROVE  ch'[j + 1][1] = ch'[j][1] + Len(ch'[j])
        OBVIOUS
      <4>1. j + 1 \in 1..Len(ch) - 1 /\ ch'[j] = ch[j + 1] /\ ch'[j + 1] = ch[(j + 1) + 1]
        BY SMTT(30), <2>2, <3>1, <3>5
      <4>2. ch[(j + 1) + 1][1] = ch[j + 1][1] + Len(ch[j + 1])
        BY <1>2, <4>1 DEF StreamInv, ChannelInv
      <4> QED BY <4>1, <4>2
    <3>8. \A j \in 1..Len(ch') : ch'[j][1] - 1 + Len(ch'[j]) <= sent'
      BY <1>2, <3>1, <3>5 DEF StreamInv, ChannelInv
    <3>9. Len(ch') = 0 => sent' = Gone'
      <4> SUFFICES ASSUME Len(ch') = 0
                   PROVE  sent' = Gone'
        OBVIOUS
      <4>1. Len(ch) = 1
        BY <2>2, <3>1
      <4>2. sent = ch[1][1] - 1 + Len(ch[1])
        BY <1>2, <4>1 DEF StreamInv, ChannelInv
      <4> QED BY <2>2, <3>1, <3>2, <3>3, <4>2
    <3>10. Len(ch') > 0 => /\ ch'[1][1] = Gone' + 1
                          /\ sent' = ch'[Len(ch')][1] - 1 + Len(ch'[Len(ch')])
      <4> SUFFICES ASSUME Len(ch') > 0
                   PROVE  /\ ch'[1][1] = Gone' + 1
                          /\ sent' = ch'[Len(ch')][1] - 1 + Len(ch'[Len(ch')])
        OBVIOUS
      <4>1. /\ 1 \in 1..Len(ch) - 1 /\ ch'[1] = ch[1 + 1]
            /\ ch'[Len(ch')] = ch[Len(ch)]
        BY <2>2, <3>1
      <4>2. ch[1 + 1][1] = ch[1][1] + Len(ch[1])
        BY <1>2, <4>1 DEF StreamInv, ChannelInv
      <4>3. sent = ch[Len(ch)][1] - 1 + Len(ch[Len(ch)])
        BY <1>2, <2>2, <3>1 DEF StreamInv, ChannelInv
      <4>4. ch'[1][1] = Gone' + 1
        <5>1. Gone \in Nat
          BY <2>2 DEF Gone
        <5>2. ch'[1][1] = (Gone + 1) + Len(ch[1])
          BY <3>2, <4>1, <4>2
        <5>3. /\ Len(ch[1]) \in Nat
              /\ Gone' = Gone + Len(ch[1])
          BY <3>2, <3>3
        <5>4. (Gone + 1) + Len(ch[1]) = (Gone + Len(ch[1])) + 1
          <6>1. \A a, b \in Nat : (a + 1) + b = (a + b) + 1
            OBVIOUS
          <6> QED BY <5>1, <5>3, <6>1
        <5> QED BY <5>2, <5>3, <5>4
      <4> QED BY <3>1, <4>1, <4>3, <4>4
    <3>11. ChannelInv'
      BY <3>6, <3>7, <3>8, <3>9, <3>10 DEF ChannelInv
    <3> QED BY <1>2, <2>3, <3>1, <3>4, <3>11 DEF StreamInv
  <2>7. CASE Fill /\ rbuffer # <<>>
    <3>1. /\ Copied \in 1..Len(rbuffer)
          /\ Len(p') = Len(p) + Copied
          /\ \A i \in 1..Len(p') :
                p'[i] = IF i <= Len(p) THEN p[i] ELSE rbuffer[i - Len(p)]
          /\ Len(rbuffer') = Len(rbuffer) - Copied
          /\ \A i \in 1..Len(rbuffer') : rbuffer'[i] = rbuffer[i + Copied]
          /\ UNCHANGED <<ch, out, sent>>
      BY <2>1, <2>7, CopyStep, SizesPositive
    <3> HIDE DEF Copied
    <3>2. Gone' = Gone
      BY <2>2, <3>1 DEF Gone
    <3>3. ChannelInv'
      BY <1>2, <3>1, <3>2 DEF StreamInv, ChannelInv
    <3>4. Follows(p', Len(out))
      <4> SUFFICES ASSUME NEW i \in 1..Len(p')
                   PROVE  p'[i] = Len(out) + i
        BY DEF Follows
      <4>1. CASE i <= Len(p)
        BY <1>2, <2>2, <3>1, <4>1 DEF StreamInv, Follows
      <4>2. CASE i > Len(p)
        <5>1. i - Len(p) \in 1..Len(rbuffer)
          BY <2>2, <3>1, <4>2
        <5>2. rbuffer[i - Len(p)] = Len(out) + Len(p) + (i - Len(p))
          BY <1>2, <5>1 DEF StreamInv, Follows
        <5> QED BY <2>2, <3>1, <4>2, <5>2
      <4> QED BY <2>2, <3>1, <4>1, <4>2
    <3>5. Follows(rbuffer', Len(out) + Len(p'))
      <4> SUFFICES ASSUME NEW i \in 1..Len(rbuffer')
                   PROVE  rbuffer'[i] = Len(out) + Len(p') + i
        BY DEF Follows
      <4>1. i + Copied \in 1..Len(rbuffer)
        BY <2>2, <3>1
      <4>2. rbuffer[i + Copied] = Len(out) + Len(p) + (i + Copied)
        BY <1>2, <4>1 DEF StreamInv, Follows
      <4> QED BY <2>2, <3>1, <4>2
    <3> QED BY <1>2, <2>3, <3>1, <3>3, <3>4, <3>5 DEF StreamInv
  <2>8. CASE WriteOut
    <3>1. /\ out' = out \o p /\ p' = <<>>
          /\ UNCHANGED <<ch, rbuffer, sent>>
      BY <2>8 DEF WriteOut
    <3>2. /\ Len(out') = Len(out) + Len(p) /\ Len(p') = 0
          /\ \A i \in 1..Len(out') :
               out'[i] = IF i <= Len(out) THEN out[i] ELSE p[i - Len(out)]
      <4>1. out \in Seq(Nat) /\ p \in Seq(Nat)
        BY <2>1 DEF BufferTypes
      <4> QED BY <3>1, <4>1, ConcatProperties
    <3>3. Gone' = Gone
      BY <2>2, <3>1, <3>2 DEF Gone
    <3>4. ChannelInv'
      BY <1>2, <3>1, <3>3 DEF StreamInv, ChannelInv
    <3>5. Follows(out', 0) /\ Follows(p', Len(out')) /\ Follows(rbuffer', Len(out') + Len(p'))
      BY <1>2, <2>2, <3>1, <3>2 DEF StreamInv, Follows
    <3> QED BY <2>3, <3>4, <3>5 DEF StreamInv, Follows
  <2> QED
    BY <1>2, <2>4, <2>5, <2>6, <2>7, <2>8
       DEF CacheNext, Run, Proceed, cacheVars, callVars, readVars, Enter, Lock, Unlock, RequestSync,
           Answered, Take, FillEnds, Poll, Ack
<1> QED BY <1>1, <1>2, CacheTypeCorrect, PTL DEF CacheSpec

\* The i-th byte the writer receives is the i-th byte that Write pushed
\* (cache.go:39-126), for every mix of line lengths and buffer sizes.
THEOREM DeliversInOrder == CacheSpec => []OutInOrder
<1>1. CacheTypeOK /\ StreamInv => OutInOrder
  <2> SUFFICES ASSUME CacheTypeOK, StreamInv
               PROVE  OutInOrder
    OBVIOUS
  <2>1. BufferTypes /\ sent \in Nat
    BY TypeSplit DEF ControlTypes
  <2>2. Len(out) \in Nat /\ Len(out) <= sent
    BY <2>1, GoneBound, LenProperties DEF StreamInv, BufferTypes
  <2> QED BY <2>2 DEF StreamInv, Follows, OutInOrder
<1> QED BY <1>1, CacheTypeCorrect, Stream, PTL

\* The cache refines the asynchronous log: a Push accepts, a WriteOut
\* delivers, every other step stutters.
THEOREM RefinesAsyncLog == CacheSpec => Log!AbsSpec
<1>1. InitCache => Log!AbsInit
  BY DEF InitCache, Log!AbsInit
<1>2. /\ CacheTypeOK /\ StreamInv /\ (CacheTypeOK /\ OutInOrder)' /\ [CacheNext]_cacheVars
      => [Log!AbsNext]_(Log!absVars)
  <2> SUFFICES ASSUME CacheTypeOK, StreamInv, CacheTypeOK', OutInOrder', [CacheNext]_cacheVars
               PROVE  Log!Accept \/ Log!Deliver \/ UNCHANGED <<sent, out>>
    BY DEF Log!AbsNext, Log!absVars
  <2>1. BufferTypes /\ ControlTypes
    BY TypeSplit
  <2>2. ASSUME NEW t \in Threads, Push(t)
        PROVE  Log!Accept
    <3>1. line[t] \in Nat \ {0} /\ sent \in Nat
      BY <2>1, <2>2, SizesPositive DEF ControlTypes, Push, StreamInv, PushInv
    <3> QED BY <2>2, <3>1 DEF Push, readVars, Log!Accept
  <2>3. CASE WriteOut /\ p # <<>>
    <3>1. /\ out \in Seq(Nat) /\ p \in Seq(Nat) /\ Len(out) \in Nat
          /\ Len(p) \in Nat \ {0} /\ sent \in Nat
      BY <2>1, <2>3, LenProperties, EmptySeq DEF BufferTypes, ControlTypes
    <3>2. out' = out \o p /\ sent' = sent
      BY <2>3 DEF WriteOut
    <3>3. Len(out') = Len(out) + Len(p) /\ Len(out') <= sent
      BY <3>1, <3>2, ConcatProperties DEF OutInOrder
    <3>4. Len(p) \in 1..(sent - Len(out))
      BY <3>1, <3>3
    <3>5. p = Log!Ranks(Len(out), Len(p))
      <4>1. p \in [1..Len(p) -> Nat]
        BY <3>1, LenProperties
      <4> QED BY <4>1 DEF StreamInv, Follows, Log!Ranks
    <3> QED BY <3>2, <3>4, <3>5 DEF Log!Deliver
  <2>4. CASE WriteOut /\ p = <<>>
    BY <2>1, <2>4, ConcatEmptySeq DEF WriteOut, BufferTypes
  <2>5. CASE ~WriteOut /\ \A t \in Threads : ~Push(t)
    BY <2>5 DEF CacheNext, Run, Proceed, cacheVars, callVars, readVars, Enter, Lock, Unlock,
                RequestSync, Answered, Take, Fill, FillEnds, Poll, Ack
  <2> QED BY <2>2, <2>3, <2>4, <2>5
<1> QED
  BY <1>1, <1>2, CacheTypeCorrect, Stream, DeliversInOrder, PTL DEF CacheSpec, Log!AbsSpec

(***************************************************************************)
(* What run, and a goroutine inside Write or Sync, can do at once: the     *)
(* guards of their actions.                                                *)
(***************************************************************************)
CanRun ==
    \/ rpc = "take" /\ (rbuffer # <<>> \/ ch # <<>>)
    \/ rpc \in {"fill", "poll", "write"}
    \/ rpc = "ack" /\ signal < 1

CanProceed(t) ==
    \/ pc[t] \in {"lockWrite", "lockSync"} /\ lock = {}
    \/ pc[t] = "push" /\ Len(ch) < ChanCap
    \/ pc[t] \in {"unlock", "flush"}
    \/ pc[t] = "request" /\ sync < 1
    \/ pc[t] = "answer" /\ signal > 0

CanMove == CanRun \/ \E t \in Threads : CanProceed(t)

\* Nothing is left to do: no call is in progress and everything is written.
AtRest == (\A t \in Threads : pc[t] = "idle") /\ Len(out) = sent

\* Nothing moves that cannot.
LEMMA Guards ==
    ASSUME CacheTypeOK
    PROVE  /\ Run => CanRun
           /\ \A t \in Threads : Lock(t) \/ Proceed(t) => CanProceed(t)
  BY DEF CacheTypeOK, Run, Take, Fill, FillEnds, Poll, Ack, WriteOut, CanRun,
         Proceed, Lock, Push, Unlock, RequestSync, Answered, CanProceed

\* run has handed on all it copied when it waits for a line.
HandedOn == rpc = "take" => p = <<>>

\* Between the mutex, the full channel, the handshake of Sync and the reader
\* (cache.go:24-126) the only standstill is the frozen one: in every other
\* state run or a call can move, or nothing is left to do.
THEOREM OnlyFrozenStandsStill == CacheSpec => [](Frozen \/ CanMove \/ AtRest)
<1>1. InitCache => HandedOn
  BY DEF InitCache, HandedOn
<1>2. HandedOn /\ [CacheNext]_cacheVars => HandedOn'
  BY DEF HandedOn, CacheNext, Run, Take, Fill, FillEnds, Poll, Ack, WriteOut, Proceed, Enter, Lock,
         Push, Unlock, RequestSync, Answered, cacheVars, readVars
<1>3. CacheTypeOK /\ LockInv /\ HandshakeInv /\ StreamInv /\ HandedOn =>
        Frozen \/ CanMove \/ AtRest
  <2> SUFFICES ASSUME CacheTypeOK, LockInv, HandshakeInv, StreamInv, HandedOn, ~CanMove
               PROVE  Frozen \/ AtRest
    OBVIOUS
  <2>0. ~CanRun /\ \A t \in Threads : ~CanProceed(t)
    BY DEF CanMove
  <2>1. BufferTypes /\ ControlTypes
    BY TypeSplit
  <2>2. AnswerBelongsToWaiter
    BY DEF CacheTypeOK, HandshakeInv, AnswerBelongsToWaiter
  <2>3. rpc = "take" /\ rbuffer = <<>> /\ ch = <<>> /\ p = <<>>
    BY <2>0, <2>1, <2>2 DEF ControlTypes, AnswerBelongsToWaiter, CanRun, HandedOn
  <2>4. CASE lock = {}
    <3>1. \A t \in Threads : pc[t] = "idle"
      BY <2>0, <2>1, <2>4 DEF ControlTypes, LockInv, WritePC, SyncPC, Holding, CanProceed
    <3>2. Len(out) = sent
      BY <2>0, <2>1, <2>3, LenProperties DEF BufferTypes, StreamInv, ChannelInv, Gone
    <3> QED
      BY <3>1, <3>2 DEF AtRest
  <2>5. ASSUME NEW t \in lock
        PROVE  Frozen
    <3>1. t \in Threads /\ pc[t] \in Holding
      BY <2>0, <2>1, <2>5 DEF ControlTypes, LockInv
    <3>2. pc[t] \in {"request", "answer"}
      BY <2>0, <2>3, <3>1, SizesPositive DEF Holding, CanProceed
    <3>3. CASE pc[t] = "request"
      <4>1. \A u \in lock : pc[u] # "answer"
        BY <2>0, <2>5, <3>3 DEF LockInv
      <4>2. sync = 0
        BY <2>0, <2>1, <4>1 DEF ControlTypes, HandshakeInv
      <4> QED
        BY <2>0, <3>1, <3>3, <4>2 DEF CanProceed
    <3>4. CASE pc[t] = "answer"
      BY <2>0, <2>1, <2>3, <2>5, <3>1, <3>4 DEF ControlTypes, CanProceed, Frozen
    <3> QED
      BY <3>2, <3>3, <3>4
  <2> QED
    BY <2>4, <2>5
<1> QED
  BY <1>1, <1>2, <1>3, CacheTypeCorrect, Handshake, Stream, PTL DEF CacheSpec
===============================================================================
