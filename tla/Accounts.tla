------------------------------- MODULE Accounts -------------------------------
(***************************************************************************)
(* Users, sessions and the handlers that change them: the session service  *)
(* (m/server/session), the user service (m/server/user), their slots in    *)
(* signal/session, and the table of users.  The session store              *)
(* (sessionstore, behind sessionid.Manager) is external: a map from tokens *)
(* to the session data captured at sign-in.                                *)
(*                                                                         *)
(* The point is that a token carries a copy of the user's row.  A handler  *)
(* that changes the row commits first and revokes the user's tokens        *)
(* (DeleteID) in a second step, which may fail or be cut off by a crash; a *)
(* sign-in reads the row in one step and stores the token in another.      *)
(*                                                                         *)
(* A user is known by its name: names are unique, never change, and the    *)
(* id is theirs for good.  A request refused before it changes anything    *)
(* is a stuttering step.                                                   *)
(***************************************************************************)
EXTENDS Naturals

CONSTANTS Users,       \* user names
          King,        \* the user doInit creates: `king`
          Passwords,   \* stored password digests
          Tokens,      \* sessions the store can hold at a time (bound of the model)
          Handlers,    \* requests in progress at a time (bound of the model)
          MaxVersion,  \* changes of one row (bound of the model)
          RemoveIds,   \* the users Remove requests name (bound of the model)
          Persistent,  \* the session store survives a crash (bolt, redis), or not (memory)
          None

ASSUME ConstantsAssumption ==
    /\ King \in Users
    /\ MaxVersion \in Nat
    /\ RemoveIds \subseteq SUBSET Users
    /\ Persistent \in BOOLEAN
    /\ None \notin [user : Users, pwd : Passwords, root : BOOLEAN, ver : 1..MaxVersion,
                    status : {"live", "expired"}, late : BOOLEAN]
    /\ None \notin [pwd : Passwords, root : BOOLEAN, ver : 1..MaxVersion]

VARIABLES
    up,       \* the server runs
    users,    \* the table data_of_user: name |-> row, or None
    tokens,   \* the session store: token |-> session, or None
    call,     \* handler |-> the request it is in the middle of
    missed,   \* users whose last DeleteID did not happen (an error, of it or of the
              \* commit before, or a crash)
    removed   \* users named by a Remove request that was answered without error

vars == <<up, users, tokens, call, missed, removed>>

\* ver counts the committed changes of a row; it is a history variable.
Row == [pwd : Passwords, root : BOOLEAN, ver : 1..MaxVersion]

\* Session data, with the history of where it comes from: the password proved
\* at sign-in, the version of the row read, whether the row had changed
\* between that read and Put.
Session == [user : Users, pwd : Passwords, root : BOOLEAN, ver : 1..MaxVersion,
            status : {"live", "expired"}, late : BOOLEAN]

Idle == [op |-> "idle"]

Call ==
    {Idle}
    \cup [op : {"put"}, user : Users, pwd : Passwords, root : BOOLEAN, ver : 1..MaxVersion]
    \cup [op : {"self"}, user : Users, old : Passwords, new : Passwords]
    \cup [op : {"reset"}, user : Users, new : Passwords]
    \cup [op : {"change"}, user : Users, root : BOOLEAN]
    \cup [op : {"add"}, user : Users, pwd : Passwords, root : BOOLEAN]
    \cup [op : {"revoke"}, user : Users, ver : 1..MaxVersion]
-------------------------------------------------------------------------------
(***************************************************************************)
(* The session store, behind sessionid.Manager.                            *)
(***************************************************************************)

\* Manager.Get finds a session only while its access token is valid.
Get(t) == tokens[t] # None /\ tokens[t].status = "live"

Put(t, s) ==
    /\ tokens[t] = None
    /\ tokens' = [tokens EXCEPT ![t] = s]

\* Mutant of DeleteID: one session of the user is deleted, not all of them.
DeleteID_One(u) ==
    \E t \in Tokens :
      /\ tokens[t] # None => tokens[t].user = u
      /\ tokens' = [tokens EXCEPT ![t] = None]

DeleteID(u) ==
    tokens' = [t \in Tokens |->
                 IF tokens[t] # None /\ tokens[t].user = u THEN None ELSE tokens[t]]

\* helper.Session and the AuthAny(Root) of AuthFuncOverride.
AuthRoot(t) == Get(t) /\ tokens[t].root

Init ==
    /\ up = FALSE
    /\ users = [u \in Users |-> None]
    /\ tokens = [t \in Tokens |-> None]
    /\ call = [h \in Handlers |-> Idle]
    /\ missed = {}
    /\ removed = {}

\* Mutant of Boot: the table is seeded without being counted.
Boot_AlwaysSeeds ==
    /\ ~up
    /\ up' = TRUE
    /\ MaxVersion > 0
    /\ \E p \in Passwords :
         users' = [users EXCEPT ![King] = [pwd |-> p, root |-> TRUE, ver |-> 1]]
    /\ UNCHANGED <<tokens, call, missed, removed>>

(***************************************************************************)
(* doInit: an empty table is seeded with `king`; the error of InsertOne is *)
(* overwritten by Commit's, so a failed insert still starts the server.    *)
(***************************************************************************)
Boot ==
    /\ ~up
    /\ up' = TRUE
    /\ \/ \E p \in Passwords :
            /\ \A u \in Users : users[u] = None
            /\ MaxVersion > 0
            /\ users' = [users EXCEPT ![King] = [pwd |-> p, root |-> TRUE, ver |-> 1]]
       \/ UNCHANGED users
    /\ UNCHANGED <<tokens, call, missed, removed>>

\* The process dies: requests are cut off where they are; a memory store is
\* lost, so that nothing is left to revoke.
PendingRevokes == {u \in Users : \E h \in Handlers : call[h].op = "revoke" /\ call[h].user = u}

Crash ==
    /\ up
    /\ up' = FALSE
    /\ call' = [h \in Handlers |-> Idle]
    /\ IF Persistent
       THEN missed' = missed \cup PendingRevokes /\ UNCHANGED tokens
       ELSE missed' = {} /\ tokens' = [t \in Tokens |-> None]
    /\ UNCHANGED <<users, removed>>

\* The access token of a session expires; the store drops a session (refresh
\* deadline, size limits, a second sign-in on the same platform).
Expire(t) ==
    /\ Get(t)
    /\ tokens' = [tokens EXCEPT ![t].status = "expired"]
    /\ UNCHANGED <<up, users, call, missed, removed>>

Evict(t) ==
    /\ tokens[t] # None
    /\ tokens' = [tokens EXCEPT ![t] = None]
    /\ UNCHANGED <<up, users, call, missed, removed>>
-------------------------------------------------------------------------------
(***************************************************************************)
(* Session service.                                                        *)
(***************************************************************************)
Begin(h, c) ==
    /\ up
    /\ call[h] = Idle
    /\ call' = [call EXCEPT ![h] = c]

\* soltSignin: the row is read, the digest compared with the row's password.
SigninRead(h, u, p) ==
    /\ users[u] # None
    /\ users[u].pwd = p
    /\ Begin(h, [op |-> "put", user |-> u, pwd |-> p, root |-> users[u].root,
                 ver |-> users[u].ver])
    /\ UNCHANGED <<up, users, tokens, missed, removed>>

\* Signin's Manager.Put, which fails for an unsupported platform or a store
\* that is full.
SigninPut(h) ==
    /\ call[h].op = "put"
    /\ \/ \E t \in Tokens :
            Put(t, [user |-> call[h].user, pwd |-> call[h].pwd, root |-> call[h].root,
                    ver |-> call[h].ver, status |-> "live",
                    late |-> call[h].ver # users[call[h].user].ver])
       \/ UNCHANGED tokens
    /\ call' = [call EXCEPT ![h] = Idle]
    /\ UNCHANGED <<up, users, missed, removed>>

\* Signout: a request with a token, in one call of the store.
Signout(t) ==
    /\ up
    /\ tokens[t] # None
    /\ tokens' = [tokens EXCEPT ![t] = None]
    /\ UNCHANGED <<up, users, call, missed, removed>>

\* Refresh renews the deadlines of a session; the session data is the copy of
\* the row made at sign-in.
Refresh(t) ==
    /\ up
    /\ tokens[t] # None
    /\ tokens' = [tokens EXCEPT ![t].status = "live"]
    /\ UNCHANGED <<up, users, call, missed, removed>>

\* Password: the session is looked up, then the old password is compared in
\* the UPDATE itself.
SelfPassword(h, t, old, new) ==
    /\ Get(t)
    /\ Begin(h, [op |-> "self", user |-> tokens[t].user, old |-> old, new |-> new])
    /\ UNCHANGED <<up, users, tokens, missed, removed>>

Finish(h) == call' = [call EXCEPT ![h] = Idle]

\* A committed change of u's row; its tokens are to be revoked next.
Commit(h, u, row) ==
    /\ users' = [users EXCEPT ![u] = row]
    /\ call' = [call EXCEPT ![h] = [op |-> "revoke", user |-> u, ver |-> row.ver]]

Changeable(u) == users[u] # None /\ users[u].ver < MaxVersion

SelfUpdate(h) ==
    /\ call[h].op = "self"
    /\ LET u == call[h].user IN
       \/ /\ Changeable(u)
          /\ users[u].pwd = call[h].old
          /\ Commit(h, u, [users[u] EXCEPT !.pwd = call[h].new, !.ver = @ + 1])
       \/ /\ \/ users[u] = None
             \/ users[u].pwd # call[h].old
          /\ Finish(h)
          /\ UNCHANGED users
    /\ UNCHANGED <<up, tokens, missed, removed>>

\* A statement or transaction of the database fails: the request ends and
\* nothing is changed.  A change that is applied though its transaction reports an
\* error is committed, and the DeleteID that follows does not happen.
UpdateFails(h) ==
    /\ call[h].op \in {"self", "reset", "change", "add"}
    /\ Finish(h)
    /\ UNCHANGED <<up, users, tokens, missed, removed>>

\* The DeleteID that follows a change; its error is only logged.  It is left out
\* when the change was applied and an error reported.
Revoke(h) ==
    /\ call[h].op = "revoke"
    /\ Finish(h)
    /\ LET u == call[h].user IN
       \/ DeleteID(u) /\ missed' = missed \ {u}
       \/ missed' = missed \cup {u} /\ UNCHANGED tokens
    /\ UNCHANGED <<up, users, removed>>
-------------------------------------------------------------------------------
(***************************************************************************)
(* User service: every request passes AuthFuncOverride first.              *)
(***************************************************************************)
AdminCall(h, t, c) ==
    /\ AuthRoot(t)
    /\ Begin(h, c)
    /\ UNCHANGED <<up, users, tokens, missed, removed>>

UserAdd(h, t, u, p, r) == AdminCall(h, t, [op |-> "add", user |-> u, pwd |-> p, root |-> r])

UserPassword(h, t, u, p) == AdminCall(h, t, [op |-> "reset", user |-> u, new |-> p])

UserChange(h, t, u, r) == AdminCall(h, t, [op |-> "change", user |-> u, root |-> r])

\* db.Add: the unique index on name refuses a second row.
AddUpdate(h) ==
    /\ call[h].op = "add"
    /\ users[call[h].user] = None
    /\ MaxVersion > 0
    /\ users' = [users EXCEPT ![call[h].user] =
                   [pwd |-> call[h].pwd, root |-> call[h].root, ver |-> 1]]
    /\ Finish(h)
    /\ UNCHANGED <<up, tokens, missed, removed>>

\* db.Password: unconditional; no row, no change.
ResetUpdate(h) ==
    /\ call[h].op = "reset"
    /\ LET u == call[h].user IN
       \/ /\ Changeable(u)
          /\ Commit(h, u, [users[u] EXCEPT !.pwd = call[h].new, !.ver = @ + 1])
       \/ /\ users[u] = None
          /\ Finish(h)
          /\ UNCHANGED users
    /\ UNCHANGED <<up, tokens, missed, removed>>

\* db.Change: nickname and authorization in one transaction.
ChangeUpdate(h) ==
    /\ call[h].op = "change"
    /\ LET u == call[h].user IN
       \/ /\ Changeable(u)
          /\ Commit(h, u, [users[u] EXCEPT !.root = call[h].root, !.ver = @ + 1])
       \/ /\ users[u] = None
          /\ Finish(h)
          /\ UNCHANGED users
    /\ UNCHANGED <<up, tokens, missed, removed>>

\* Remove returns an empty answer for every request that names a user
\* (srv.go:194); the request that names none reaches db.Remove, which returns
\* at once.
UserRemove(t, ids) ==
    /\ up
    /\ AuthRoot(t)
    /\ removed' = removed \cup ids
    /\ UNCHANGED <<up, users, tokens, call, missed>>
-------------------------------------------------------------------------------
Start(h) ==
    \/ \E u \in Users, p \in Passwords : SigninRead(h, u, p)
    \/ \E t \in Tokens, p, q \in Passwords : SelfPassword(h, t, p, q)
    \/ \E t \in Tokens, u \in Users, p \in Passwords, r \in BOOLEAN : UserAdd(h, t, u, p, r)
    \/ \E t \in Tokens, u \in Users, p \in Passwords : UserPassword(h, t, u, p)
    \/ \E t \in Tokens, u \in Users, r \in BOOLEAN : UserChange(h, t, u, r)

Continue(h) ==
    SigninPut(h) \/ SelfUpdate(h) \/ AddUpdate(h) \/ ResetUpdate(h) \/ ChangeUpdate(h) \/ Revoke(h)

Next ==
    \/ Boot \/ Crash
    \/ \E t \in Tokens : Expire(t) \/ Evict(t) \/ Signout(t) \/ Refresh(t)
    \/ \E h \in Handlers : Start(h) \/ Continue(h) \/ UpdateFails(h)
    \/ \E t \in Tokens, ids \in RemoveIds : UserRemove(t, ids)

Spec == Init /\ [][Next]_vars
-------------------------------------------------------------------------------
TypeOK ==
    /\ up \in BOOLEAN
    /\ users \in [Users -> Row \cup {None}]
    /\ tokens \in [Tokens -> Session \cup {None}]
    /\ call \in [Handlers -> Call]
    /\ missed \in SUBSET Users
    /\ removed \in SUBSET Users

\* The session no longer says what the user's row says.
Outdated(t) ==
    /\ tokens[t] # None
    /\ LET s == tokens[t]
           row == users[s.user]
       IN row = None \/ s.pwd # row.pwd \/ s.root # row.root

\* The three windows in which a session may be outdated: its revocation is
\* under way, its revocation failed or was cut off, or the row changed while
\* its sign-in was between reading the row and storing the token.
RevokePending(s) ==
    \E h \in Handlers : /\ call[h].op = "revoke"
                        /\ call[h].user = s.user
                        /\ call[h].ver > s.ver

Excused(s) == RevokePending(s) \/ s.user \in missed \/ s.late

\* Whoever is signed in proved the current password and has the current
\* authorization, outside the three windows: the order commit, DeleteID, reply
\* of Password and Change holds under any interleaving of requests, crashes
\* and failures.
SessionsCurrent == \A t \in Tokens : Outdated(t) => Excused(tokens[t])

\* A restart never touches an account that exists, seeded or added, whatever
\* became of the insert of an earlier start.
RestartKeepsAccounts ==
    [][~up => \A u \in Users : users[u] # None => users'[u] = users[u]]_vars

\* "remove user" (pb/user/user.proto.art:36): an answered Remove removed the
\* users it named.
RemoveRemoves == \A u \in removed : users[u] = None
===============================================================================
