---------------------------- MODULE SessionManager ----------------------------
(***************************************************************************)
(* The session manager of the front-end, class Manager of session.ts, with *)
(* the interceptor that calls it when a request is refused.  Each tab of   *)
(* the browser has a manager; all share the local storage, where `session` *)
(* is loaded when a tab opens and `last.session` tells tabs of each        *)
(* other's sessions.                                                       *)
(*                                                                         *)
(* JavaScript runs a task to its end: an action is a task with the promise *)
(* callbacks it sets off.  A session is identified by its access token,    *)
(* and tokens by the order in which the server gave them out.  Server,     *)
(* clocks and network are external.                                        *)
(***************************************************************************)
EXTENDS Naturals, Sequences

CONSTANTS Tabs, Users,
          Slots,      \* requests in progress of a tab (bound of the model)
          MaxTokens,  \* tokens given out (bound of the model)
          Choices,    \* made of `Remember me` (BOOLEAN, or fewer to bound the model)
          None

Tokens == 1..MaxTokens
Sessions == [k : Tokens, user : Users]
Signins == [st : {"wait", "post"}, user : Users, rem : BOOLEAN]
Posts == [k : Tokens, user : Users, new : Tokens \cup {0}]
Requests == [st : {"sent", "wait", "again"}, session : Sessions, as : Sessions,
             on : {"none", "signin", "refresh"}]

ASSUME ConstantsAssumption ==
    /\ MaxTokens \in Nat /\ Choices \subseteq BOOLEAN
    /\ None \notin Sessions \cup Signins \cup Posts \cup Requests

VARIABLES
    subject,    \* tab |-> subject_, the current session, or None
    remember,   \* tab |-> remember_
    signing,    \* tab |-> its sign-in: it waits for a refresh, or has posted
    completer,  \* tab |-> whose completer refresh_ is: "none", "signin", "refresh"
    posted,     \* tab |-> its refresh in progress, or None
    req,        \* tab |-> slot |-> a request in progress, or None
    key,        \* local storage: session
    last,       \* local storage: last.session
    owner,      \* token |-> the user it was given to
    alive,      \* tokens the server knows
    age         \* token |-> the last of its deadlines that has passed

tabVars == <<subject, remember, signing, completer, posted, req>>
storageVars == <<key, last>>
serverVars == <<owner, alive, age>>
vars == <<tabVars, storageVars, serverVars>>

Given == DOMAIN owner

Expired(k) == age[k] # "fresh"
Deleted(k) == age[k] = "deleted"

Init ==
    /\ subject = [t \in Tabs |-> None]
    /\ remember = [t \in Tabs |-> FALSE]
    /\ signing = [t \in Tabs |-> None]
    /\ completer = [t \in Tabs |-> "none"]
    /\ posted = [t \in Tabs |-> None]
    /\ req = [t \in Tabs |-> [i \in Slots |-> None]]
    /\ key = None /\ last = None
    /\ owner = <<>> /\ alive = {}
    /\ age = <<>>
-------------------------------------------------------------------------------
\* The server gives a new token to u.
Give(u) ==
    /\ Len(owner) < MaxTokens
    /\ owner' = Append(owner, u)
    /\ age' = Append(age, "fresh")

\* _load: what is stored, unless its refresh deadline has passed.  Whatever
\* the key, the manager takes it for remembered.
Load(x) == IF x # None /\ ~Deleted(x.k) THEN x ELSE None
Remembered(t, x) == remember[t] \/ Load(x) # None

\* _save: under the first key if it is to be remembered, and under the second.
Save(s, rem) ==
    /\ key' = IF rem THEN s ELSE key
    /\ last' = s

Waits(q, c) == q # None /\ q.st = "wait" /\ q.on = c

\* The callers that wait for the completer c of tab t get s: their request is
\* sent again with it, or fails when there is none.
Settle(t, c, s) ==
    req' = [req EXCEPT ![t] = [i \in Slots |->
              IF ~Waits(@[i], c) THEN @[i]
              ELSE IF s = None THEN None ELSE [@[i] EXCEPT !.st = "again", !.as = s]]]
-------------------------------------------------------------------------------
(***************************************************************************)
(* Opening and closing.                                                    *)
(***************************************************************************)

\* A tab is opened or reloaded: load.  What was in progress is forgotten.
Open(t) ==
    /\ subject' = [subject EXCEPT ![t] = Load(key)]
    /\ remember' = [remember EXCEPT ![t] = Load(key) # None]
    /\ signing' = [signing EXCEPT ![t] = None]
    /\ completer' = [completer EXCEPT ![t] = "none"]
    /\ posted' = [posted EXCEPT ![t] = None]
    /\ req' = [req EXCEPT ![t] = [i \in Slots |-> None]]
    /\ UNCHANGED <<storageVars, serverVars>>

\* clear, of the current session: after signout, or a change of password.
\* Only the session's own entries are removed.  A signout also deletes the
\* token at the server, which is Evict.
Signout(t) ==
    LET s == subject[t]
        own(x) == Load(x) # None /\ x.k = s.k
    IN /\ s # None
       /\ subject' = [subject EXCEPT ![t] = None]
       /\ key' = IF remember[t] /\ own(key) THEN None ELSE key
       /\ last' = IF own(last) THEN None ELSE last
       /\ remember' = [remember EXCEPT ![t] = Remembered(t, last)]
       /\ UNCHANGED <<signing, completer, posted, req, serverVars>>
-------------------------------------------------------------------------------
(***************************************************************************)
(* signin.                                                                 *)
(***************************************************************************)

\* The form is shown to who has not signed in.
Signin(t, u, rem) ==
    /\ subject[t] = None /\ signing[t] = None
    /\ remember' = [remember EXCEPT ![t] = rem]
    /\ signing' = [signing EXCEPT ![t] = [st |-> IF completer[t] = "none" THEN "post" ELSE "wait",
                                          user |-> u, rem |-> rem]]
    /\ completer' = [completer EXCEPT ![t] = IF @ = "none" THEN "signin" ELSE @]
    /\ UNCHANGED <<subject, posted, req, storageVars, serverVars>>

\* finally: the completer is given up unless another took its place.
GiveUp(t) == completer' = [completer EXCEPT ![t] = IF @ = "signin" THEN "none" ELSE @]

SigninDone(t) ==
    /\ signing[t] # None /\ signing[t].st = "post"
    /\ Give(signing[t].user)
    /\ alive' = alive \cup {Len(owner')}
    /\ LET s == [k |-> Len(owner'), user |-> signing[t].user] IN
         /\ Save(s, signing[t].rem)
         /\ subject' = [subject EXCEPT ![t] = s]
         /\ Settle(t, "signin", s)
    /\ GiveUp(t)
    /\ signing' = [signing EXCEPT ![t] = None]
    /\ UNCHANGED <<remember, posted>>

SigninFails(t) ==
    /\ signing[t] # None /\ signing[t].st = "post"
    /\ Settle(t, "signin", None)
    /\ GiveUp(t)
    /\ signing' = [signing EXCEPT ![t] = None]
    /\ UNCHANGED <<subject, remember, posted, storageVars, serverVars>>
-------------------------------------------------------------------------------
(***************************************************************************)
(* Requests and refresh.                                                   *)
(***************************************************************************)

\* intercept: a request is sent with the current session.
Send(t, i) ==
    /\ subject[t] # None /\ req[t][i] = None
    /\ req' = [req EXCEPT ![t][i] = [st |-> "sent", session |-> subject[t],
                                     as |-> subject[t], on |-> "none"]]
    /\ UNCHANGED <<subject, remember, signing, completer, posted, storageVars, serverVars>>

\* It is answered, well or with an error that is no reason to refresh.
Answered(t, i) ==
    /\ req[t][i] # None /\ req[t][i].st \in {"sent", "again"}
    /\ req' = [req EXCEPT ![t][i] = None]
    /\ UNCHANGED <<subject, remember, signing, completer, posted, storageVars, serverVars>>

\* The server refuses a token it does not know, or that has expired.  The
\* websocket clients do not tell refresh why.
Refused(k) == k \notin alive \/ Expired(k)

Wait(t, i, c) == req' = [req EXCEPT ![t][i].st = "wait", ![t][i].on = c]
Again(t, i, s) == req' = [req EXCEPT ![t][i].st = "again", ![t][i].as = s]
Throw(t, i) == req' = [req EXCEPT ![t][i] = None]

Denied(t, i) == req[t][i] # None /\ req[t][i].st = "sent" /\ Refused(req[t][i].session.k)

\* refresh, while a refresh or a sign-in is in progress: wait for that.
Join(t, i) ==
    /\ Denied(t, i) /\ completer[t] # "none"
    /\ Wait(t, i, completer[t])
    /\ UNCHANGED <<subject, remember, signing, completer, posted, storageVars, serverVars>>

\* The session has changed since: signed out, or already refreshed.
Changed(t, i) ==
    /\ Denied(t, i) /\ completer[t] = "none" /\ subject[t] # req[t][i].session
    /\ IF subject[t] = None THEN Throw(t, i) ELSE Again(t, i, subject[t])
    /\ UNCHANGED <<subject, remember, signing, completer, posted, storageVars, serverVars>>

\* Mutant of OfOtherTab: the user is not compared.
OfOtherTab_AnyUser(s) == Load(last) # None /\ last.k # s.k

\* Another session of the same user, which some tab has stored.
OfOtherTab(s) == Load(last) # None /\ last.k # s.k /\ last.user = s.user

Current(t, i) == Denied(t, i) /\ completer[t] = "none" /\ subject[t] = req[t][i].session

MayAdopt(s) == OfOtherTab(s) /\ ~Expired(last.k)

\* It is taken over if it has not expired.
Adopt(t, i) ==
    /\ Current(t, i) /\ MayAdopt(subject[t])
    /\ subject' = [subject EXCEPT ![t] = last]
    /\ remember' = [remember EXCEPT ![t] = TRUE]
    /\ key' = last
    /\ Again(t, i, last)
    /\ UNCHANGED <<signing, completer, posted, last, serverVars>>

\* Otherwise a token is refreshed: the other tab's, unless its deadline for
\* that has passed, or its own.  That deadline is not modelled: once a token
\* has expired, it may have passed.  A token the server does not know is given
\* up, if the caller says so.
Refresh(t, i) ==
    LET s == subject[t]
    IN /\ Current(t, i) /\ ~MayAdopt(s)
       /\ remember' = [remember EXCEPT ![t] = Remembered(t, last)]
       /\ \/ /\ s.k \notin alive \/ Expired(s.k)
             /\ Throw(t, i)
             /\ UNCHANGED <<completer, posted>>
          \/ /\ \E k \in {s.k} \cup (IF OfOtherTab(s) THEN {last.k} ELSE {}) :
                  posted' = [posted EXCEPT ![t] = [k |-> k, user |-> s.user, new |-> 0]]
             /\ completer' = [completer EXCEPT ![t] = "refresh"]
             /\ Wait(t, i, "refresh")
       /\ UNCHANGED <<subject, signing, storageVars, serverVars>>

\* The server exchanges the token for a new one.
Exchange(t) ==
    /\ posted[t] # None /\ posted[t].new = 0
    /\ posted[t].k \in alive /\ ~Deleted(posted[t].k)
    /\ Give(owner[posted[t].k])
    /\ alive' = (alive \ {posted[t].k}) \cup {Len(owner')}
    /\ posted' = [posted EXCEPT ![t].new = Len(owner')]
    /\ UNCHANGED <<subject, remember, signing, completer, req, storageVars>>

\* The callbacks of a refresh that is answered, in the order in which they
\* run: a sign-in that waits goes on and sets its completer, before the
\* completer is reset.
Resume(t) ==
    /\ signing' = [signing EXCEPT ![t] = IF @ # None THEN [@ EXCEPT !.st = "post"] ELSE @]
    /\ completer' = [completer EXCEPT ![t] = "none"]
    /\ posted' = [posted EXCEPT ![t] = None]

RefreshDone(t) ==
    /\ posted[t] # None /\ posted[t].new # 0
    /\ LET s == [k |-> posted[t].new, user |-> posted[t].user] IN
         /\ Save(s, remember[t])
         /\ subject' = [subject EXCEPT ![t] = s]
         /\ Settle(t, "refresh", s)
    /\ Resume(t)
    /\ UNCHANGED <<remember, serverVars>>

\* Mutant of RefreshFails: those that wait are not told.
RefreshFails_Silent(t) ==
    /\ posted[t] # None
    /\ Resume(t)
    /\ UNCHANGED <<subject, remember, req, storageVars, serverVars>>

\* The server refuses, or the answer is lost.
RefreshFails(t) ==
    /\ posted[t] # None
    /\ Settle(t, "refresh", None)
    /\ Resume(t)
    /\ UNCHANGED <<subject, remember, storageVars, serverVars>>
-------------------------------------------------------------------------------
(***************************************************************************)
(* Time and server.                                                        *)
(***************************************************************************)

\* The access deadline of a token passes, then its refresh deadline.
Age(k) ==
    /\ ~Deleted(k)
    /\ age' = [age EXCEPT ![k] = IF @ = "fresh" THEN "expired" ELSE "deleted"]
    /\ UNCHANGED <<tabVars, storageVars, owner, alive>>

\* The server forgets a token: DELETE of a signout, a change of the account,
\* the limits of the session store.
Evict(k) ==
    /\ alive' = alive \ {k}
    /\ UNCHANGED <<tabVars, storageVars, owner, age>>

Retry(t, i) == Join(t, i) \/ Changed(t, i) \/ Adopt(t, i) \/ Refresh(t, i)

Tab(t) ==
    \/ Open(t) \/ Signout(t)
    \/ \E u \in Users, rem \in Choices : Signin(t, u, rem)
    \/ SigninDone(t) \/ SigninFails(t)
    \/ Exchange(t) \/ RefreshDone(t) \/ RefreshFails(t)
    \/ \E i \in Slots : Send(t, i) \/ Answered(t, i) \/ Retry(t, i)

Next ==
    \/ \E t \in Tabs : Tab(t)
    \/ \E k \in Given : Age(k) \/ Evict(k)

Spec == Init /\ [][Next]_vars

-------------------------------------------------------------------------------
Optional(S) == S \cup {None}

TypeOK ==
    /\ subject \in [Tabs -> Optional(Sessions)]
    /\ remember \in [Tabs -> BOOLEAN]
    /\ signing \in [Tabs -> Optional(Signins)]
    /\ completer \in [Tabs -> {"none", "signin", "refresh"}]
    /\ posted \in [Tabs -> Optional(Posts)]
    /\ req \in [Tabs -> [Slots -> Optional(Requests)]]
    /\ key \in Optional(Sessions) /\ last \in Optional(Sessions)
    /\ owner \in Seq(Users) /\ Len(owner) <= MaxTokens
    /\ age \in [Given -> {"fresh", "expired", "deleted"}]
    /\ alive \subseteq Given

\* Sessions somebody may still use, in tabs, in storage and in requests.
Held ==
    {subject[t] : t \in Tabs} \cup {key, last} \cup
    {req[p[1]][p[2]].as : p \in {q \in Tabs \X Slots : req[q[1]][q[2]] # None}}

\* The user a tab shows is the one the server knows the token by, however
\* tabs take over, refresh and store each other's sessions.
TokenOfUser == \A s \in Held : s # None => s.k \in Given /\ owner[s.k] = s.user

Posting(t) == signing[t] # None /\ signing[t].st = "post"

\* refresh_ is set as long as a refresh is in progress, so that no second one
\* begins with the same token; and what it stands for is in progress.
CompleterInFlight ==
    \A t \in Tabs :
      /\ posted[t] # None => completer[t] = "refresh"
      /\ completer[t] = "refresh" => posted[t] # None
      /\ completer[t] = "signin" => Posting(t)

\* What tab t waits for is in progress.
Attended(t) ==
    /\ \A i \in Slots : /\ Waits(req[t][i], "refresh") => posted[t] # None
                        /\ Waits(req[t][i], "signin") => Posting(t)
    /\ signing[t] # None /\ signing[t].st = "wait" => posted[t] # None

\* A request or a sign-in that waits, waits for a call that is in progress,
\* even where refresh_ has been reset under it.
NobodyWaitsInVain == \A t \in Tabs : Attended(t)

\* Callers that find their token expired at the same time refresh it once: a
\* refresh in progress is not replaced by another, nor one that was answered
\* asked for again, though refresh_ is reset by whoever ends.
RefreshesOnce ==
    [][\A t \in Tabs : posted[t] # None /\ posted'[t] # None =>
         /\ posted'[t].k = posted[t].k /\ posted'[t].user = posted[t].user
         /\ posted[t].new # 0 => posted'[t] = posted[t]]_vars
===============================================================================
