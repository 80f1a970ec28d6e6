---------------------------- MODULE WebsocketClient ----------------------------
(***************************************************************************)
(* The websocket client of the front-end, which connects again whenever    *)
(* its connection ends: Client and ClientImplement of net/client.ts,       *)
(* SessionClient and Access of session_client.ts, as the listener of the   *)
(* log uses them from its constructor on.                                  *)
(*                                                                         *)
(* JavaScript runs a task, and the promise callbacks it sets off, to its   *)
(* end: an action is a task; only the way from the delay to the address,   *)
(* `url`, is a step of its own, before any other.  A connection attempt,   *)
(* its completer and its socket have one name.                             *)
(*                                                                         *)
(* Browser, server and the session manager (see SessionManager) are        *)
(* external: a socket that cannot be opened reports an error and is        *)
(* closed; one that was opened is closed, perhaps after an error; none     *)
(* delivers a message after its close was called.                          *)
(***************************************************************************)
EXTENDS Integers

CONSTANTS Sockets,    \* sockets a browser still has to report of (bound of the model)
          MaxWrites,  \* callers of write that wait (bound of the model)
          None

ASSUME ConstantsAssumption ==
    /\ None \notin Sockets
    /\ MaxWrites \in Nat

VARIABLES
    closed,     \* closed_
    session,    \* somebody is signed in
    access,     \* Access: it has a session_, refresh_
    completer,  \* completer_, or None
    at,         \* where promise() is, or "none"
    waiting,    \* calls of _connect that wait for the completer
    writers,    \* calls of write that wait for it
    ws,         \* ws_, or None
    conn,       \* socket |-> what the browser makes of it
    state,      \* socket |-> what its handlers make of it
    first,      \* socket |-> no message has come (counted is 0)
    delay,      \* in seconds
    streak      \* sockets that have ended since the last success, less one (history)

attemptVars == <<completer, at, waiting, writers>>
socketVars == <<conn, state, first>>
vars == <<closed, session, access, attemptVars, ws, socketVars, delay, streak>>

NoAccess == [session |-> FALSE, refresh |-> FALSE]

\* The constructor calls _connect.
Init ==
    /\ closed = FALSE
    /\ session \in BOOLEAN
    /\ access = NoAccess
    /\ completer \in Sockets
    /\ at = "url"
    /\ waiting = 1
    /\ writers = 0
    /\ ws = None
    /\ conn = [i \in Sockets |-> "free"]
    /\ state = [i \in Sockets |-> "closed"]
    /\ first = [i \in Sockets |-> TRUE]
    /\ delay = -1
    /\ streak = 0
-------------------------------------------------------------------------------
(***************************************************************************)
(* promise and _connect.                                                   *)
(***************************************************************************)

\* An attempt begins, with the delay and among the sockets of the next state.
Begin ==
    \E i \in Sockets :
      /\ conn'[i] = "free"
      /\ completer' = i
      /\ at' = IF delay' > 0 THEN "delay" ELSE "url"

NoAttempt == completer' = None /\ at' = "none" /\ waiting' = 0 /\ writers' = 0

\* Mutant of Rejected: _connect does not try again.
Rejected_GivesUp == NoAttempt

\* The attempt has failed and every caller hears of it; _connect tries again.
Rejected ==
    IF closed' \/ waiting = 0 THEN NoAttempt
    ELSE Begin /\ writers' = 0 /\ UNCHANGED waiting

\* _connect, called when c is the completer: whoever finds one joins it, and is
\* done at once if it is resolved.
Reconnect(c) ==
    /\ IF closed THEN completer' = c /\ UNCHANGED <<at, waiting>>
       ELSE IF c # None
       THEN completer' = c /\ UNCHANGED at
            /\ waiting' = IF at = "none" THEN waiting ELSE waiting + 1
       ELSE Begin /\ waiting' = waiting + 1
    /\ UNCHANGED writers

\* Mutant of Write: whoever writes connects.
Write_Connects ==
    /\ writers < MaxWrites /\ ~closed
    /\ writers' = writers + 1
    /\ UNCHANGED <<closed, session, access, waiting, ws, socketVars, delay, streak>>
    /\ Begin

\* Client.write while there is no connection.
Write ==
    /\ writers < MaxWrites
    /\ completer = None => ~closed
    /\ completer # None => at # "none"
    /\ writers' = writers + 1
    /\ UNCHANGED <<closed, session, access, waiting, ws, socketVars, delay, streak>>
    /\ IF completer # None THEN UNCHANGED <<completer, at>> ELSE Begin

DelayOver ==
    /\ at = "delay"
    /\ at' = "url"
    /\ UNCHANGED <<closed, session, access, completer, waiting, writers, ws, socketVars,
                   delay, streak>>

\* The end of optURL, new WebSocket: with the token of the current session, or
\* with none for a client that is closed.
Dial(s) ==
    /\ conn' = [conn EXCEPT ![completer] = "connecting"]
    /\ state' = [state EXCEPT ![completer] = "connect"]
    /\ first' = [first EXCEPT ![completer] = TRUE]
    /\ access' = [session |-> s, refresh |-> FALSE]
    /\ at' = "dial"
    /\ UNCHANGED <<completer, waiting, writers, ws, delay, streak>>

\* optURL waits for a session.
AwaitSession ==
    IF closed \/ session
    THEN Dial(~closed)
    ELSE at' = "session"
         /\ UNCHANGED <<access, completer, waiting, writers, ws, socketVars, delay, streak>>

Url ==
    /\ at = "url"
    /\ UNCHANGED <<closed, session>>
    /\ IF access.refresh /\ access.session
       THEN /\ at' = "refresh"
            /\ UNCHANGED <<access, completer, waiting, writers, ws, socketVars, delay, streak>>
       ELSE AwaitSession

\* Manager.refresh: there is a token to connect with, or it is signed out.
RefreshReturns ==
    /\ at = "refresh"
    /\ AwaitSession
    /\ UNCHANGED <<closed, session>>

RefreshFails ==
    /\ at = "refresh"
    /\ UNCHANGED <<closed, session, access, ws, socketVars, delay, streak>>
    /\ Rejected

Signin ==
    /\ ~session /\ session' = TRUE
    /\ UNCHANGED closed
    /\ IF at = "session" THEN Dial(TRUE)
       ELSE UNCHANGED <<access, attemptVars, ws, socketVars, delay, streak>>

Signout ==
    /\ session /\ session' = FALSE
    /\ UNCHANGED <<closed, access, attemptVars, ws, socketVars, delay, streak>>
-------------------------------------------------------------------------------
(***************************************************************************)
(* close.                                                                  *)
(***************************************************************************)

\* The timer of the delay ends, and so does the attempt.
CloseInDelay ==
    /\ at = "delay"
    /\ access' = NoAccess
    /\ NoAttempt
    /\ UNCHANGED <<ws, socketVars>>

\* Mutant of CloseInSession: only a sign-in ends the wait for one.
CloseInSession_GoesOn ==
    /\ at = "session"
    /\ access' = NoAccess
    /\ UNCHANGED <<attemptVars, ws, socketVars>>

\* The wait for a session ends, without one.
CloseInSession == at = "session" /\ Dial(FALSE)

\* The socket is closed if it is open.  A refresh or a socket that is being
\* opened is waited for.
CloseElse ==
    /\ at \in {"none", "refresh", "dial"}
    /\ access' = NoAccess
    /\ conn' = IF ws = None THEN conn ELSE [conn EXCEPT ![ws] = "closing"]
    /\ ws' = None
    /\ UNCHANGED <<attemptVars, state, first>>

Close ==
    /\ ~closed /\ closed' = TRUE
    /\ CloseInDelay \/ CloseInSession \/ CloseElse
    /\ UNCHANGED <<session, delay, streak>>
-------------------------------------------------------------------------------
(***************************************************************************)
(* What the browser reports of socket i.                                   *)
(***************************************************************************)

\* Mutant of Open: nobody looks whether the client was closed meanwhile.
Open_Kept(i) ==
    /\ conn[i] = "connecting"
    /\ state' = [state EXCEPT ![i] = "opened"]
    /\ conn' = [conn EXCEPT ![i] = "open"]
    /\ ws' = i /\ at' = "none" /\ waiting' = 0 /\ writers' = 0
    /\ UNCHANGED <<closed, session, access, completer, first, delay, streak>>

\* onopen, and what follows in promise().
Open(i) ==
    /\ conn[i] = "connecting"
    /\ state' = [state EXCEPT ![i] = "opened"]
    /\ IF closed
       THEN /\ conn' = [conn EXCEPT ![i] = "closing"]
            /\ NoAttempt /\ UNCHANGED ws
       ELSE /\ conn' = [conn EXCEPT ![i] = "open"]
            /\ ws' = i /\ at' = "none" /\ waiting' = 0 /\ writers' = 0
            /\ UNCHANGED completer
    /\ UNCHANGED <<closed, session, access, first, delay, streak>>

\* The first message tells of success ...
Accepted(i) ==
    /\ conn[i] = "open" /\ first[i]
    /\ first' = [first EXCEPT ![i] = FALSE]
    /\ delay' = 0
    /\ streak' = -1
    /\ UNCHANGED <<closed, session, access, attemptVars, ws, conn, state>>

\* ... or of an error; after the first, messages change nothing.
Refused(i) ==
    /\ conn[i] = "open" /\ first[i]
    /\ first' = [first EXCEPT ![i] = FALSE]
    /\ conn' = [conn EXCEPT ![i] = "closing"]
    /\ \E unauthenticated \in BOOLEAN :
         access' = [access EXCEPT !.refresh = @ \/ unauthenticated]
    /\ UNCHANGED <<closed, session, attemptVars, ws, state, delay, streak>>

\* _onclose.
Longer(d) == IF d = 0 THEN -1 ELSE IF d < 0 THEN 2 ELSE IF 2 * d > 16 THEN 16 ELSE 2 * d

\* A socket counts once, with its first report.
Count(i) ==
    streak' = IF conn[i] = "failed" THEN streak ELSE IF streak < 4 THEN streak + 1 ELSE 4

\* Mutant of Forget: the completer is left.
Forget_Keeps(i) == completer

Forget(i) == IF completer = i THEN None ELSE completer

\* optOnClose of a socket that was opened.
Ended(i) ==
    /\ ws' = IF ws = i THEN None ELSE ws
    /\ delay' = Longer(delay)
    /\ Count(i)
    /\ Reconnect(Forget(i))

\* Mutant of Error: the socket is not marked as closed.
Error_Again(i) ==
    /\ conn[i] \in {"connecting", "open", "closing"}
    /\ conn' = [conn EXCEPT ![i] = "failed"]
    /\ UNCHANGED <<closed, session, access, first, state>>
    /\ \/ /\ state[i] = "connect"
          /\ ws' = IF ws = i THEN None ELSE ws
          /\ delay' = Longer(delay)
          /\ Count(i)
          /\ Rejected
       \/ state[i] = "opened" /\ Ended(i)

\* onerror: optOnOpenError or optOnClose.
Error(i) ==
    /\ conn[i] \in {"connecting", "open", "closing"}
    /\ conn' = [conn EXCEPT ![i] = "failed"]
    /\ state' = [state EXCEPT ![i] = "closed"]
    /\ UNCHANGED <<closed, session, access, first>>
    /\ \/ /\ state[i] = "connect"
          /\ ws' = IF ws = i THEN None ELSE ws
          /\ delay' = Longer(delay)
          /\ Count(i)
          /\ Rejected
       \/ state[i] = "opened" /\ Ended(i)

\* onclose.  A socket that was not opened has reported an error before.
OnClose(i) ==
    /\ conn[i] \in {"open", "closing", "failed"}
    /\ conn' = [conn EXCEPT ![i] = "free"]
    /\ state' = [state EXCEPT ![i] = "closed"]
    /\ UNCHANGED <<closed, session, access, first>>
    /\ IF state[i] = "opened" THEN Ended(i)
       ELSE UNCHANGED <<attemptVars, ws, delay, streak>>
-------------------------------------------------------------------------------
Report(i) == Open(i) \/ Error(i) \/ OnClose(i)

Task ==
    \/ Write \/ DelayOver \/ RefreshReturns \/ RefreshFails \/ Signin \/ Signout \/ Close
    \/ \E i \in Sockets : Report(i) \/ Accepted(i) \/ Refused(i)

Next == Url \/ (at # "url" /\ Task)

Spec == Init /\ [][Next]_vars

(***************************************************************************)
(* Timers fire and calls are answered; a browser reports what becomes of a *)
(* socket it opens or closes.                                              *)
(***************************************************************************)
Fairness ==
    /\ WF_vars(Url)
    /\ WF_vars(DelayOver)
    /\ WF_vars(RefreshReturns \/ RefreshFails)
    /\ \A i \in Sockets :
         /\ WF_vars(conn[i] = "connecting" /\ Report(i))
         /\ WF_vars(conn[i] \in {"closing", "failed"} /\ Report(i))

FairSpec == Spec /\ Fairness
-------------------------------------------------------------------------------
TypeOK ==
    /\ closed \in BOOLEAN /\ session \in BOOLEAN
    /\ access \in [session : BOOLEAN, refresh : BOOLEAN]
    /\ completer \in Sockets \cup {None} /\ ws \in Sockets \cup {None}
    /\ at \in {"none", "delay", "url", "refresh", "session", "dial"}
    /\ waiting \in Nat /\ writers \in 0..MaxWrites
    /\ conn \in [Sockets -> {"free", "connecting", "open", "closing", "failed"}]
    /\ state \in [Sockets -> {"connect", "opened", "closed"}]
    /\ first \in [Sockets -> BOOLEAN]
    /\ delay \in {-1, 0, 2, 4, 8, 16}
    /\ streak \in -1..4

Live(i) == conn[i] \in {"connecting", "open"}

\* "保證同時只有一個連接", one connection at a time: whoever calls, and whatever
\* the browser has still to report of earlier sockets.
OneConnection == \A i, j \in Sockets : Live(i) /\ Live(j) => i = j

\* Nothing is received for a client that was closed, also if it was closed
\* while it was connecting.
ClosedIsSilent == closed => \A i \in Sockets : conn[i] # "open"

\* A client that is not closed is never at rest: one call of _connect waits for
\* an attempt, or a socket is open whose end will call it.
KeepsTrying ==
    ~closed =>
      \/ waiting = 1 /\ at # "none" /\ completer # None
      \/ /\ waiting = 0 /\ at = "none"
         /\ \E i \in Sockets : /\ completer = i /\ state[i] = "opened"
                               /\ conn[i] \in {"open", "closing"}

\* The delay that n sockets call for, which have ended since the last success:
\* the one that was successful itself is replaced without any.
Due(n) == <<0, -1, 2, 4, 8, 16>>[n + 2]

\* The delay doubles with every failure in a row, however a socket reports it,
\* and a refresh that fails is never repeated without one.
BacksOff == delay = Due(streak) /\ (at = "refresh" => delay > 0)

\* What whoever made the client has of it.
AtRest == at = "none" /\ waiting = 0 /\ writers = 0 /\ \A i \in Sockets : conn[i] = "free"

Phase ==
    IF closed THEN IF AtRest THEN "over" ELSE "closed"
    ELSE IF \E i \in Sockets : conn[i] = "open" THEN "connected" ELSE "trying"

S == INSTANCE Subscription WITH phase <- Phase

\* The client keeps the promise of Subscription: at whatever point of an attempt
\* it is closed, all that is in progress ends, no socket stays open, and nothing
\* begins again.
ImplementsSubscription == S!Spec

\* The server can be reached and accepts, and a session can be refreshed, again
\* and again.
Serves ==
    /\ SF_vars(RefreshReturns)
    /\ SF_vars(\E i \in Sockets : Open(i))
    /\ SF_vars(\E i \in Sockets : Accepted(i))

\* Then a client that somebody is signed in for gets its connection back.
Reconnects ==
    Serves /\ <>[]session =>
      []<>(closed \/ \E i \in Sockets : conn[i] = "open" /\ ~first[i])
===============================================================================
