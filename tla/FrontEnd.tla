-------------------------------- MODULE FrontEnd --------------------------------
(***************************************************************************)
(* The pages of the front-end for administrators, under the router, its    *)
(* guards and the session: who goes to another page leaves the calls of    *)
(* the one before in progress, and sessions come and go while a page is    *)
(* shown.  SessionManager models the session, WebsocketClient the          *)
(* listener of the log.                                                    *)
(***************************************************************************)
EXTENDS UserPage, LogPage

VARIABLE session  \* of the manager: its token and whether it is root's, or None

vars == <<page, call, others, userVars, logVars, session>>

TokenOf(s) == IF s = None THEN None ELSE s.token

Init ==
    /\ page = "home" /\ InitCalls /\ InitUsers /\ InitLog
    /\ session = None
-------------------------------------------------------------------------------
(***************************************************************************)
(* The session, and who is told of it.                                     *)
(***************************************************************************)
NewSession(s) ==
    /\ session' = s
    /\ Told(page, TokenOf(s))
    /\ UNCHANGED <<page, call, others, userVars, loadVars, levelVars, attachVars, level>>

\* The navigation bar cannot be reached behind a dialog.
Signin ==
    /\ session = None /\ dialog = None
    /\ \E k \in Tokens, r \in BOOLEAN : NewSession([token |-> k, root |-> r])

\* signout, and the change of one's own password.
Signout == session # None /\ dialog = None /\ NewSession(None)

\* A request or a listener has refreshed the session, at any time.
Refreshed ==
    /\ session # None
    /\ \E k \in Tokens \ {session.token} : NewSession([session EXCEPT !.token = k])
-------------------------------------------------------------------------------
(***************************************************************************)
(* The router.                                                             *)
(***************************************************************************)
LogRoutes == {"levels", "files"}

\* RootGuard; it guards the parent of both pages of the log, whoever goes from
\* one to the other does not pass it.
MayEnter(p) ==
    \/ p = "home"
    \/ session # None /\ session.root
    \/ page \in LogRoutes /\ p \in LogRoutes

\* From one component to another, by a link or by the browser's own buttons:
\* closed_ ends what the old one listens to.
Go(p, a) ==
    LET calls == Abandoned(Slots)
    IN /\ p # page /\ MayEnter(p)
       /\ page' = p
       /\ CASE p = "users" -> EnterUsers(a, calls) /\ NoLog
            [] p \in LogRoutes -> a = None /\ EnterLog(p, calls) /\ LeaveUsers
            [] p = "home" -> a = None /\ NoLog /\ LeaveUsers /\ call' = calls
       /\ Told(p, TokenOf(session))
       /\ UNCHANGED <<others, session>>

Task ==
    \/ Signin \/ Signout \/ Refreshed
    \/ \E p \in {"home", "users"} \cup LogRoutes, a \in Requested \cup {None} : Go(p, a)

Ends(i) ==
    \/ UserCall(i) /\ UNCHANGED <<logVars, session>>
    \/ LogCall(i) /\ UNCHANGED <<userVars, session>>

Next ==
    \/ Task
    \/ UserTask /\ UNCHANGED <<logVars, session>>
    \/ LogTask /\ UNCHANGED <<userVars, session>>
    \/ \E i \in Slots : Ends(i)
    \/ \E i \in Slots : Vanishes(i) /\ UNCHANGED <<page, others, userVars, logVars, session>>

Spec == Init /\ [][Next]_vars

\* A call that somebody listens to ends.
Fairness == \A i \in Slots : WF_vars(Heard(i) /\ Ends(i))
-------------------------------------------------------------------------------
TypeOK ==
    /\ page \in {"home", "users"} \cup LogRoutes
    /\ call \in [Slots -> UserCalls \cup LogCalls \cup {None}]
    /\ others \in 0..MaxOthers
    /\ UserTypeOK /\ LogTypeOK
    /\ session \in [token : Tokens, root : BOOLEAN] \cup {None}

\* The links to the files hold the token of the session there is, however often
\* it was refreshed since they were shown.
LinkCurrent == page = "files" /\ session # None => token = session.token

Listens(kinds) == \E i \in Slots : Heard(i) /\ call[i].ask.kind \in kinds

\* Whatever is disabled until an answer comes has a call in progress that it
\* listens to: no call is abandoned, by a dialog that is closed, by the browser's
\* own buttons or by the router, and its page left waiting.
NoneInVain ==
    /\ disabled => Listens({"query"})
    /\ busy => Listens(Kinds)
    /\ setting => Listens({"set"})
    /\ \A p \in LogRoutes : page = p /\ ~ready => Listens({p})

\* Whatever a page or a dialog waits for, that it is disabled by, ends.
Usable ==
    /\ []<>~disabled /\ []<>~busy /\ []<>~setting
    /\ \A p \in LogRoutes : []<>(page = p => ready)
===============================================================================
