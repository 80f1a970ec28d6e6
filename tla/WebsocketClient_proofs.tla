------------------------ MODULE WebsocketClient_proofs ------------------------
(***************************************************************************)
(* Proofs for WebsocketClient, for any number of sockets and of callers of *)
(* write.  The invariant ties the attempt in progress, the completer, ws_  *)
(* and the loop of _connect to the one socket that is not finished, and    *)
(* the pending refresh to a failure that was counted.                      *)
(***************************************************************************)
EXTENDS WebsocketClient, TLAPS

\* Every step is one of the program or of the browser.
LEMMA Steps ==
    ASSUME [Next]_vars
    PROVE  \/ Url \/ Write \/ DelayOver \/ RefreshReturns \/ RefreshFails
           \/ Signin \/ Signout \/ Close
           \/ \E i \in Sockets : Open(i) \/ Error(i) \/ OnClose(i) \/ Accepted(i) \/ Refused(i)
           \/ UNCHANGED vars
  BY DEF Next, Task, Report

\* The program is at rest, at a step of promise(), or between two of them.
Places == {"none", "delay", "url", "refresh", "session", "dial"}

\* What _connect and promise() make of the attempt.
AttemptType ==
    /\ completer \in Sockets \cup {None} /\ at \in Places
    /\ waiting \in Nat /\ writers \in 0..MaxWrites

FlagType ==
    /\ closed \in BOOLEAN /\ session \in BOOLEAN
    /\ access \in [session : BOOLEAN, refresh : BOOLEAN]

SocketType ==
    /\ ws \in Sockets \cup {None}
    /\ conn \in [Sockets -> {"free", "connecting", "open", "closing", "failed"}]
    /\ state \in [Sockets -> {"connect", "opened", "closed"}]
    /\ first \in [Sockets -> BOOLEAN]

DelayType == delay \in {-1, 0, 2, 4, 8, 16} /\ streak \in -1..4

Types == AttemptType /\ FlagType /\ SocketType /\ DelayType

\* TypeOK is the conjunction of the parts.
LEMMA Parts == TypeOK <=> Types
  BY DEF TypeOK, Types, AttemptType, FlagType, SocketType, DelayType, Places

LEMMA Attempts ==
    ASSUME AttemptType
    PROVE  /\ Begin => completer' \in Sockets /\ at' \in {"delay", "url"}
           /\ NoAttempt => AttemptType'
           /\ Rejected => AttemptType'
           /\ \A c \in Sockets \cup {None} : Reconnect(c) => AttemptType'
<1>1. Begin => completer' \in Sockets /\ at' \in {"delay", "url"}
  BY DEF Begin
<1>2. NoAttempt => AttemptType'
  BY ConstantsAssumption DEF NoAttempt, AttemptType, Places
<1>3. Rejected => AttemptType'
  BY <1>1, <1>2, ConstantsAssumption DEF Rejected, AttemptType, Places
<1>4. \A c \in Sockets \cup {None} : Reconnect(c) => AttemptType'
  BY <1>1 DEF Reconnect, AttemptType, Places
<1> QED
  BY <1>1, <1>2, <1>3, <1>4

LEMMA Dials ==
    ASSUME AttemptType, SocketType, DelayType, NEW s \in BOOLEAN, Dial(s)
    PROVE  /\ AttemptType' /\ SocketType' /\ DelayType'
           /\ access' \in [session : BOOLEAN, refresh : BOOLEAN]
<1>1. access' \in [session : BOOLEAN, refresh : BOOLEAN]
  BY DEF Dial
<1> QED
  BY <1>1 DEF Dial, AttemptType, SocketType, DelayType, Places

LEMMA Counts ==
    ASSUME DelayType, NEW i \in Sockets, Count(i), delay' = Longer(delay)
    PROVE  DelayType'
<1>1. delay' \in {-1, 0, 2, 4, 8, 16}
  BY DEF DelayType, Longer
<1>2. streak' \in -1..4
  BY DEF DelayType, Count
<1> QED
  BY <1>1, <1>2 DEF DelayType

LEMMA Ends ==
    ASSUME Types, NEW i \in Sockets, Ended(i)
    PROVE  AttemptType' /\ DelayType' /\ ws' \in Sockets \cup {None}
<1>1. AttemptType'
  <2>1. Forget(i) \in Sockets \cup {None}
    BY DEF Types, Forget, AttemptType
  <2> QED
    BY <2>1, Attempts DEF Types, Ended
<1>2. DelayType'
  BY Counts DEF Types, Ended
<1> QED
  BY <1>1, <1>2 DEF Types, Ended, SocketType

\* The variables have their types, whatever the steps before.
LEMMA TypeStep == Types /\ [Next]_vars => Types'
<1> SUFFICES ASSUME Types, [Next]_vars PROVE Types'
  OBVIOUS
<1> USE DEF Types
<1>0. NoAccess \in [session : BOOLEAN, refresh : BOOLEAN]
  BY DEF NoAccess
<1>1. ASSUME AwaitSession, UNCHANGED <<closed, session>> PROVE Types'
  <2>1. CASE closed \/ session
    <3>1. Dial(~closed)
      BY <1>1, <2>1 DEF AwaitSession
    <3>2. (~closed) \in BOOLEAN
      OBVIOUS
    <3> QED
      BY <3>1, <3>2, <1>1, Dials DEF FlagType
  <2>2. CASE ~(closed \/ session)
    BY <1>1, <2>2
    DEF AwaitSession, socketVars, AttemptType, FlagType, SocketType, DelayType, Places
  <2> QED
    BY <2>1, <2>2
<1>2. CASE Url
  <2>1. CASE access.refresh /\ access.session
    BY <1>2, <2>1 DEF Url, socketVars, AttemptType, FlagType, SocketType, DelayType, Places
  <2>2. CASE ~(access.refresh /\ access.session)
    BY <1>2, <2>2, <1>1 DEF Url
  <2> QED
    BY <2>1, <2>2
<1>3. CASE Write
  <2>1. AttemptType'
    BY <1>3, Attempts, ConstantsAssumption DEF Write, AttemptType, Places
  <2> QED
    BY <1>3, <2>1 DEF Write, socketVars, FlagType, SocketType, DelayType
<1>4. CASE DelayOver
  BY <1>4 DEF DelayOver, socketVars, AttemptType, FlagType, SocketType, DelayType, Places
<1>5. CASE RefreshReturns
  BY <1>5, <1>1 DEF RefreshReturns
<1>6. CASE RefreshFails
  BY <1>6, Attempts DEF RefreshFails, socketVars, FlagType, SocketType, DelayType
<1>7. CASE Signin
  <2>1. CASE at = "session"
    BY <1>7, <2>1, Dials DEF Signin, FlagType
  <2>2. CASE at # "session"
    BY <1>7, <2>2 DEF Signin, attemptVars, socketVars, AttemptType, FlagType, SocketType, DelayType
  <2> QED
    BY <2>1, <2>2
<1>8. CASE Signout
  BY <1>8 DEF Signout, attemptVars, socketVars, AttemptType, FlagType, SocketType, DelayType
<1>9. CASE Close
  <2>1. closed' \in BOOLEAN /\ session' \in BOOLEAN /\ DelayType'
    BY <1>9 DEF Close, FlagType, DelayType
  <2>2. CASE CloseInDelay
    BY <2>1, <2>2, <1>0, Attempts DEF CloseInDelay, socketVars, FlagType, SocketType
  <2>3. CASE CloseInSession
    BY <2>1, <2>3, Dials DEF CloseInSession, FlagType
  <2>4. CASE CloseElse
    BY <2>1, <2>4, <1>0 DEF CloseElse, attemptVars, AttemptType, FlagType, SocketType
  <2> QED
    BY <1>9, <2>2, <2>3, <2>4 DEF Close
<1>10. ASSUME NEW i \in Sockets, Open(i) PROVE Types'
  <2>1. AttemptType'
    BY <1>10, Attempts, ConstantsAssumption DEF Open, AttemptType, Places
  <2> QED
    BY <1>10, <2>1 DEF Open, FlagType, SocketType, DelayType
<1>11. ASSUME NEW i \in Sockets, Error(i) PROVE Types'
  <2>1. AttemptType' /\ DelayType' /\ ws' \in Sockets \cup {None}
    <3>1. CASE state[i] = "opened" /\ Ended(i)
      BY <3>1, Ends
    <3>2. CASE state[i] # "opened" \/ ~Ended(i)
      BY <1>11, <3>2, Attempts, Counts DEF Error, SocketType
    <3> QED
      BY <3>1, <3>2
  <2> QED
    BY <1>11, <2>1 DEF Error, FlagType, SocketType
<1>12. ASSUME NEW i \in Sockets, OnClose(i) PROVE Types'
  <2>1. AttemptType' /\ DelayType' /\ ws' \in Sockets \cup {None}
    BY <1>12, Ends DEF OnClose, attemptVars, AttemptType, DelayType, SocketType
  <2> QED
    BY <1>12, <2>1 DEF OnClose, FlagType, SocketType
<1>13. ASSUME NEW i \in Sockets, Accepted(i) PROVE Types'
  BY <1>13 DEF Accepted, attemptVars, AttemptType, FlagType, SocketType, DelayType
<1>14. ASSUME NEW i \in Sockets, Refused(i) PROVE Types'
  <2>1. access' \in [session : BOOLEAN, refresh : BOOLEAN]
    BY <1>14 DEF Refused, FlagType
  <2> QED
    BY <1>14, <2>1 DEF Refused, attemptVars, AttemptType, FlagType, SocketType, DelayType
<1>15. CASE UNCHANGED vars
  BY <1>15 DEF vars, attemptVars, socketVars, AttemptType, FlagType, SocketType, DelayType
<1> QED
  BY <1>2, <1>3, <1>4, <1>5, <1>6, <1>7, <1>8, <1>9, <1>10, <1>11, <1>12, <1>13, <1>14,
     <1>15, Steps

LEMMA TypeInit == Init => Types
<1> SUFFICES ASSUME Init PROVE Types
  OBVIOUS
<1>1. AttemptType
  BY ConstantsAssumption DEF Init, AttemptType, Places
<1>2. FlagType
  BY DEF Init, NoAccess, FlagType
<1>3. SocketType
  BY DEF Init, SocketType
<1>4. DelayType
  BY DEF Init, DelayType
<1> QED
  BY <1>1, <1>2, <1>3, <1>4 DEF Types

\* The variables have their types.
THEOREM TypeCorrect == Spec => []TypeOK
<1>1. Types /\ [Next]_vars => Types'
  BY TypeStep
<1>2. Types => TypeOK
  BY Parts
<1> QED
  BY <1>1, <1>2, TypeInit, PTL DEF Spec
-------------------------------------------------------------------------------
(***************************************************************************)
(* The invariant.                                                          *)
(***************************************************************************)

\* Nothing is open while an attempt is in progress.
Attempting == at # "none" => completer # None /\ ws = None /\ streak >= 0

\* What browser and handlers know of a socket agree, and one that was opened is
\* the completer's; an open one is ws_.
Handled(i) ==
    /\ conn[i] = "connecting" <=> (at = "dial" /\ completer = i)
    /\ state[i] = "connect" <=> conn[i] = "connecting"
    /\ state[i] = "opened" <=> conn[i] \in {"open", "closing"}
    /\ state[i] = "opened" => at = "none" /\ (~closed => completer = i)
    /\ conn[i] = "open" => ~closed /\ ws = i /\ (first[i] => streak >= 0)

Kept == ws # None => ~closed /\ state[ws] = "opened"

\* The loop of _connect waits for the attempt, or an opened socket will call it.
Looping ==
    /\ ~closed /\ at = "none" =>
         waiting = 0 /\ completer # None /\ state[completer] = "opened"
    /\ ~closed /\ at # "none" => waiting = 1

\* A refresh that is asked for follows a failure.
Refreshing ==
    /\ access.refresh => /\ ~closed /\ at # "dial" /\ streak >= 0
                         /\ at # "none" => streak >= 1
                         /\ \A i \in Sockets : conn[i] # "open"
    /\ at = "refresh" => streak >= 1

Inv == Attempting /\ (\A i \in Sockets : Handled(i)) /\ Kept /\ Looping /\ Refreshing

LEMMA InvInit == Init => Inv
  BY ConstantsAssumption DEF Init, Inv, Attempting, Handled, Kept, Looping, Refreshing, NoAccess

\* The invariant, step by step.
LEMMA InvStep == Types /\ Types' /\ Inv /\ [Next]_vars => Inv'
<1> SUFFICES ASSUME Types, Types', Inv, [Next]_vars PROVE Inv'
  OBVIOUS
<1> USE ConstantsAssumption
    DEF Types, AttemptType, FlagType, SocketType, DelayType,
        Inv, Attempting, Handled, Kept, Looping, Refreshing
<1>1. ASSUME AwaitSession, UNCHANGED <<closed, session>>, at \in {"url", "refresh"} PROVE Inv'
  BY <1>1 DEF AwaitSession, Dial, socketVars
<1>2. CASE Url
  BY <1>2 DEF Url, AwaitSession, Dial, socketVars
<1>3. CASE Write
  BY <1>3 DEF Write, Begin, socketVars
<1>4. CASE DelayOver
  BY <1>4 DEF DelayOver, socketVars
<1>5. CASE RefreshReturns
  BY <1>5, <1>1 DEF RefreshReturns
<1>6. CASE RefreshFails
  BY <1>6 DEF RefreshFails, Rejected, NoAttempt, Begin, socketVars
<1>7. CASE Signin
  BY <1>7 DEF Signin, Dial, attemptVars, socketVars
<1>8. CASE Signout
  BY <1>8 DEF Signout, attemptVars, socketVars
<1>9. CASE Close
  <2>2. CASE CloseInDelay
    BY <1>9, <2>2 DEF Close, CloseInDelay, NoAttempt, NoAccess, socketVars
  <2>3. CASE CloseInSession
    BY <1>9, <2>3 DEF Close, CloseInSession, Dial
  <2>4. CASE CloseElse
    BY <1>9, <2>4 DEF Close, CloseElse, NoAccess, attemptVars
  <2> QED
    BY <1>9, <2>2, <2>3, <2>4 DEF Close
<1>10. ASSUME NEW i \in Sockets, Open(i) PROVE Inv'
  BY <1>10 DEF Open, NoAttempt
<1>11. ASSUME NEW i \in Sockets, Error(i) PROVE Inv'
  BY <1>11 DEF Error, Count, Rejected, NoAttempt, Begin, Ended, Reconnect, Forget
<1>12. ASSUME NEW i \in Sockets, OnClose(i) PROVE Inv'
  BY <1>12 DEF OnClose, Ended, Reconnect, Forget, Count, Begin, attemptVars
<1>13. ASSUME NEW i \in Sockets, Accepted(i) PROVE Inv'
  BY <1>13 DEF Accepted, attemptVars
<1>14. ASSUME NEW i \in Sockets, Refused(i) PROVE Inv'
  BY <1>14 DEF Refused, attemptVars
<1>15. CASE UNCHANGED vars
  BY <1>15 DEF vars, attemptVars, socketVars
<1> QED
  BY <1>2, <1>3, <1>4, <1>5, <1>6, <1>7, <1>8, <1>9, <1>10, <1>11, <1>12, <1>13, <1>14,
     <1>15, Steps
-------------------------------------------------------------------------------
(***************************************************************************)
(* The theorems.                                                           *)
(***************************************************************************)

\* What holds of every behaviour.
LEMMA Invariant == Spec => [](Types /\ Inv)
<1>1. Init => Types /\ Inv
  BY TypeInit, InvInit
<1>2. (Types /\ Inv) /\ [Next]_vars => (Types /\ Inv)'
  BY TypeStep, InvStep
<1> QED
  BY <1>1, <1>2, PTL DEF Spec

\* At most one socket is connecting or open.
THEOREM OneAtATime == Spec => []OneConnection
<1>1. Types /\ Inv => OneConnection
  BY DEF Types, AttemptType, SocketType, Inv, Attempting, Handled, OneConnection, Live
<1> QED
  BY <1>1, Invariant, PTL

\* A client that was closed has no open socket.
THEOREM SilentOnceClosed == Spec => []ClosedIsSilent
<1>1. Inv => ClosedIsSilent
  BY DEF Inv, Handled, ClosedIsSilent
<1> QED
  BY <1>1, Invariant, PTL

\* A client that is not closed tries, or has a socket.
THEOREM NeverAtRest == Spec => []KeepsTrying
<1>1. Types /\ Inv => KeepsTrying
  BY DEF Types, AttemptType, Inv, Attempting, Handled, Looping, KeepsTrying
<1> QED
  BY <1>1, Invariant, PTL

\* The table of delays.
LEMMA Delays ==
    /\ Due(-1) = 0 /\ Due(0) = -1 /\ Due(1) = 2
    /\ Due(2) = 4 /\ Due(3) = 8 /\ Due(4) = 16
  BY DEF Due

\* A socket that ends takes the delay to the next of the table.
LEMMA NextDelay ==
    ASSUME NEW n \in -1..4
    PROVE  Longer(Due(n)) = Due(IF n < 4 THEN n + 1 ELSE 4)
<1>1. CASE n = -1
  BY <1>1, Delays DEF Longer
<1>2. CASE n = 0
  BY <1>2, Delays DEF Longer
<1>3. CASE n = 1
  BY <1>3, Delays DEF Longer
<1>4. CASE n = 2
  BY <1>4, Delays DEF Longer
<1>5. CASE n = 3
  BY <1>5, Delays DEF Longer
<1>6. CASE n = 4
  BY <1>6, Delays DEF Longer
<1> QED
  BY <1>1, <1>2, <1>3, <1>4, <1>5, <1>6

\* The delay is the one of the table, whatever the step.
LEMMA DelayStep ==
    ASSUME Types, Inv, delay = Due(streak), [Next]_vars
    PROVE  delay' = Due(streak')
<1>1. streak \in -1..4
  BY DEF Types, DelayType
<1>2. CASE UNCHANGED <<delay, streak>>
  BY <1>2
<1>3. ASSUME NEW i \in Sockets, conn[i] # "failed", Count(i), delay' = Longer(delay)
      PROVE  delay' = Due(streak')
  BY <1>1, <1>3, NextDelay DEF Count
<1>4. ASSUME NEW i \in Sockets, state[i] = "opened", Ended(i) PROVE delay' = Due(streak')
  BY <1>3, <1>4 DEF Inv, Handled, Ended
<1>5. ASSUME NEW i \in Sockets, Error(i) PROVE delay' = Due(streak')
  BY <1>3, <1>4, <1>5 DEF Error
<1>6. ASSUME NEW i \in Sockets, OnClose(i) PROVE delay' = Due(streak')
  BY <1>2, <1>4, <1>6 DEF OnClose
<1>7. ASSUME NEW i \in Sockets, Accepted(i) PROVE delay' = Due(streak')
  BY <1>7, Delays DEF Accepted
<1>8. ASSUME NEW i \in Sockets, Open(i) \/ Refused(i) PROVE UNCHANGED <<delay, streak>>
  BY <1>8 DEF Open, Refused
<1>9. ASSUME Url \/ Write \/ DelayOver \/ RefreshReturns \/ RefreshFails \/ Signin \/ Signout
             \/ Close \/ UNCHANGED vars
      PROVE  UNCHANGED <<delay, streak>>
  BY <1>9 DEF Url, Write, DelayOver, RefreshReturns, RefreshFails, Signin, Signout, Close,
              AwaitSession, Dial, vars
<1> QED
  BY <1>2, <1>5, <1>6, <1>7, <1>8, <1>9, Steps

\* The delay doubles with every failure, and a refresh is repeated after one only.
THEOREM BacksOffAlways == Spec => []BacksOff
<1> DEFINE DelayInv == delay = Due(streak)
<1>1. Init => DelayInv
  BY Delays DEF Init
<1>2. (Types /\ Inv) /\ DelayInv /\ [Next]_vars => DelayInv'
  BY DelayStep
<1>3. (Types /\ Inv) /\ DelayInv => BacksOff
  <2> SUFFICES ASSUME Types, Inv, DelayInv, at = "refresh" PROVE delay > 0
    BY DEF BacksOff
  <2>1. streak \in 1..4
    BY DEF Types, DelayType, Inv, Refreshing
  <2>2. streak = 1 \/ streak = 2 \/ streak = 3 \/ streak = 4
    BY <2>1
  <2> QED
    BY <2>2, Delays
<1> HIDE DEF DelayInv
<1> QED
  BY <1>1, <1>2, <1>3, Invariant, PTL DEF Spec
-------------------------------------------------------------------------------
(***************************************************************************)
(* The client implements Subscription (its safety part).                   *)
(***************************************************************************)

\* Only close closes the client, for good.
LEMMA OnlyClose ==
    ASSUME [Next]_vars
    PROVE  closed' = closed \/ Close
<1>1. ASSUME NEW i \in Sockets, Open(i) \/ Error(i) \/ OnClose(i) \/ Accepted(i) \/ Refused(i)
      PROVE  closed' = closed
  BY <1>1 DEF Open, Error, OnClose, Accepted, Refused
<1>2. ASSUME Url \/ Write \/ DelayOver \/ RefreshReturns \/ RefreshFails \/ Signin \/ Signout
             \/ UNCHANGED vars
      PROVE  closed' = closed
  BY <1>2 DEF Url, Write, DelayOver, RefreshReturns, RefreshFails, Signin, Signout, vars
<1> QED
  BY <1>1, <1>2, Steps

\* A client that was closed and is at rest stays so: nothing begins again.
LEMMA RestIsFinal ==
    ASSUME closed, AtRest, [Next]_vars
    PROVE  AtRest'
<1>1. ASSUME NEW i \in Sockets PROVE ~(Open(i) \/ Error(i) \/ OnClose(i) \/ Accepted(i) \/ Refused(i))
  BY <1>1 DEF AtRest, Open, Error, OnClose, Accepted, Refused
<1>2. ~(Url \/ DelayOver \/ RefreshReturns \/ RefreshFails \/ Write \/ Close)
  BY DEF AtRest, Url, DelayOver, RefreshReturns, RefreshFails, Write, Close
<1>3. Signin \/ Signout \/ UNCHANGED vars => UNCHANGED <<at, waiting, writers, conn>>
  BY DEF AtRest, Signin, Signout, vars, attemptVars, socketVars
<1> QED
  BY <1>1, <1>2, <1>3, Steps DEF AtRest

\* Whoever closes a client that is connected waits for the socket.
LEMMA CloseWaits ==
    ASSUME Types, Close, NEW i \in Sockets, conn[i] = "open"
    PROVE  ~AtRest'
<1>1. conn'[i] # "free"
  BY DEF Types, SocketType, Close, CloseInDelay, CloseInSession, Dial, CloseElse, socketVars
<1> QED
  BY <1>1 DEF AtRest

\* Whatever the order of reports, calls and timers, a client that is closed comes
\* to rest only once its sockets are closed, and begins nothing again.
THEOREM RefinesSubscription == Spec => S!Init /\ [][S!Next]_Phase
<1>1. Init => S!Init
  BY DEF Init, S!Init, Phase
<1>2. Types /\ [Next]_vars => [S!Next]_Phase
  <2> SUFFICES ASSUME Types, [Next]_vars, Phase' # Phase PROVE <<Phase, Phase'>> \in S!Steps
    BY DEF S!Next
  <2>1. CASE closed' = closed /\ closed
    <3>1. Phase' = "over" \/ Phase' = "closed"
      BY <2>1 DEF Phase
    <3>2. Phase = "over" \/ Phase = "closed"
      BY <2>1 DEF Phase
    <3>3. Phase = "over" => Phase' = "over"
      BY <2>1, RestIsFinal DEF Phase
    <3> QED
      BY <3>1, <3>2, <3>3 DEF S!Steps
  <2>2. CASE closed' = closed /\ ~closed
    BY <2>2 DEF Phase, S!Steps
  <2>3. CASE Close
    <3>1. ~closed /\ closed'
      BY <2>3 DEF Close
    <3>2. CASE \E i \in Sockets : conn[i] = "open"
      BY <2>3, <3>1, <3>2, CloseWaits DEF Phase, S!Steps
    <3>3. CASE ~\E i \in Sockets : conn[i] = "open"
      BY <3>1, <3>3 DEF Phase, S!Steps
    <3> QED
      BY <3>2, <3>3
  <2> QED
    BY <2>1, <2>2, <2>3, OnlyClose
<1> QED
  BY <1>1, <1>2, Invariant, PTL DEF Spec
===============================================================================
