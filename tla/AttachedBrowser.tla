---------------------------- MODULE AttachedBrowser ----------------------------
(***************************************************************************)
(* The log, seen from a browser: the monitor and one call of Attach        *)
(* (LogMonitor) joined to the websocket that forwards its stream           *)
(* (WebsocketForward).  What Attach sends arrives in the order it is sent, *)
(* Window messages ahead of the reader at most; the end of the browser's   *)
(* request ends the context of the call; the return of the call ends the   *)
(* stream.                                                                 *)
(***************************************************************************)
EXTENDS Integers, Sequences

CONSTANTS Client,    \* the call of Attach
          Capacity,  \* of a listener's channel
          MaxLines,  \* lines written (bound of the model)
          Window,    \* messages in transit (flow control of HTTP/2)
          Nobody

ASSUME ConstantsAssumption ==
    /\ Capacity \in Nat \ {0} /\ MaxLines \in Nat /\ Window \in Nat
    /\ Nobody # Client

VARIABLES written, wpc, todo, target, listeners, ch, done, attach, data, sent, due,
          pc, gone, open, locker, closed, cancel, panicked, queue, ended, ctx, msg,
          counted, frames

Monitor == INSTANCE LogMonitor WITH Clients <- {Client}, pc <- attach

Forward == INSTANCE WebsocketForward
             WITH Lines <- 0..MaxLines, MaxMessages <- MaxLines + 2, MayReject <- FALSE

monitorVars == <<written, wpc, todo, target, listeners, ch, done, attach, data, sent, due>>
forwardVars == <<pc, gone, open, locker, closed, cancel, panicked, queue, ended, ctx, msg,
                 counted, frames>>
vars == <<monitorVars, forwardVars>>

Init == Monitor!Init /\ Forward!Init
-------------------------------------------------------------------------------
\* The call of Attach begins when the browser's handler has opened the stream.
HelloSent ==
    /\ pc["response"] # "off"
    /\ Monitor!Hello(Client) /\ attach'[Client] = "add"
    /\ Forward!Arrive(0)

HelloFails ==
    /\ Client \in done
    /\ Monitor!Hello(Client) /\ attach'[Client] = "end"
    /\ Forward!StreamEnds

LineSent ==
    /\ Len(queue) < Window
    /\ Monitor!Send(Client) /\ attach'[Client] = "loop"
    /\ Forward!Arrive(data[Client])

SendFails ==
    /\ Client \in done
    /\ Monitor!Send(Client) /\ attach'[Client] = "remove"
    /\ UNCHANGED forwardVars

\* The listener is removed and Attach returns.
AttachReturns == Monitor!RemoveListener(Client) /\ Forward!StreamEnds

\* The stream was opened with the context of the browser's request.
Cancelled == pc["response"] # "off" /\ ~ctx /\ Monitor!Cancel(Client) /\ UNCHANGED forwardVars

Log == Monitor!Writer /\ UNCHANGED forwardVars
Add == Monitor!AddListener(Client) /\ UNCHANGED forwardVars
Quit == Monitor!Leave(Client) /\ UNCHANGED forwardVars
Take == Monitor!Receive(Client) /\ UNCHANGED forwardVars

Handler == Forward!Handler /\ UNCHANGED monitorVars
Leave == Forward!Leave /\ UNCHANGED monitorVars

Next ==
    \/ HelloSent \/ HelloFails \/ LineSent \/ SendFails \/ AttachReturns \/ Cancelled
    \/ Log \/ Add \/ Quit \/ Take
    \/ Handler \/ Leave

Spec == Init /\ [][Next]_vars

(***************************************************************************)
(* As in the parts: what runs goes on, mutexes starve nobody, a select     *)
(* picks at random.  The loop of Attach that finds a line each time it     *)
(* looks still finds its context ended.                                    *)
(***************************************************************************)
Fairness ==
    /\ WF_vars(Log) /\ WF_vars(HelloSent \/ HelloFails) /\ WF_vars(Take) /\ WF_vars(Cancelled)
    /\ WF_vars(LineSent \/ SendFails)
    /\ SF_vars(Add \/ AttachReturns \/ Quit)
    /\ WF_vars(Handler /\ pc'["serve"] # pc["serve"] /\ pc["serve"] # "refuse")
    /\ WF_vars(Forward!ReadFails /\ UNCHANGED monitorVars)
    /\ WF_vars(Forward!Recv /\ UNCHANGED monitorVars)
    /\ \A g \in Forward!Loops : /\ SF_vars(Forward!Acquire(g) /\ UNCHANGED monitorVars)
                                /\ WF_vars(Forward!Finish(g) /\ UNCHANGED monitorVars)
    /\ WF_vars((gone \/ ~open) /\ Forward!Writing /\ UNCHANGED monitorVars)

FairSpec == Spec /\ Fairness
-------------------------------------------------------------------------------
IsData(f) == f.kind = "data"

\* The browser is told of success, then gets lines in the order they were
\* logged, none twice, none before it was written, and an error only to end.
BrowserInOrder ==
    /\ \A i \in DOMAIN frames : IsData(frames[i]) => frames[i].line <= written
    /\ \A i, j \in DOMAIN frames :
         i < j /\ IsData(frames[j]) =>
           \/ i = 1 /\ frames[i] = Forward!Success
           \/ IsData(frames[i]) /\ frames[i].line < frames[j].line

\* A browser that has gone is forgotten, by its handler, by the stream and by
\* the monitor, however the log goes on.
GoneIsForgotten == gone ~> [](Forward!Over /\ Client \notin listeners)

Reads == WF_vars(Forward!Writing /\ UNCHANGED monitorVars)

\* A browser that reads and stays gets the line broadcast last.
NewestReachesBrowser ==
    Reads =>
      ((Client \in listeners /\ due[Client] = MaxLines) ~>
       (gone \/ (frames # <<>> /\ frames[Len(frames)] = Forward!Data(MaxLines))))
===============================================================================
