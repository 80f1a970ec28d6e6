--------------------------- MODULE WebsocketForward ---------------------------
(***************************************************************************)
(* One browser attached to the log over a websocket: Websocket and         *)
(* websocketForward of m/web/websocket.go, and the handler attach of       *)
(* m/web/api/v1/logger.go that connects the websocket to a stream of gRPC. *)
(*                                                                         *)
(* attach opens the stream and calls Serve, which starts two goroutines:   *)
(* request reads from the browser, response receives from the stream and   *)
(* writes to the browser.  Whichever ends first closes the channel cancel, *)
(* on which Serve waits to shut the websocket; that, and the end of the    *)
(* request's context when attach returns, end the other.                   *)
(*                                                                         *)
(* gorilla/websocket, net/http and the transport of gRPC are external: a   *)
(* websocket fails to read once it is closed or the browser has gone, to   *)
(* write only then, and may write into the void; the context of a hijacked *)
(* request ends when its handler returns; Recv gives what has arrived, and *)
(* an error at the end of the stream or of the context.                    *)
(***************************************************************************)
EXTENDS Naturals, Sequences, FiniteSets

CONSTANTS Lines,       \* what the stream may carry; 0 is an empty response
          MaxMessages, \* messages in a behaviour (bound of the model)
          MayReject    \* Forward.Request may fail; that of attach never does

ASSUME ConstantsAssumption ==
    /\ Lines \subseteq Nat
    /\ MaxMessages \in Nat
    /\ MayReject \in BOOLEAN

VARIABLES
    pc,        \* where the three goroutines are
    gone,      \* the browser closed the websocket, or cannot be reached
    open,      \* the websocket has not been closed here
    locker,    \* who holds w.locker
    closed,    \* wf.closed
    cancel,    \* wf.cancel is closed
    panicked,  \* close(wf.cancel) ran on the closed channel
    queue,     \* messages of the stream that have arrived
    ended,     \* the stream's server has returned
    ctx,       \* the context of the request is alive
    msg,       \* the message response is writing
    counted,   \* messages response has written
    frames     \* what the browser was sent

netVars == <<gone, queue, ended>>
flagVars == <<closed, cancel, panicked>>
writeVars == <<msg, counted, frames, locker>>
vars == <<pc, netVars, open, flagVars, ctx, writeVars>>

Loops == {"request", "response"}

ServePC == {"attach", "refuse", "wait", "shut", "closeSend", "return", "end"}
LoopPC == {"off", "read", "recv", "lock", "write", "errLock", "errWrite",
           "load", "swap", "close", "end"}

Data(m) == [kind |-> "data", line |-> m]
Success == [kind |-> "success", line |-> 0]
Error   == [kind |-> "error", line |-> 0]
Frames  == {Success, Error} \cup {Data(m) : m \in Lines}

Goto(g, l) == pc' = [pc EXCEPT ![g] = l]

Init ==
    /\ pc = [serve |-> "attach", request |-> "off", response |-> "off"]
    /\ gone = FALSE
    /\ open = TRUE
    /\ locker = {}
    /\ closed = 0
    /\ cancel = FALSE
    /\ panicked = FALSE
    /\ queue = <<>>
    /\ ended = FALSE
    /\ ctx = TRUE
    /\ msg = 0
    /\ counted = 0
    /\ frames = <<>>
-------------------------------------------------------------------------------
(***************************************************************************)
(* attach and Serve.                                                       *)
(***************************************************************************)

\* The stream is opened and both goroutines are started, or it is refused.
Attach ==
    /\ pc["serve"] = "attach"
    /\ \/ pc' = [serve |-> "wait", request |-> "read", response |-> "recv"]
       \/ Goto("serve", "refuse")
    /\ UNCHANGED <<netVars, open, flagVars, ctx, writeVars>>

\* A frame is on its way: written to an open websocket, lost when the browser
\* has gone, refused when it has gone or the websocket is closed.
Written(f) == open /\ frames' = IF gone THEN frames ELSE Append(frames, f)
Unwritten == (gone \/ ~open) /\ UNCHANGED frames

Refuse ==
    /\ pc["serve"] = "refuse"
    /\ Written(Error) \/ Unwritten
    /\ Goto("serve", "return")
    /\ UNCHANGED <<netVars, open, flagVars, ctx, msg, counted, locker>>

Wake ==
    /\ pc["serve"] = "wait"
    /\ cancel
    /\ Goto("serve", "shut")
    /\ UNCHANGED <<netVars, open, flagVars, ctx, writeVars>>

\* Mutant of Shut: the websocket is left to the deferred Close of a caller
\* that waits for request to end first.
Shut_StaysOpen ==
    /\ pc["serve"] = "shut"
    /\ pc["request"] = "end"
    /\ Goto("serve", "closeSend")
    /\ UNCHANGED <<netVars, open, flagVars, ctx, writeVars>>

Shut ==
    /\ pc["serve"] = "shut"
    /\ open' = FALSE
    /\ Goto("serve", "closeSend")
    /\ UNCHANGED <<netVars, flagVars, ctx, writeVars>>

\* f.CloseSend: the server of the stream is not told to stop by it.
CloseSend ==
    /\ pc["serve"] = "closeSend"
    /\ Goto("serve", "return")
    /\ UNCHANGED <<netVars, open, flagVars, ctx, writeVars>>

\* Mutant of Return: the stream was opened with a context of its own.
Return_Background ==
    /\ pc["serve"] = "return"
    /\ open' = FALSE
    /\ Goto("serve", "end")
    /\ UNCHANGED <<netVars, flagVars, ctx, writeVars>>

\* The deferred Close, after which net/http ends the context.
Return ==
    /\ pc["serve"] = "return"
    /\ open' = FALSE
    /\ ctx' = FALSE
    /\ Goto("serve", "end")
    /\ UNCHANGED <<netVars, flagVars, writeVars>>
-------------------------------------------------------------------------------
(***************************************************************************)
(* request and response.                                                   *)
(***************************************************************************)

\* ReadMessage fails.  (A message that is read and accepted changes nothing.)
ReadFails ==
    /\ pc["request"] = "read"
    /\ gone \/ ~open
    /\ Goto("request", "load")
    /\ UNCHANGED <<netVars, open, flagVars, ctx, writeVars>>

\* A message of the browser is refused, by its type or by Forward.Request.
Reject ==
    /\ pc["request"] = "read"
    /\ MayReject /\ open /\ ~gone
    /\ Goto("request", "errLock")
    /\ UNCHANGED <<netVars, open, flagVars, ctx, writeVars>>

Recv ==
    /\ pc["response"] = "recv"
    /\ \/ /\ queue # <<>>
          /\ msg' = Head(queue)
          /\ queue' = Tail(queue)
          /\ Goto("response", "lock")
       \/ /\ ~ctx \/ (ended /\ queue = <<>>)
          /\ Goto("response", "errLock")
          /\ UNCHANGED <<msg, queue>>
    /\ UNCHANGED <<gone, ended, open, flagVars, ctx, counted, frames, locker>>

\* Mutant of Acquire: frames are written without the mutex.
Acquire_Unlocked(g) ==
    /\ \/ pc[g] = "lock" /\ Goto(g, "write")
       \/ pc[g] = "errLock" /\ Goto(g, "errWrite")
    /\ UNCHANGED <<netVars, open, flagVars, ctx, writeVars>>

\* w.locker.Lock in WriteMessage and WriteJSON.
Acquire(g) ==
    /\ locker = {}
    /\ locker' = {g}
    /\ \/ pc[g] = "lock" /\ Goto(g, "write")
       \/ pc[g] = "errLock" /\ Goto(g, "errWrite")
    /\ UNCHANGED <<netVars, open, flagVars, ctx, msg, counted, frames>>

\* What attach makes of a message: the empty response that comes first is
\* reported as success.
Frame == IF counted = 0 /\ msg = 0 THEN Success ELSE Data(msg)

WriteResponse ==
    /\ pc["response"] = "write"
    /\ \/ Written(Frame) /\ counted' = counted + 1 /\ Goto("response", "recv")
       \/ Unwritten /\ Goto("response", "errLock") /\ UNCHANGED counted
    /\ locker' = {}
    /\ UNCHANGED <<netVars, open, flagVars, ctx, msg>>

\* Mutant of WriteError: the goroutine just ends, with nothing sent.
WriteError_Silent(g) ==
    /\ pc[g] = "errWrite"
    /\ locker' = {}
    /\ Goto(g, "load")
    /\ UNCHANGED <<netVars, open, flagVars, ctx, msg, counted, frames>>

\* wf.w.Error(e), whose own error is ignored.
WriteError(g) ==
    /\ pc[g] = "errWrite"
    /\ Written(Error) \/ Unwritten
    /\ locker' = {}
    /\ Goto(g, "load")
    /\ UNCHANGED <<netVars, open, flagVars, ctx, msg, counted>>

\* The read of wf.closed is not atomic: it may miss the other's store.
Load(g) ==
    /\ pc[g] = "load"
    /\ \/ Goto(g, "swap")
       \/ closed = 1 /\ Goto(g, "end")
    /\ UNCHANGED <<netVars, open, flagVars, ctx, writeVars>>

\* Mutant of Swap: a store in place of atomic.SwapInt32.
Swap_Store(g) ==
    /\ pc[g] = "swap"
    /\ closed' = 1
    /\ Goto(g, "close")
    /\ UNCHANGED <<netVars, open, cancel, panicked, ctx, writeVars>>

Swap(g) ==
    /\ pc[g] = "swap"
    /\ closed' = 1
    /\ Goto(g, IF closed = 0 THEN "close" ELSE "end")
    /\ UNCHANGED <<netVars, open, cancel, panicked, ctx, writeVars>>

\* Mutant of CloseCancel: only request closes the channel.
CloseCancel_RequestOnly(g) ==
    /\ pc[g] = "close"
    /\ cancel' = (cancel \/ g = "request")
    /\ panicked' = (panicked \/ cancel)
    /\ Goto(g, "end")
    /\ UNCHANGED <<netVars, open, closed, ctx, writeVars>>

CloseCancel(g) ==
    /\ pc[g] = "close"
    /\ cancel' = TRUE
    /\ panicked' = (panicked \/ cancel)
    /\ Goto(g, "end")
    /\ UNCHANGED <<netVars, open, closed, ctx, writeVars>>
-------------------------------------------------------------------------------
(***************************************************************************)
(* The browser and the stream.                                             *)
(***************************************************************************)
Leave ==
    /\ ~gone
    /\ gone' = TRUE
    /\ UNCHANGED <<pc, queue, ended, open, flagVars, ctx, writeVars>>

Arrive(m) ==
    /\ pc["serve"] # "attach"
    /\ ~ended
    /\ counted + Len(queue) < MaxMessages
    /\ queue' = Append(queue, m)
    /\ UNCHANGED <<pc, gone, ended, open, flagVars, ctx, writeVars>>

StreamEnds ==
    /\ ~ended
    /\ ended' = TRUE
    /\ UNCHANGED <<pc, gone, queue, open, flagVars, ctx, writeVars>>
-------------------------------------------------------------------------------
Finish(g) == Load(g) \/ Swap(g) \/ CloseCancel(g)

Serve == Attach \/ Refuse \/ Wake \/ Shut \/ CloseSend \/ Return
Request == ReadFails \/ Reject \/ Acquire("request") \/ WriteError("request") \/ Finish("request")
Response == \/ Recv \/ WriteResponse
            \/ Acquire("response") \/ WriteError("response") \/ Finish("response")
Handler == Serve \/ Request \/ Response

Next == Handler \/ Leave \/ StreamEnds \/ \E m \in Lines : Arrive(m)

Spec == Init /\ [][Next]_vars

(***************************************************************************)
(* Goroutines run and sync.Mutex starves nobody.  A write to a browser     *)
(* that is there ends only if the browser reads: there is no deadline.     *)
(***************************************************************************)
Writing == WriteResponse \/ Refuse \/ \E g \in Loops : WriteError(g)

Fairness ==
    /\ WF_vars(Attach \/ Wake \/ Shut \/ CloseSend \/ Return)
    /\ WF_vars(ReadFails)
    /\ WF_vars(Recv)
    /\ \A g \in Loops : SF_vars(Acquire(g)) /\ WF_vars(Finish(g))
    /\ WF_vars((gone \/ ~open) /\ Writing)

FairSpec == Spec /\ Fairness
-------------------------------------------------------------------------------
TypeOK ==
    /\ pc \in [{"serve"} \cup Loops -> ServePC \cup LoopPC]
    /\ pc["serve"] \in ServePC
    /\ \A g \in Loops : pc[g] \in LoopPC
    /\ gone \in BOOLEAN /\ open \in BOOLEAN
    /\ locker \in SUBSET Loops
    /\ closed \in {0, 1} /\ cancel \in BOOLEAN /\ panicked \in BOOLEAN
    /\ queue \in Seq(Lines) /\ ended \in BOOLEAN /\ ctx \in BOOLEAN
    /\ msg \in Lines \cup {0}
    /\ counted \in Nat
    /\ frames \in Seq(Frames)

\* wf.cancel is closed once (a second close would panic) although both
\* goroutines may find wf.closed unset.
CancelClosedOnce == ~panicked

\* gorilla/websocket allows one writer at a time, and panics on a second.
OneWriter == Cardinality({g \in Loops : pc[g] \in {"write", "errWrite"}}) <= 1

\* A browser that is still there when the websocket is closed was told why:
\* no way of ending skips the error frame.
ClosedIsExplained ==
    ~open /\ ~gone => \E i \in DOMAIN frames : frames[i] = Error

\* Success is reported once, before any data.
SuccessFirst ==
    \A i \in DOMAIN frames : frames[i] = Success =>
      \A j \in 1..(i - 1) : frames[j] = Error

\* Handler and goroutines have all ended.
Over == pc["serve"] = "end" /\ \A g \in Loops : pc[g] \in {"off", "end"}

\* No goroutine outlives a browser that has gone, nor a Serve that was woken,
\* whether or not the browser reads.
GoneEndsAll == (gone \/ cancel) ~> Over

\* With a browser that reads, the end of the stream ends everything, although
\* request is blocked in ReadMessage.
StreamEndEndsAll == WF_vars(Writing) => (ended ~> Over)
===============================================================================
