------------------------------ MODULE LogMonitor ------------------------------
(***************************************************************************)
(* The console monitor of package logger and the clients attached to it:   *)
(* logger/listener.go and the Attach handler of m/server/logger.           *)
(*                                                                         *)
(* One goroutine, the reader of the console's LoggerCache, calls           *)
(* writerMonitor.Write with one chunk of output after another (here a      *)
(* line, known by its number).  Under the monitor's mutex it offers the    *)
(* line to every listener, in the order a map is ranged over, which is any *)
(* order.  An offer never waits: a full channel loses its oldest line.     *)
(* Each attached client is one call of Attach with a listener of its own,  *)
(* whose context may end at any moment.                                    *)
(*                                                                         *)
(* A select of the code is one action: it takes any of its ready cases,    *)
(* and its default when none is ready.                                     *)
(***************************************************************************)
EXTENDS Integers, Sequences

CONSTANTS Clients,   \* calls of Attach
          Capacity,  \* of a listener's channel
          MaxLines,  \* lines written (bound of the model)
          Nobody

ASSUME ConstantsAssumption ==
    /\ Capacity \in Nat \ {0}
    /\ MaxLines \in Nat
    /\ Nobody \notin Clients

VARIABLES
    written,    \* lines written to stdout
    wpc,        \* where the writer is in Write and OnChanged
    todo,       \* listeners the range loop has still to visit
    target,     \* the listener it is offering the line to
    listeners,  \* monitor.listeners
    ch,         \* client |-> the listener's channel
    done,       \* clients whose context has ended
    pc,         \* client |-> where its Attach is
    data,       \* client |-> the line it took from the channel last, or 0
    sent,       \* client |-> the line sent last, or 0
    due         \* client |-> the last line whose broadcast found it registered, or 0

writerVars == <<written, wpc, todo, target>>
clientVars == <<pc, data, sent>>
vars == <<writerVars, listeners, ch, done, clientVars, due>>

Lines == 1..MaxLines

WriterSteps == {"idle", "lock", "range", "push", "pop", "repush", "error"}
AttachSteps == {"hello", "add", "loop", "send", "remove", "end"}

\* The mutex is held by the writer from its Lock to its Unlock, and by
\* AddListener and RemoveListener for the length of their one step.
Locked == wpc \notin {"idle", "lock"}

Init ==
    /\ written = 0
    /\ wpc = "idle"
    /\ todo = {}
    /\ target = Nobody
    /\ listeners = {}
    /\ ch = [c \in Clients |-> <<>>]
    /\ done = {}
    /\ pc = [c \in Clients |-> "hello"]
    /\ data = [c \in Clients |-> 0]
    /\ sent = [c \in Clients |-> 0]
    /\ due = [c \in Clients |-> 0]
-------------------------------------------------------------------------------
(***************************************************************************)
(* writerMonitor.Write and OnChanged.                                      *)
(***************************************************************************)

\* The line reaches stdout before the mutex is asked for.
WriteStdout ==
    /\ wpc = "idle"
    /\ written < MaxLines
    /\ written' = written + 1
    /\ wpc' = "lock"
    /\ UNCHANGED <<todo, target, listeners, ch, done, clientVars, due>>

Lock ==
    /\ wpc = "lock"
    /\ wpc' = "range"
    /\ todo' = listeners
    /\ due' = [c \in Clients |-> IF c \in listeners THEN written ELSE due[c]]
    /\ UNCHANGED <<written, target, listeners, ch, done, clientVars>>

Visit(c) ==
    /\ wpc = "range"
    /\ c \in todo
    /\ todo' = todo \ {c}
    /\ target' = c
    /\ wpc' = "push"
    /\ UNCHANGED <<written, listeners, ch, done, clientVars, due>>

Unlock ==
    /\ wpc = "range"
    /\ todo = {}
    /\ wpc' = "idle"
    /\ UNCHANGED <<written, todo, target, listeners, ch, done, clientVars, due>>

\* OnChanged is over for this listener.
Return ==
    /\ wpc' = "range"
    /\ target' = Nobody

GiveUp ==
    /\ target \in done
    /\ Return
    /\ UNCHANGED ch

\* Mutant of PushLine: the line is not copied, and the lines that are queued
\* are overwritten when the buffer of the logger is filled again.
PushLine_Shared ==
    /\ Len(ch[target]) < Capacity
    /\ ch' = [ch EXCEPT ![target] = [i \in 1..Len(@) + 1 |-> written]]
    /\ Return

PushLine ==
    /\ Len(ch[target]) < Capacity
    /\ ch' = [ch EXCEPT ![target] = Append(@, written)]
    /\ Return

NoneReady == target \notin done /\ Len(ch[target]) = Capacity

\* Mutant of Push: a full channel loses the new line.
Push_DropsNew ==
    /\ wpc = "push"
    /\ \/ GiveUp
       \/ PushLine
       \/ NoneReady /\ Return /\ UNCHANGED ch
    /\ UNCHANGED <<written, todo, listeners, done, clientVars, due>>

\* Mutant of Push: it waits until the channel has room.
Push_Waits ==
    /\ wpc = "push"
    /\ GiveUp \/ PushLine
    /\ UNCHANGED <<written, todo, listeners, done, clientVars, due>>

\* The first select: give up, push, or go on to make room.
Push ==
    /\ wpc = "push"
    /\ \/ GiveUp
       \/ PushLine
       \/ NoneReady /\ wpc' = "pop" /\ UNCHANGED <<target, ch>>
    /\ UNCHANGED <<written, todo, listeners, done, clientVars, due>>

\* Mutant of Pop: room is made at the wrong end.
Pop_Newest ==
    /\ wpc = "pop"
    /\ \/ GiveUp
       \/ /\ ch[target] # <<>>
          /\ ch' = [ch EXCEPT ![target] = SubSeq(@, 1, Len(@) - 1)]
          /\ wpc' = "repush"
          /\ UNCHANGED target
       \/ /\ target \notin done
          /\ ch[target] = <<>>
          /\ wpc' = "repush"
          /\ UNCHANGED <<target, ch>>
    /\ UNCHANGED <<written, todo, listeners, done, clientVars, due>>

\* The second select: the oldest line is dropped, unless the client has just
\* emptied the channel.
Pop ==
    /\ wpc = "pop"
    /\ \/ GiveUp
       \/ /\ ch[target] # <<>>
          /\ ch' = [ch EXCEPT ![target] = Tail(@)]
          /\ wpc' = "repush"
          /\ UNCHANGED target
       \/ /\ target \notin done
          /\ ch[target] = <<>>
          /\ wpc' = "repush"
          /\ UNCHANGED <<target, ch>>
    /\ UNCHANGED <<written, todo, listeners, done, clientVars, due>>

\* The third select, whose default reports `pop then push error` through the
\* logger, and so to the very goroutine that is here.
PushAgain ==
    /\ wpc = "repush"
    /\ \/ GiveUp
       \/ PushLine
       \/ NoneReady /\ wpc' = "error" /\ UNCHANGED <<target, ch>>
    /\ UNCHANGED <<written, todo, listeners, done, clientVars, due>>
-------------------------------------------------------------------------------
(***************************************************************************)
(* Attach.                                                                 *)
(***************************************************************************)

\* An empty response first; when it cannot be sent nothing was registered.
Hello(c) ==
    /\ pc[c] = "hello"
    /\ \E next \in {"add", "end"} : pc' = [pc EXCEPT ![c] = next]
    /\ UNCHANGED <<writerVars, listeners, ch, done, data, sent, due>>

AddListener(c) ==
    /\ pc[c] = "add"
    /\ ~Locked
    /\ listeners' = listeners \cup {c}
    /\ pc' = [pc EXCEPT ![c] = "loop"]
    /\ UNCHANGED <<writerVars, ch, done, data, sent, due>>

\* The select of the loop: the context has ended ...
Leave(c) ==
    /\ pc[c] = "loop"
    /\ c \in done
    /\ pc' = [pc EXCEPT ![c] = "remove"]
    /\ UNCHANGED <<writerVars, listeners, ch, done, data, sent, due>>

\* ... or a line is there, ...
Receive(c) ==
    /\ pc[c] = "loop"
    /\ ch[c] # <<>>
    /\ data' = [data EXCEPT ![c] = Head(ch[c])]
    /\ ch' = [ch EXCEPT ![c] = Tail(@)]
    /\ pc' = [pc EXCEPT ![c] = "send"]
    /\ UNCHANGED <<writerVars, listeners, done, sent, due>>

\* ... which is sent, or fails to be.
Send(c) ==
    /\ pc[c] = "send"
    /\ \/ /\ sent' = [sent EXCEPT ![c] = data[c]]
          /\ pc' = [pc EXCEPT ![c] = "loop"]
       \/ /\ pc' = [pc EXCEPT ![c] = "remove"]
          /\ UNCHANGED sent
    /\ UNCHANGED <<writerVars, listeners, ch, done, data, due>>

RemoveListener(c) ==
    /\ pc[c] = "remove"
    /\ ~Locked
    /\ listeners' = listeners \ {c}
    /\ pc' = [pc EXCEPT ![c] = "end"]
    /\ UNCHANGED <<writerVars, ch, done, data, sent, due>>

\* The client goes away, its deadline passes, the server stops; grpc ends the
\* context of a handler that has returned.
Cancel(c) ==
    /\ c \notin done
    /\ done' = done \cup {c}
    /\ UNCHANGED <<writerVars, listeners, ch, clientVars, due>>
-------------------------------------------------------------------------------
Writer == WriteStdout \/ Lock \/ (\E c \in Clients : Visit(c)) \/ Unlock \/ Push \/ Pop \/ PushAgain

Attach(c) == Hello(c) \/ AddListener(c) \/ Leave(c) \/ Receive(c) \/ Send(c) \/ RemoveListener(c)

Next == Writer \/ \E c \in Clients : Attach(c) \/ Cancel(c)

Spec == Init /\ [][Next]_vars

\* Goroutines run.  A mutex of sync is handed on to a waiter that has waited
\* long, and a select picks among its ready cases at random: strong fairness
\* of what waits for either.  Nothing makes Send return but the client's
\* reading, or the end of the context.
AttachRuns(c) ==
    /\ SF_vars(AddListener(c) \/ RemoveListener(c) \/ Leave(c))
    /\ WF_vars(Hello(c) \/ Receive(c) \/ (c \in done /\ Send(c)))

FairSpec == Spec /\ WF_vars(Writer) /\ \A c \in Clients : AttachRuns(c)
-------------------------------------------------------------------------------
TypeOK ==
    /\ written \in 0..MaxLines
    /\ wpc \in WriterSteps
    /\ todo \in SUBSET Clients
    /\ target \in Clients \cup {Nobody}
    /\ listeners \in SUBSET Clients
    /\ ch \in [Clients -> Seq(Lines)]
    /\ \A c \in Clients : Len(ch[c]) <= Capacity
    /\ done \in SUBSET Clients
    /\ pc \in [Clients -> AttachSteps]
    /\ data \in [Clients -> 0..MaxLines]
    /\ sent \in [Clients -> 0..MaxLines]
    /\ due \in [Clients -> 0..MaxLines]

\* The error of the third select, which would log from inside the logger with
\* the mutex held, does not occur: whatever the client takes in between, the
\* channel has room once a line was popped.
PopMakesRoom == wpc # "error"

\* What a client sees is a subsequence of the lines: no line twice, none out
\* of order, none that was not written yet, however the drops and the
\* receives interleave.
InOrder ==
    \A c \in Clients :
      /\ sent[c] <= data[c]
      /\ pc[c] = "send" => sent[c] < data[c]
      /\ \A i \in DOMAIN ch[c] : data[c] < ch[c][i] /\ ch[c][i] <= written
      /\ \A i, j \in DOMAIN ch[c] : i < j => ch[c][i] < ch[c][j]

\* The newest line on its way to a client, or sent to it.
Newest(c) == IF ch[c] # <<>> THEN ch[c][Len(ch[c])] ELSE data[c]

\* A client that listens is never cut off from the present: drops take old
\* lines only, and the line broadcast last is with it or queued for it.
NewestKept ==
    \A c \in listeners :
      c \notin done /\ c \notin todo /\ c # target => Newest(c) >= due[c]

\* The line being logged has still to be offered to c.
Awaited(c) == wpc = "lock" \/ c \in todo \/ c = target

\* Lines are lost at the old end only: what is queued for a client that listens
\* is an unbroken run of lines up to the one offered last, whatever it takes
\* between the selects that drop a line and push another.
QueueUnbroken ==
    \A c \in listeners \ done : \A i \in DOMAIN ch[c] :
      ch[c][i] + (Len(ch[c]) - i) = IF Awaited(c) THEN written - 1 ELSE written

\* A client that does not read, or has gone, does not hold up the logger.
BroadcastEnds == (wpc # "idle") ~> (wpc = "idle")
===============================================================================
