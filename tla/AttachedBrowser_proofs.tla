------------------------ MODULE AttachedBrowser_proofs ------------------------
(***************************************************************************)
(* Proofs about the log as a browser sees it, from what is proved of the   *)
(* monitor and of the forward alone.                                       *)
(***************************************************************************)
EXTENDS AttachedBrowser, SequenceTheorems, TLAPS

Logging == INSTANCE LogMonitor_proofs WITH Clients <- {Client}, pc <- attach

Forwarding == INSTANCE WebsocketForward_proofs
                WITH Lines <- 0..MaxLines, MaxMessages <- MaxLines + 2, MayReject <- FALSE
-------------------------------------------------------------------------------
(***************************************************************************)
(* The parts, joined, do nothing they could not do alone.                  *)
(***************************************************************************)
LEMMA Assumptions == Logging!ConstantsAssumption /\ Forwarding!ConstantsAssumption
  BY ConstantsAssumption DEF Logging!ConstantsAssumption, Forwarding!ConstantsAssumption

\* The monitor and its one client.
LEMMA MonitorSteps == [Monitor!Next]_(Monitor!vars) => [Logging!Next]_(Logging!vars)
  BY DEF Monitor!Next, Logging!Next, Monitor!vars, Logging!vars,
         Monitor!writerVars, Logging!writerVars, Monitor!clientVars, Logging!clientVars,
         Monitor!Writer, Logging!Writer, Monitor!Attach, Logging!Attach,
         Monitor!Cancel, Logging!Cancel, Monitor!WriteStdout, Logging!WriteStdout,
         Monitor!Lock, Logging!Lock, Monitor!Visit, Logging!Visit,
         Monitor!Unlock, Logging!Unlock, Monitor!Push, Logging!Push, Monitor!Pop, Logging!Pop,
         Monitor!PushAgain, Logging!PushAgain, Monitor!Hello, Logging!Hello,
         Monitor!AddListener, Logging!AddListener, Monitor!Leave, Logging!Leave,
         Monitor!Receive, Logging!Receive, Monitor!Send, Logging!Send,
         Monitor!RemoveListener, Logging!RemoveListener, Monitor!GiveUp, Logging!GiveUp,
         Monitor!PushLine, Logging!PushLine, Monitor!NoneReady, Logging!NoneReady,
         Monitor!Return, Logging!Return, Monitor!Locked, Logging!Locked

\* The forward.
LEMMA ForwardSteps == [Forward!Next]_(Forward!vars) => [Forwarding!Next]_(Forwarding!vars)
  BY DEF Forward!Next, Forwarding!Next, Forward!vars, Forwarding!vars,
         Forward!netVars, Forwarding!netVars, Forward!flagVars, Forwarding!flagVars,
         Forward!writeVars, Forwarding!writeVars, Forward!Loops, Forwarding!Loops,
         Forward!Goto, Forwarding!Goto, Forward!Handler, Forwarding!Handler,
         Forward!Serve, Forwarding!Serve, Forward!Request, Forwarding!Request,
         Forward!Response, Forwarding!Response, Forward!Finish, Forwarding!Finish,
         Forward!Attach, Forwarding!Attach, Forward!Refuse, Forwarding!Refuse,
         Forward!Wake, Forwarding!Wake, Forward!Shut, Forwarding!Shut,
         Forward!CloseSend, Forwarding!CloseSend, Forward!Return, Forwarding!Return,
         Forward!ReadFails, Forwarding!ReadFails, Forward!Reject, Forwarding!Reject,
         Forward!Recv, Forwarding!Recv, Forward!Acquire, Forwarding!Acquire,
         Forward!WriteResponse, Forwarding!WriteResponse,
         Forward!WriteError, Forwarding!WriteError, Forward!Load, Forwarding!Load,
         Forward!Swap, Forwarding!Swap, Forward!CloseCancel, Forwarding!CloseCancel,
         Forward!Leave, Forwarding!Leave, Forward!Arrive, Forwarding!Arrive,
         Forward!StreamEnds, Forwarding!StreamEnds, Forward!Written, Forwarding!Written,
         Forward!Unwritten, Forwarding!Unwritten, Forward!Frame, Forwarding!Frame,
         Forward!Data, Forwarding!Data, Forward!Success, Forwarding!Success,
         Forward!Error, Forwarding!Error

LEMMA Starts == Init => Logging!Init /\ Forwarding!Init
  BY DEF Init, Monitor!Init, Logging!Init, Forward!Init, Forwarding!Init

\* Each step of the composition is one of the monitor, or none, and one of the
\* forward, or none; what the stream carries is within its lines.
LEMMA PartsStep ==
    ASSUME [Next]_vars, Logging!TypeOK
    PROVE  [Logging!Next]_(Logging!vars) /\ [Forwarding!Next]_(Forwarding!vars)
<1> USE DEF monitorVars, forwardVars
<1>1. CASE HelloSent
  <2>1. Monitor!Next
    BY <1>1 DEF HelloSent, Monitor!Next, Monitor!Attach
  <2>2. Forward!Next
    BY <1>1, ConstantsAssumption DEF HelloSent, Forward!Next
  <2> QED
    BY <2>1, <2>2, MonitorSteps, ForwardSteps
<1>2. CASE LineSent
  <2>1. Monitor!Next
    BY <1>2 DEF LineSent, Monitor!Next, Monitor!Attach
  <2>2. data[Client] \in 0..MaxLines
    BY DEF Logging!TypeOK
  <2>3. Forward!Next
    BY <1>2, <2>2 DEF LineSent, Forward!Next
  <2> QED
    BY <2>1, <2>3, MonitorSteps, ForwardSteps
<1>3. CASE HelloFails \/ AttachReturns
  <2>1. Monitor!Next
    BY <1>3 DEF HelloFails, AttachReturns, Monitor!Next, Monitor!Attach
  <2>2. Forward!Next
    BY <1>3 DEF HelloFails, AttachReturns, Forward!Next
  <2> QED
    BY <2>1, <2>2, MonitorSteps, ForwardSteps
<1>4. CASE SendFails \/ Cancelled \/ Log \/ Add \/ Quit \/ Take
  <2>1. Monitor!Next
    BY <1>4 DEF SendFails, Cancelled, Log, Add, Quit, Take, Monitor!Next, Monitor!Attach
  <2>2. UNCHANGED Forward!vars
    BY <1>4 DEF SendFails, Cancelled, Log, Add, Quit, Take, Forward!vars,
                Forward!netVars, Forward!flagVars, Forward!writeVars
  <2> QED
    BY <2>1, <2>2, MonitorSteps, ForwardSteps
<1>5. CASE Handler \/ Leave
  <2>1. Forward!Next
    BY <1>5 DEF Handler, Leave, Forward!Next
  <2>2. UNCHANGED Monitor!vars
    BY <1>5 DEF Handler, Leave, Monitor!vars, Monitor!writerVars, Monitor!clientVars
  <2> QED
    BY <2>1, <2>2, MonitorSteps, ForwardSteps
<1>6. CASE UNCHANGED vars
  <2>1. UNCHANGED Monitor!vars /\ UNCHANGED Forward!vars
    BY <1>6 DEF vars, Monitor!vars, Monitor!writerVars, Monitor!clientVars,
                Forward!vars, Forward!netVars, Forward!flagVars, Forward!writeVars
  <2> QED
    BY <2>1, MonitorSteps, ForwardSteps
<1> QED
  BY <1>1, <1>2, <1>3, <1>4, <1>5, <1>6 DEF Next

\* What is proved of the monitor and of the forward alone holds of them here.
PartsInv == Logging!IInv /\ Forwarding!HandInv

LEMMA PartsStart == Init => PartsInv
<1>1. Logging!Init => Logging!IInv
  BY Assumptions, Logging!InitInv
<1>2. Forwarding!Init => Forwarding!HandInv
  BY Assumptions, Forwarding!InitTypes
<1> QED
  BY <1>1, <1>2, Starts DEF PartsInv

LEMMA PartsKept == PartsInv /\ [Next]_vars => PartsInv'
<1>1. Logging!IInv => Logging!TypeOK
  BY DEF Logging!IInv
<1>2. Logging!IInv /\ [Logging!Next]_(Logging!vars) => Logging!IInv'
  BY Assumptions, Logging!Inductive
<1>3. Forwarding!HandInv /\ [Forwarding!Next]_(Forwarding!vars) => Forwarding!HandInv'
  BY Assumptions, Forwarding!StepKeepsTypes
<1> QED
  BY <1>1, <1>2, <1>3, PartsStep DEF PartsInv

\* The composition behaves as the monitor does, and as the forward does: all
\* that is proved of either holds of the whole.
THEOREM PartsBehave == Spec => Logging!Spec /\ Forwarding!Spec
<1>1. PartsInv /\ [Next]_vars =>
        [Logging!Next]_(Logging!vars) /\ [Forwarding!Next]_(Forwarding!vars)
  BY PartsStep DEF PartsInv, Logging!IInv
<1> QED
  BY <1>1, PartsStart, PartsKept, Starts, PTL DEF Spec, Logging!Spec, Forwarding!Spec
-------------------------------------------------------------------------------
(***************************************************************************)
(* What the browser is shown.  The stream is a queue between two counters: *)
(* everything under way is later than what was shown and at most what was  *)
(* sent last.                                                              *)
(***************************************************************************)
Holding == pc["response"] \in {"lock", "write"}
Streaming == ~gone /\ (Holding \/ pc["response"] = "recv")

\* Nothing moves before response runs, and request has nothing to write.
SilentInv ==
    /\ pc["serve"] \in {"attach", "refuse"} => pc["response"] = "off"
    /\ pc["request"] \notin {"lock", "write", "errLock", "errWrite"}
    /\ pc["response"] = "off" => /\ queue = <<>> /\ counted = 0
                                 /\ attach[Client] \in {"hello", "end"}
    /\ pc["serve"] = "attach" => frames = <<>>

\* What is under way is in order.
QueueInv ==
    /\ attach[Client] = "hello" => queue = <<>> /\ counted = 0 /\ ~Holding
    /\ \A i \in DOMAIN queue : queue[i] <= sent[Client]
    /\ \A i, j \in DOMAIN queue : i < j => queue[i] < queue[j]
    /\ Holding => msg <= sent[Client] /\ \A i \in DOMAIN queue : msg < queue[i]

\* The first message is the empty one.
FirstInv ==
    counted = 0 =>
      /\ frames = <<>>
      /\ Holding => msg = 0
      /\ ~Holding /\ queue # <<>> => queue[1] = 0
      /\ attach[Client] \notin {"hello", "end"} => Holding \/ queue # <<>>

\* What was shown is data after the first frame, and earlier than the rest.
ShownInv ==
    counted # 0 =>
      /\ frames # <<>> /\ frames[1] = Forward!Success
      /\ \A i \in DOMAIN frames : i > 1 =>
           /\ IsData(frames[i])
           /\ frames[i].line <= sent[Client]
           /\ Holding => frames[i].line < msg
           /\ \A j \in DOMAIN queue : frames[i].line < queue[j]

StreamInv == Streaming => QueueInv /\ FirstInv /\ ShownInv

\* The values of the counters between which the stream lies.
LEMMA Counters ==
    ASSUME PartsInv
    PROVE  /\ written \in Nat /\ sent[Client] \in Nat /\ data[Client] \in Nat
           /\ data[Client] \in 0..MaxLines
           /\ sent[Client] <= data[Client] /\ data[Client] <= written
           /\ attach[Client] = "send" => sent[Client] < data[Client]
           /\ queue \in Seq(Nat) /\ msg \in Nat /\ counted \in Nat
           /\ frames \in Seq(Forward!Frames)
           /\ \A f \in Forward!Frames : f.line \in Nat
           /\ pc = [g \in DOMAIN pc |-> pc[g]]
           /\ DOMAIN pc = {"serve", "request", "response"}
           /\ DOMAIN attach = {Client}
<1>1. Logging!TypeOK /\ Logging!PastInv /\ Logging!InOrder /\ Forwarding!TypeOK
  BY DEF PartsInv, Logging!IInv, Forwarding!HandInv
<1>2. written \in Nat /\ sent[Client] \in Nat /\ data[Client] \in 0..MaxLines
  BY <1>1, ConstantsAssumption DEF Logging!TypeOK
<1>3. /\ sent[Client] <= data[Client] /\ data[Client] <= written
      /\ attach[Client] = "send" => sent[Client] < data[Client]
  BY <1>1 DEF Logging!PastInv, Logging!InOrder
<1>4. queue \in Seq(Nat) /\ msg \in Nat /\ counted \in Nat
  <2>1. queue \in Seq(0..MaxLines) /\ msg \in (0..MaxLines) \cup {0} /\ counted \in Nat
    BY <1>1 DEF Forwarding!TypeOK
  <2> QED
    BY <2>1, ConstantsAssumption
<1>5. frames \in Seq(Forward!Frames) /\ \A f \in Forward!Frames : f.line \in Nat
  <2>1. frames \in Seq(Forwarding!Frames)
    BY <1>1 DEF Forwarding!TypeOK
  <2>2. Forwarding!Frames = Forward!Frames
    BY DEF Forwarding!Frames, Forward!Frames, Forwarding!Success, Forward!Success,
           Forwarding!Error, Forward!Error, Forwarding!Data, Forward!Data
  <2>3. \A f \in Forward!Frames : f.line \in Nat
    BY ConstantsAssumption DEF Forward!Frames, Forward!Success, Forward!Error, Forward!Data
  <2> QED
    BY <2>1, <2>2, <2>3
<1>6. pc = [g \in DOMAIN pc |-> pc[g]] /\ DOMAIN pc = {"serve", "request", "response"}
  BY <1>1 DEF Forwarding!TypeOK, Forwarding!Loops
<1>7. DOMAIN attach = {Client}
  BY <1>1 DEF Logging!TypeOK
<1> QED
  BY <1>2, <1>3, <1>4, <1>5, <1>6, <1>7

\* A sequence after an append, and after its head is taken.
LEMMA Appended ==
    ASSUME NEW S, NEW s \in Seq(S), NEW x
    PROVE  /\ DOMAIN Append(s, x) = 1..Len(s) + 1
           /\ DOMAIN s = 1..Len(s) /\ Len(s) \in Nat
           /\ \A i \in DOMAIN s : Append(s, x)[i] = s[i]
           /\ Append(s, x)[Len(s) + 1] = x
           /\ s = <<>> <=> Len(s) = 0
           /\ Append(s, x) # <<>>
  BY EmptySeq, LenProperties

LEMMA Taken ==
    ASSUME NEW S, NEW s \in Seq(S), s # <<>>
    PROVE  /\ DOMAIN Tail(s) = 1..(Len(s) - 1)
           /\ DOMAIN s = 1..Len(s) /\ Len(s) \in Nat /\ 1 \in DOMAIN s
           /\ \A i \in DOMAIN Tail(s) : i + 1 \in DOMAIN s /\ Tail(s)[i] = s[i + 1]
           /\ Head(s) = s[1]
  BY EmptySeq, LenProperties, HeadTailProperties
-------------------------------------------------------------------------------
\* A step that shows nothing and moves no message keeps what is shown.
LEMMA NothingShown ==
    ASSUME BrowserInOrder, UNCHANGED frames, written \in Nat, written' \in Nat,
           written <= written', frames \in Seq(Forward!Frames),
           \A f \in Forward!Frames : f.line \in Nat
    PROVE  BrowserInOrder'
<1>1. \A i \in DOMAIN frames : frames[i].line \in Nat
  OBVIOUS
<1> QED
  BY <1>1 DEF BrowserInOrder, IsData

\* Without one sent, and with response where it was or no longer streaming, the
\* order of the stream stays.
LEMMA NothingMoves ==
    ASSUME StreamInv, Streaming' => Streaming,
           UNCHANGED <<queue, msg, counted, frames, sent>>,
           Streaming' => (Holding' <=> Holding),
           attach'[Client] = "hello" => attach[Client] = "hello",
           attach[Client] \in {"hello", "end"} => attach'[Client] \in {"hello", "end"}
    PROVE  StreamInv'
<1> SUFFICES ASSUME Streaming'
             PROVE  QueueInv' /\ FirstInv' /\ ShownInv'
  BY DEF StreamInv
<1>1. QueueInv /\ FirstInv /\ ShownInv /\ (Holding' <=> Holding)
  BY DEF StreamInv
<1>2. QueueInv'
  BY <1>1 DEF QueueInv
<1>3. FirstInv'
  BY <1>1 DEF FirstInv
<1>4. ShownInv'
  BY <1>1 DEF ShownInv, IsData
<1> QED
  BY <1>2, <1>3, <1>4

BrowserInv == PartsInv /\ SilentInv /\ StreamInv /\ BrowserInOrder

\* A step of the monitor that sends nothing.
LEMMA MonitorGoesOn ==
    ASSUME BrowserInv, PartsInv',
           HelloFails \/ SendFails \/ AttachReturns \/ Cancelled \/ Log \/ Add \/ Quit \/ Take
    PROVE  BrowserInv'
<1>1. /\ UNCHANGED <<pc, gone, queue, msg, counted, frames, sent>>
      /\ written' = written \/ written' = written + 1
      /\ attach'[Client] = "hello" => attach[Client] = "hello"
      /\ attach[Client] \in {"hello", "end"} => attach'[Client] \in {"hello", "end"}
  <2> USE DEF forwardVars, Forward!StreamEnds, Forward!flagVars, Forward!writeVars,
              Monitor!writerVars, Monitor!clientVars
  <2>0. DOMAIN attach = {Client}
    BY Counters DEF BrowserInv
  <2>1. CASE HelloFails
    BY <2>0, <2>1 DEF HelloFails, Monitor!Hello
  <2>2. CASE SendFails
    BY <2>0, <2>2 DEF SendFails, Monitor!Send
  <2>3. CASE AttachReturns
    BY <2>0, <2>3 DEF AttachReturns, Monitor!RemoveListener
  <2>4. CASE Cancelled
    BY <2>4 DEF Cancelled, Monitor!Cancel
  <2>5. CASE Log
    BY <2>5 DEF Log, Monitor!Writer, Monitor!WriteStdout, Monitor!Lock, Monitor!Visit,
                Monitor!Unlock, Monitor!Push, Monitor!Pop, Monitor!PushAgain
  <2>6. CASE Add
    BY <2>0, <2>6 DEF Add, Monitor!AddListener
  <2>7. CASE Quit
    BY <2>0, <2>7 DEF Quit, Monitor!Leave
  <2>8. CASE Take
    BY <2>0, <2>8 DEF Take, Monitor!Receive
  <2> QED
    BY <2>1, <2>2, <2>3, <2>4, <2>5, <2>6, <2>7, <2>8
<1>2. (Streaming' <=> Streaming) /\ (Holding' <=> Holding)
  BY <1>1 DEF Streaming, Holding
<1>3. StreamInv'
  BY <1>1, <1>2, NothingMoves DEF BrowserInv
<1>4. BrowserInOrder'
  <2>1. PartsInv /\ BrowserInOrder /\ written \in Nat /\ frames \in Seq(Forward!Frames)
        /\ \A f \in Forward!Frames : f.line \in Nat
    BY Counters DEF BrowserInv
  <2>2. written' \in Nat /\ written <= written'
    BY <1>1, <2>1
  <2> QED
    BY <1>1, <2>1, <2>2, NothingShown
<1>5. SilentInv'
  BY <1>1 DEF BrowserInv, SilentInv
<1> QED
  BY <1>3, <1>4, <1>5 DEF BrowserInv

\* A message of the stream arrives, later than all that was sent.
LEMMA MessageArrives ==
    ASSUME BrowserInv, PartsInv', HelloSent \/ LineSent
    PROVE  BrowserInv'
<1>1. /\ written \in Nat /\ sent[Client] \in Nat /\ data[Client] \in Nat
      /\ attach[Client] = "send" => sent[Client] < data[Client]
      /\ queue \in Seq(Nat) /\ msg \in Nat /\ frames \in Seq(Forward!Frames)
      /\ \A f \in Forward!Frames : f.line \in Nat
      /\ DOMAIN attach = {Client}
  BY Counters DEF BrowserInv
<1>2. /\ UNCHANGED <<pc, gone, msg, counted, frames, written>>
      /\ pc["serve"] # "attach"
  BY DEF HelloSent, LineSent, Monitor!Hello, Monitor!Send, Forward!Arrive, Forward!flagVars,
         Forward!writeVars, Monitor!writerVars
<1>3. CASE HelloSent
  <2>1. /\ attach[Client] = "hello" /\ attach'[Client] = "add" /\ pc["response"] # "off"
        /\ sent' = sent /\ queue' = Append(queue, 0)
    BY <1>3 DEF HelloSent, Monitor!Hello, Forward!Arrive
  <2>2. StreamInv'
    <3> SUFFICES ASSUME Streaming'
                 PROVE  QueueInv' /\ FirstInv' /\ ShownInv'
      BY DEF StreamInv
    <3>1. QueueInv /\ FirstInv /\ Streaming /\ ~Holding /\ ~Holding'
      BY <1>2, <2>1 DEF BrowserInv, StreamInv, Streaming, Holding, QueueInv
    <3>2. queue = <<>> /\ counted = 0 /\ frames = <<>>
      BY <2>1, <3>1 DEF QueueInv, FirstInv
    <3>3. queue' = <<0>>
      BY <2>1, <3>2
    <3>4. QueueInv'
      BY <1>1, <2>1, <3>1, <3>3 DEF QueueInv
    <3> QED
      BY <1>2, <3>1, <3>2, <3>3, <3>4 DEF FirstInv, ShownInv
  <2>3. SilentInv'
    BY <1>2, <2>1 DEF BrowserInv, SilentInv
  <2>4. BrowserInOrder'
    BY <1>1, <1>2, NothingShown DEF BrowserInv
  <2> QED
    BY <2>2, <2>3, <2>4 DEF BrowserInv
<1>4. CASE LineSent
  <2>1. /\ attach[Client] = "send" /\ attach'[Client] = "loop"
        /\ queue' = Append(queue, data[Client])
    BY <1>4 DEF LineSent, Monitor!Send, Forward!Arrive
  <2>2. sent'[Client] = data[Client]
    <3>1. sent \in [{Client} -> 0..MaxLines]
      BY DEF BrowserInv, PartsInv, Logging!IInv, Logging!TypeOK
    <3>2. CASE sent' = [sent EXCEPT ![Client] = data[Client]]
      BY <3>1, <3>2
    <3>3. CASE attach' = [attach EXCEPT ![Client] = "remove"]
      BY <1>1, <2>1, <3>3
    <3> QED
      BY <1>4, <3>2, <3>3 DEF LineSent, Monitor!Send
  <2>3. pc["response"] # "off"
    BY <2>1 DEF BrowserInv, SilentInv
  <2>4. /\ DOMAIN queue' = 1..Len(queue) + 1 /\ DOMAIN queue = 1..Len(queue)
        /\ Len(queue) \in Nat /\ queue' # <<>>
        /\ \A i \in DOMAIN queue : queue'[i] = queue[i] /\ queue[i] \in Nat
        /\ queue'[Len(queue) + 1] = data[Client]
        /\ queue = <<>> <=> Len(queue) = 0
    BY <1>1, <2>1, Appended
  <2>5. StreamInv'
    <3> SUFFICES ASSUME Streaming'
                 PROVE  QueueInv' /\ FirstInv' /\ ShownInv'
      BY DEF StreamInv
    <3>1. QueueInv /\ FirstInv /\ ShownInv /\ Streaming /\ (Holding' <=> Holding)
      BY <1>2 DEF BrowserInv, StreamInv, Streaming, Holding
    <3>2. QueueInv'
      <4>1. \A i \in DOMAIN queue' : queue'[i] <= sent'[Client]
        BY <1>1, <2>1, <2>2, <2>4, <3>1 DEF QueueInv
      <4>2. \A i, j \in DOMAIN queue' : i < j => queue'[i] < queue'[j]
        BY <1>1, <2>1, <2>4, <3>1 DEF QueueInv
      <4>3. Holding' => msg' <= sent'[Client] /\ \A i \in DOMAIN queue' : msg' < queue'[i]
        BY <1>1, <1>2, <2>1, <2>2, <2>4, <3>1 DEF QueueInv
      <4> QED
        BY <2>1, <4>1, <4>2, <4>3 DEF QueueInv
    <3>3. FirstInv'
      BY <1>2, <2>1, <2>4, <3>1 DEF FirstInv
    <3>4. ShownInv'
      <4> SUFFICES ASSUME counted # 0, NEW i \in DOMAIN frames, i > 1
                   PROVE  /\ frames[i].line <= data[Client]
                          /\ \A j \in DOMAIN queue' : frames[i].line < queue'[j]
        BY <1>2, <2>2, <3>1 DEF ShownInv, IsData
      <4>1. frames[i].line \in Nat /\ frames[i].line <= sent[Client]
        BY <1>1, <3>1 DEF ShownInv
      <4> QED
        BY <1>1, <2>1, <2>4, <3>1, <4>1 DEF ShownInv
    <3> QED
      BY <3>2, <3>3, <3>4
  <2>6. SilentInv'
    BY <1>2, <2>1, <2>3 DEF BrowserInv, SilentInv
  <2>7. BrowserInOrder'
    BY <1>1, <1>2, NothingShown DEF BrowserInv
  <2> QED
    BY <2>5, <2>6, <2>7 DEF BrowserInv
<1> QED
  BY <1>3, <1>4
-------------------------------------------------------------------------------
\* The monitor rests while the forward moves.
LEMMA MonitorRests ==
    ASSUME UNCHANGED monitorVars
    PROVE  UNCHANGED <<attach, data, sent, written>>
  BY DEF monitorVars

\* A step of the forward that moves no message and shows nothing.
LEMMA ForwardGoesOn ==
    ASSUME BrowserInv, PartsInv', UNCHANGED monitorVars, SilentInv',
           UNCHANGED <<queue, msg, counted, frames>>,
           Streaming' => Streaming /\ (Holding' <=> Holding)
    PROVE  BrowserInv'
<1>1. StreamInv'
  BY MonitorRests, NothingMoves DEF BrowserInv
<1>2. BrowserInOrder'
  BY MonitorRests, Counters, NothingShown DEF BrowserInv
<1> QED
  BY <1>1, <1>2 DEF BrowserInv

\* The steps of serve, of request, and the way out of response.
LEMMA HandlerGoesOn ==
    ASSUME BrowserInv, PartsInv', UNCHANGED monitorVars,
           \/ Forward!Wake \/ Forward!Shut \/ Forward!CloseSend \/ Forward!Return
           \/ Forward!ReadFails \/ Forward!Leave
           \/ \E g \in Forward!Loops : Forward!Finish(g)
    PROVE  BrowserInv'
<1> USE DEF Forward!Goto, Forward!netVars, Forward!flagVars, Forward!writeVars, Forward!Loops
<1> DEFINE still == UNCHANGED <<queue, msg, counted, frames>> /\ (gone => gone')
           moves == \/ UNCHANGED pc
                    \/ /\ pc["serve"] \notin {"attach", "refuse"}
                       /\ \E s \in {"shut", "closeSend", "return", "end"} :
                            pc' = [pc EXCEPT !["serve"] = s]
                    \/ \E s \in {"load", "swap", "close", "end"} :
                         pc' = [pc EXCEPT !["request"] = s]
                    \/ /\ pc["response"] \in {"load", "swap", "close"}
                       /\ \E s \in {"swap", "close", "end"} :
                            pc' = [pc EXCEPT !["response"] = s]
<1>1. still /\ moves
  <2>1. CASE Forward!Wake
    BY <2>1 DEF Forward!Wake
  <2>2. CASE Forward!Shut
    BY <2>2 DEF Forward!Shut
  <2>3. CASE Forward!CloseSend
    BY <2>3 DEF Forward!CloseSend
  <2>4. CASE Forward!Return
    BY <2>4 DEF Forward!Return
  <2>5. CASE Forward!ReadFails
    BY <2>5 DEF Forward!ReadFails
  <2>6. CASE Forward!Leave
    BY <2>6 DEF Forward!Leave
  <2>7. ASSUME NEW g \in Forward!Loops, Forward!Finish(g)
        PROVE  still /\ moves
    BY <2>7 DEF Forward!Finish, Forward!Load, Forward!Swap, Forward!CloseCancel
  <2> QED
    BY <2>1, <2>2, <2>3, <2>4, <2>5, <2>6, <2>7
<1>2. DOMAIN pc = {"serve", "request", "response"}
  BY Counters DEF BrowserInv
<1>3. SilentInv'
  BY <1>1, <1>2, MonitorRests DEF BrowserInv, SilentInv
<1>4. Streaming' => Streaming /\ (Holding' <=> Holding)
  BY <1>1, <1>2 DEF Streaming, Holding
<1> QED
  BY <1>1, <1>3, <1>4, ForwardGoesOn

\* An error ends what is shown.
LEMMA ErrorShown ==
    ASSUME BrowserInv, UNCHANGED monitorVars, Forward!Written(Forward!Error) \/ Forward!Unwritten
    PROVE  BrowserInOrder'
<1>1. /\ frames \in Seq(Forward!Frames) /\ written \in Nat /\ written' = written
      /\ \A f \in Forward!Frames : f.line \in Nat
  BY Counters, MonitorRests DEF BrowserInv
<1>2. CASE frames' = frames
  BY <1>1, <1>2, NothingShown DEF BrowserInv
<1>3. CASE frames' = Append(frames, Forward!Error)
  <2>1. /\ DOMAIN frames' = 1..Len(frames) + 1 /\ DOMAIN frames = 1..Len(frames)
        /\ Len(frames) \in Nat
        /\ \A i \in DOMAIN frames : frames'[i] = frames[i]
        /\ ~IsData(frames'[Len(frames) + 1])
    BY <1>1, <1>3, Appended DEF IsData, Forward!Error
  <2>2. \A i \in DOMAIN frames' : IsData(frames'[i]) =>
          i \in DOMAIN frames /\ IsData(frames[i]) /\ frames'[i] = frames[i]
    BY <2>1 DEF IsData
  <2>3. \A i \in DOMAIN frames' : IsData(frames'[i]) => frames'[i].line <= written'
    BY <1>1, <2>2 DEF BrowserInv, BrowserInOrder
  <2>4. ASSUME NEW i \in DOMAIN frames', NEW j \in DOMAIN frames', i < j, IsData(frames'[j])
        PROVE  \/ i = 1 /\ frames'[i] = Forward!Success
               \/ IsData(frames'[i]) /\ frames'[i].line < frames'[j].line
    <3>1. j \in DOMAIN frames /\ IsData(frames[j]) /\ frames'[j] = frames[j]
      BY <2>2, <2>4
    <3>2. i \in DOMAIN frames
      BY <2>1, <2>4, <3>1
    <3> QED
      BY <2>1, <2>4, <3>1, <3>2 DEF BrowserInv, BrowserInOrder, IsData
  <2> QED
    BY <2>3, <2>4 DEF BrowserInOrder
<1> QED
  BY <1>2, <1>3 DEF Forward!Written, Forward!Unwritten

\* The stream is opened: response finds nothing that was sent or shown.
LEMMA StreamOpens ==
    ASSUME BrowserInv, PartsInv', UNCHANGED monitorVars, Forward!Attach \/ Forward!Refuse
    PROVE  BrowserInv'
<1> USE DEF Forward!Goto, Forward!netVars, Forward!flagVars, Forward!writeVars
<1>1. DOMAIN pc = {"serve", "request", "response"}
  BY Counters DEF BrowserInv
<1>2. CASE Forward!Refuse
  <2>1. UNCHANGED <<queue, counted>> /\ pc' = [pc EXCEPT !["serve"] = "return"]
    BY <1>2 DEF Forward!Refuse
  <2>2. SilentInv' /\ ~Streaming'
    BY <1>1, <1>2, <2>1, MonitorRests
       DEF BrowserInv, SilentInv, Forward!Refuse, Streaming, Holding
  <2>3. BrowserInOrder'
    BY <1>2, ErrorShown DEF Forward!Refuse
  <2> QED
    BY <2>2, <2>3 DEF BrowserInv, StreamInv
<1>3. CASE Forward!Attach
  <2>1. UNCHANGED <<gone, queue, msg, counted, frames>> /\ pc["serve"] = "attach"
    BY <1>3 DEF Forward!Attach
  <2>2. /\ queue = <<>> /\ counted = 0 /\ frames = <<>> /\ pc["response"] = "off"
        /\ attach[Client] \in {"hello", "end"}
    BY <2>1 DEF BrowserInv, SilentInv
  <2>3. BrowserInOrder'
    BY <2>1, MonitorRests, Counters, NothingShown DEF BrowserInv
  <2>4. CASE pc' = [serve |-> "wait", request |-> "read", response |-> "recv"]
    <3>1. SilentInv'
      BY <2>1, <2>4 DEF SilentInv
    <3>2. QueueInv'
      BY <2>1, <2>2, <2>4, MonitorRests DEF QueueInv, Holding
    <3>3. FirstInv' /\ ShownInv'
      BY <2>1, <2>2, <2>4, MonitorRests DEF FirstInv, ShownInv, Holding
    <3> QED
      BY <2>3, <3>1, <3>2, <3>3 DEF BrowserInv, StreamInv
  <2>5. CASE pc' = [pc EXCEPT !["serve"] = "refuse"]
    <3>1. SilentInv' /\ ~Streaming'
      BY <1>1, <2>1, <2>2, <2>5, MonitorRests DEF BrowserInv, SilentInv, Streaming, Holding
    <3> QED
      BY <2>3, <3>1 DEF BrowserInv, StreamInv
  <2> QED
    BY <1>3, <2>4, <2>5 DEF Forward!Attach
<1> QED
  BY <1>2, <1>3

\* Response takes the next message, or finds the stream at its end.
LEMMA MessageTaken ==
    ASSUME BrowserInv, PartsInv', UNCHANGED monitorVars, Forward!Recv
    PROVE  BrowserInv'
<1> USE DEF Forward!Goto, Forward!netVars, Forward!flagVars, Forward!writeVars
<1>1. /\ UNCHANGED <<gone, counted, frames>> /\ pc["response"] = "recv"
      /\ UNCHANGED <<attach, sent, written>>
      /\ DOMAIN pc = {"serve", "request", "response"}
      /\ queue \in Seq(Nat) /\ sent[Client] \in Nat /\ frames \in Seq(Forward!Frames)
      /\ \A f \in Forward!Frames : f.line \in Nat
  BY MonitorRests, Counters DEF BrowserInv, Forward!Recv
<1>2. BrowserInOrder'
  BY <1>1, Counters, NothingShown DEF BrowserInv
<1>3. CASE /\ queue # <<>> /\ msg' = Head(queue) /\ queue' = Tail(queue)
           /\ pc' = [pc EXCEPT !["response"] = "lock"]
  <2>1. SilentInv' /\ Holding' /\ ~Holding
    BY <1>1, <1>3 DEF BrowserInv, SilentInv, Holding
  <2>2. /\ DOMAIN queue = 1..Len(queue) /\ Len(queue) \in Nat /\ 1 \in DOMAIN queue
        /\ DOMAIN queue' = 1..(Len(queue) - 1)
        /\ \A i \in DOMAIN queue' : i + 1 \in DOMAIN queue /\ queue'[i] = queue[i + 1]
        /\ msg' = queue[1]
    BY <1>1, <1>3, Taken
  <2>3. StreamInv'
    <3> SUFFICES ASSUME Streaming'
                 PROVE  QueueInv' /\ FirstInv' /\ ShownInv'
      BY DEF StreamInv
    <3>1. QueueInv /\ FirstInv /\ ShownInv
      BY <1>1 DEF BrowserInv, StreamInv, Streaming
    <3>2. QueueInv'
      BY <1>1, <1>3, <2>1, <2>2, <3>1 DEF QueueInv
    <3>3. FirstInv'
      BY <1>1, <1>3, <2>1, <2>2, <3>1 DEF FirstInv
    <3>4. ShownInv'
      BY <1>1, <2>1, <2>2, <3>1 DEF ShownInv, IsData
    <3> QED
      BY <3>2, <3>3, <3>4
  <2> QED
    BY <1>2, <2>1, <2>3 DEF BrowserInv
<1>4. CASE pc' = [pc EXCEPT !["response"] = "errLock"] /\ UNCHANGED <<msg, queue>>
  <2>1. SilentInv' /\ ~Streaming'
    BY <1>1, <1>4 DEF BrowserInv, SilentInv, Streaming, Holding
  <2> QED
    BY <1>2, <2>1 DEF BrowserInv, StreamInv
<1> QED
  BY <1>3, <1>4 DEF Forward!Recv

\* What is shown of a message follows what was shown before.
LEMMA MessageShown ==
    ASSUME BrowserInv, PartsInv', UNCHANGED monitorVars, Forward!WriteResponse
    PROVE  BrowserInv'
<1> USE DEF Forward!Goto, Forward!netVars, Forward!flagVars, Forward!writeVars
<1>1. /\ UNCHANGED <<gone, queue, msg>> /\ pc["response"] = "write" /\ Holding
      /\ UNCHANGED <<attach, sent, written>>
      /\ DOMAIN pc = {"serve", "request", "response"}
      /\ queue \in Seq(Nat) /\ msg \in Nat /\ counted \in Nat
      /\ sent[Client] \in Nat /\ written \in Nat /\ sent[Client] <= written
      /\ frames \in Seq(Forward!Frames)
      /\ \A f \in Forward!Frames : f.line \in Nat
  BY MonitorRests, Counters DEF BrowserInv, Forward!WriteResponse, Holding
<1>2. CASE frames' = frames /\ (gone \/ pc' = [pc EXCEPT !["response"] = "errLock"])
  <2>1. ~Streaming'
    BY <1>1, <1>2 DEF Streaming, Holding
  <2>2. \E s \in {"recv", "errLock"} : pc' = [pc EXCEPT !["response"] = s]
    BY DEF Forward!WriteResponse
  <2>3. SilentInv'
    BY <1>1, <1>2, <2>2 DEF BrowserInv, SilentInv
  <2> QED
    BY <1>1, <1>2, <2>1, <2>3, NothingShown DEF BrowserInv, StreamInv
<1>3. CASE /\ ~gone /\ frames' = Append(frames, Forward!Frame) /\ counted' = counted + 1
           /\ pc' = [pc EXCEPT !["response"] = "recv"]
  <2>1. QueueInv /\ FirstInv /\ ShownInv
    BY <1>1, <1>3 DEF BrowserInv, StreamInv, Streaming
  <2>2. /\ DOMAIN frames' = 1..Len(frames) + 1 /\ DOMAIN frames = 1..Len(frames)
        /\ Len(frames) \in Nat /\ frames' # <<>>
        /\ \A i \in DOMAIN frames : frames'[i] = frames[i] /\ frames[i].line \in Nat
        /\ frames'[Len(frames) + 1] = Forward!Frame
        /\ frames = <<>> <=> Len(frames) = 0
    BY <1>1, <1>3, Appended
  <2>3. counted' # 0 /\ counted' \in Nat /\ ~Holding'
    BY <1>1, <1>3 DEF Holding
  <2>4. SilentInv'
    BY <1>1, <1>3 DEF BrowserInv, SilentInv
  <2>5. QueueInv'
    BY <1>1, <2>1, <2>3 DEF QueueInv
  <2>6. FirstInv'
    BY <2>3 DEF FirstInv
  <2>7. ShownInv' /\ BrowserInOrder'
    <3>1. CASE counted = 0
      <4>1. frames = <<>> /\ Forward!Frame = Forward!Success
        BY <1>1, <2>1, <3>1 DEF FirstInv, Forward!Frame
      <4>2. DOMAIN frames' = {1} /\ frames'[1] = Forward!Success /\ ~IsData(frames'[1])
        BY <2>2, <4>1 DEF IsData, Forward!Success
      <4>3. ShownInv'
        BY <2>2, <4>2 DEF ShownInv
      <4>4. BrowserInOrder'
        <5>1. \A i \in DOMAIN frames' : i = 1 /\ ~IsData(frames'[i])
          BY <4>2
        <5>2. \A i \in DOMAIN frames' : IsData(frames'[i]) => frames'[i].line <= written'
          BY <5>1
        <5>3. \A i, j \in DOMAIN frames' : ~(i < j)
          BY <5>1
        <5> QED
          BY <5>2, <5>3 DEF BrowserInOrder
      <4> QED
        BY <4>3, <4>4
    <3>2. CASE counted # 0
      <4>1. /\ Forward!Frame = Forward!Data(msg) /\ IsData(Forward!Data(msg))
            /\ Forward!Data(msg).line = msg
        BY <3>2 DEF Forward!Frame, Forward!Data, IsData
      <4>2. /\ frames[1] = Forward!Success /\ 1 \in DOMAIN frames
            /\ ~IsData(Forward!Success)
            /\ msg <= sent[Client] /\ \A j \in DOMAIN queue : msg < queue[j]
            /\ \A i \in DOMAIN frames : i > 1 =>
                 /\ IsData(frames[i]) /\ frames[i].line < msg
                 /\ frames[i].line <= sent[Client]
                 /\ \A j \in DOMAIN queue : frames[i].line < queue[j]
        BY <1>1, <2>1, <2>2, <3>2 DEF ShownInv, QueueInv, IsData, Forward!Success
      <4>3. ShownInv'
        <5>1. frames'[1] = Forward!Success
          BY <2>2, <4>2
        <5>2. ASSUME NEW i \in DOMAIN frames', i > 1
              PROVE  /\ IsData(frames'[i]) /\ frames'[i].line <= sent[Client]
                     /\ \A j \in DOMAIN queue : frames'[i].line < queue[j]
          <6>1. CASE i = Len(frames) + 1
            BY <2>2, <4>1, <4>2, <6>1
          <6>2. CASE i \in DOMAIN frames
            BY <2>2, <4>2, <5>2, <6>2
          <6> QED
            BY <2>2, <6>1, <6>2
        <5> QED
          BY <1>1, <2>2, <2>3, <5>1, <5>2 DEF ShownInv, IsData
      <4>4. \A i \in DOMAIN frames' : IsData(frames'[i]) => frames'[i].line <= written'
        BY <1>1, <2>2, <4>1, <4>2
      <4>5. \A i, j \in DOMAIN frames' :
              i < j => \/ i = 1 /\ frames'[i] = Forward!Success
                       \/ IsData(frames'[i]) /\ (IsData(frames'[j]) =>
                                                   frames'[i].line < frames'[j].line)
        <5> SUFFICES ASSUME NEW i \in DOMAIN frames', NEW j \in DOMAIN frames', i < j, i # 1
                     PROVE  IsData(frames'[i]) /\ (IsData(frames'[j]) =>
                                                     frames'[i].line < frames'[j].line)
          BY <2>2, <4>2
        <5>1. i \in DOMAIN frames /\ i > 1 /\ frames'[i] = frames[i]
          BY <2>2
        <5>2. CASE j = Len(frames) + 1
          BY <2>2, <4>1, <4>2, <5>1, <5>2
        <5>3. CASE j \in DOMAIN frames
          BY <2>2, <5>1, <5>3, <4>2 DEF BrowserInv, BrowserInOrder
        <5> QED
          BY <2>2, <5>2, <5>3
      <4> QED
        BY <4>3, <4>4, <4>5 DEF BrowserInOrder
    <3> QED
      BY <3>1, <3>2
  <2> QED
    BY <2>4, <2>5, <2>6, <2>7 DEF BrowserInv, StreamInv
<1> QED
  BY <1>1, <1>2, <1>3 DEF Forward!WriteResponse, Forward!Written, Forward!Unwritten

\* Taking the mutex of the websocket moves nothing; response alone takes it.
LEMMA MutexTaken ==
    ASSUME BrowserInv, PartsInv', UNCHANGED monitorVars,
           NEW g \in Forward!Loops, Forward!Acquire(g)
    PROVE  BrowserInv'
<1> USE DEF Forward!Goto, Forward!netVars, Forward!flagVars, Forward!writeVars
<1>1. DOMAIN pc = {"serve", "request", "response"}
  BY Counters DEF BrowserInv
<1>2. g = "response"
  BY DEF BrowserInv, SilentInv, Forward!Acquire, Forward!Loops
<1>3. /\ UNCHANGED <<gone, queue, msg, counted, frames>>
      /\ \/ pc["response"] = "lock" /\ pc' = [pc EXCEPT !["response"] = "write"]
         \/ pc["response"] = "errLock" /\ pc' = [pc EXCEPT !["response"] = "errWrite"]
  BY <1>2 DEF Forward!Acquire
<1>4. SilentInv'
  BY <1>1, <1>3, MonitorRests DEF BrowserInv, SilentInv
<1>5. Streaming' => Streaming /\ (Holding' <=> Holding)
  BY <1>1, <1>3 DEF Streaming, Holding
<1> QED
  BY <1>3, <1>4, <1>5, ForwardGoesOn

\* The error of response comes after the last message it writes.
LEMMA ErrorWritten ==
    ASSUME BrowserInv, PartsInv', UNCHANGED monitorVars,
           NEW g \in Forward!Loops, Forward!WriteError(g)
    PROVE  BrowserInv'
<1> USE DEF Forward!Goto, Forward!netVars, Forward!flagVars, Forward!writeVars
<1>1. DOMAIN pc = {"serve", "request", "response"}
  BY Counters DEF BrowserInv
<1>2. g = "response"
  BY DEF BrowserInv, SilentInv, Forward!WriteError, Forward!Loops
<1>3. /\ UNCHANGED <<queue, counted>> /\ pc["response"] = "errWrite"
      /\ pc' = [pc EXCEPT !["response"] = "load"]
      /\ Forward!Written(Forward!Error) \/ Forward!Unwritten
  BY <1>2 DEF Forward!WriteError
<1>4. SilentInv' /\ ~Streaming'
  BY <1>1, <1>3, MonitorRests DEF BrowserInv, SilentInv, Streaming, Holding
<1>5. BrowserInOrder'
  BY <1>3, ErrorShown
<1> QED
  BY <1>4, <1>5 DEF BrowserInv, StreamInv

LEMMA BrowserStep == BrowserInv /\ [Next]_vars => BrowserInv'
<1> SUFFICES ASSUME BrowserInv, [Next]_vars
             PROVE  BrowserInv'
  OBVIOUS
<1>1. PartsInv'
  BY PartsKept DEF BrowserInv
<1>2. CASE HelloFails \/ SendFails \/ AttachReturns \/ Cancelled \/ Log \/ Add \/ Quit \/ Take
  BY <1>1, <1>2, MonitorGoesOn
<1>3. CASE HelloSent \/ LineSent
  BY <1>1, <1>3, MessageArrives
<1>4. CASE Leave
  BY <1>1, <1>4, HandlerGoesOn DEF Leave
<1>5. CASE Handler
  <2>1. UNCHANGED monitorVars
    BY <1>5 DEF Handler
  <2>2. CASE Forward!Serve
    BY <1>1, <2>1, <2>2, StreamOpens, HandlerGoesOn DEF Forward!Serve
  <2>3. CASE Forward!Request
    <3>1. ~Forward!Reject
      BY DEF Forward!Reject
    <3>2. "request" \in Forward!Loops
      BY DEF Forward!Loops
    <3> QED
      BY <1>1, <2>1, <2>3, <3>1, <3>2, HandlerGoesOn, MutexTaken, ErrorWritten
         DEF Forward!Request
  <2>4. CASE Forward!Response
    <3>1. "response" \in Forward!Loops
      BY DEF Forward!Loops
    <3> QED
      BY <1>1, <2>1, <2>4, <3>1, HandlerGoesOn, MutexTaken, ErrorWritten, MessageTaken,
         MessageShown DEF Forward!Response
  <2> QED
    BY <1>5, <2>2, <2>3, <2>4 DEF Handler, Forward!Handler
<1>6. CASE UNCHANGED vars
  <2>1. /\ UNCHANGED monitorVars /\ UNCHANGED <<queue, msg, counted, frames>>
        /\ UNCHANGED <<pc, gone>>
    BY <1>6 DEF vars, forwardVars
  <2>2. SilentInv' /\ (Streaming' <=> Streaming) /\ (Holding' <=> Holding)
    BY <2>1, MonitorRests DEF BrowserInv, SilentInv, Streaming, Holding
  <2> QED
    BY <1>1, <2>1, <2>2, ForwardGoesOn
<1> QED
  BY <1>2, <1>3, <1>4, <1>5, <1>6 DEF Next

LEMMA BrowserInvariant == Spec => []BrowserInv
<1>1. Init => BrowserInv
  <2> SUFFICES ASSUME Init
               PROVE  SilentInv /\ StreamInv /\ BrowserInOrder
    BY PartsStart DEF BrowserInv
  <2>1. /\ pc = [serve |-> "attach", request |-> "off", response |-> "off"]
        /\ queue = <<>> /\ counted = 0 /\ frames = <<>> /\ attach[Client] = "hello"
    BY DEF Init, Monitor!Init, Forward!Init
  <2>2. DOMAIN frames = {}
    BY <2>1
  <2> QED
    BY <2>1, <2>2 DEF SilentInv, StreamInv, Streaming, Holding, BrowserInOrder
<1> QED
  BY <1>1, BrowserStep, PTL DEF Spec

\* The browser is told of success, then gets lines in the order they were
\* logged, none twice, none before it was written, and an error only to end.
THEOREM ShownInOrder == Spec => []BrowserInOrder
BY BrowserInvariant, PTL DEF BrowserInv
-------------------------------------------------------------------------------
(***************************************************************************)
(* What becomes of a browser that has gone.                                *)
(***************************************************************************)

\* The stream ends with the call, which has removed its listener then.
ReturnInv ==
    /\ ended => attach[Client] = "end"
    /\ attach[Client] = "end" => Client \notin listeners

LEMMA StepKeepsReturn == PartsInv /\ ReturnInv /\ [Next]_vars => ReturnInv'
<1> SUFFICES ASSUME PartsInv, ReturnInv, [Next]_vars
             PROVE  ReturnInv'
  OBVIOUS
<1> USE DEF monitorVars, forwardVars, Monitor!writerVars, Monitor!clientVars
<1>1. /\ DOMAIN attach = {Client} /\ listeners \subseteq {Client}
      /\ attach[Client] = "hello" => Client \notin listeners
  <2>1. Logging!PastInv /\ Logging!TypeOK
    BY DEF PartsInv, Logging!IInv
  <2> QED
    BY <2>1, Counters DEF Logging!PastInv, Logging!TypeOK
<1>2. CASE HelloSent \/ LineSent
  BY <1>1, <1>2 DEF ReturnInv, HelloSent, LineSent, Monitor!Hello, Monitor!Send, Forward!Arrive
<1>3. CASE HelloFails
  BY <1>1, <1>3 DEF ReturnInv, HelloFails, Monitor!Hello, Forward!StreamEnds
<1>4. CASE AttachReturns
  BY <1>1, <1>4 DEF ReturnInv, AttachReturns, Monitor!RemoveListener, Forward!StreamEnds
<1>5. CASE SendFails \/ Cancelled \/ Add \/ Quit \/ Take
  BY <1>1, <1>5 DEF ReturnInv, SendFails, Cancelled, Add, Quit, Take, Monitor!Send, Monitor!Cancel,
                    Monitor!AddListener, Monitor!Leave, Monitor!Receive
<1>6. CASE Log
  <2>1. UNCHANGED <<attach, listeners, ended>>
    BY <1>6 DEF Log, Monitor!Writer, Monitor!WriteStdout, Monitor!Lock, Monitor!Visit,
                Monitor!Unlock, Monitor!Push, Monitor!Pop, Monitor!PushAgain
  <2> QED
    BY <2>1 DEF ReturnInv
<1>7. CASE Handler \/ Leave \/ UNCHANGED vars
  <2>1. UNCHANGED <<attach, listeners>>
    BY <1>7 DEF Handler, Leave, vars
  <2>2. CASE Leave \/ UNCHANGED vars
    BY <2>1, <2>2 DEF ReturnInv, Leave, Forward!Leave, vars
  <2>3. CASE Handler
    <3>1. UNCHANGED ended
      BY <2>3 DEF Handler, Forward!Handler, Forward!Serve, Forward!Request, Forward!Response,
                  Forward!Finish, Forward!Attach, Forward!Refuse, Forward!Wake, Forward!Shut,
                  Forward!CloseSend, Forward!Return, Forward!ReadFails, Forward!Reject,
                  Forward!Recv, Forward!Acquire, Forward!WriteResponse, Forward!WriteError,
                  Forward!Load, Forward!Swap, Forward!CloseCancel, Forward!netVars
    <3> QED
      BY <2>1, <3>1 DEF ReturnInv
  <2> QED
    BY <1>7, <2>2, <2>3
<1> QED
  BY <1>2, <1>3, <1>4, <1>5, <1>6, <1>7 DEF Next

\* What the logger, and the call of Attach, can do at once: the guards of
\* their actions.
CanLog == wpc \notin {"idle", "error"}

CanAttach ==
    \/ pc["response"] # "off" /\ ~ctx /\ Client \notin done
    \/ attach[Client] \in {"loop", "send"} /\ Client \in done
    \/ attach[Client] = "remove" /\ ~Monitor!Locked /\ ~ended

\* Until a browser that has gone is forgotten, one of the three who must
\* forget it can go on: the handler, the call of Attach, or the logger that
\* holds the mutex.
GoneIsNotHeld ==
    gone => \/ Forward!Over /\ Client \notin listeners
            \/ Forwarding!CanGoOn(FALSE) \/ CanAttach \/ CanLog

\* Between the websocket, the stream, the channel of the listener and the
\* mutex of the monitor nothing waits for a browser that has gone.
THEOREM GoneIsReleased == Spec => []GoneIsNotHeld
<1>1. Init => ReturnInv
  BY DEF Init, Monitor!Init, Forward!Init, ReturnInv
<1>2. Forwarding!Spec => [](Forwarding!HandInv /\ Forwarding!WaitInv)
  BY Assumptions, Forwarding!WaitInvariant
<1>3. Forwarding!Spec => []Forwarding!NobodyHangs
  BY Assumptions, Forwarding!NoDeadlock
<1>4. /\ BrowserInv /\ ReturnInv /\ Forwarding!WaitInv /\ Forwarding!NobodyHangs
      => GoneIsNotHeld
  <2> SUFFICES ASSUME BrowserInv, ReturnInv, Forwarding!WaitInv, Forwarding!NobodyHangs,
                      gone, ~Forwarding!CanGoOn(FALSE), ~CanAttach, ~CanLog
               PROVE  Forward!Over /\ Client \notin listeners
    BY DEF GoneIsNotHeld
  <2>1. Forward!Over
    BY DEF Forwarding!NobodyHangs, Forwarding!Over, Forward!Over, Forwarding!Loops, Forward!Loops
  <2>2. pc["serve"] = "end" /\ pc["response"] \in {"off", "end"} /\ ~ctx
    BY <2>1 DEF Forward!Over, Forward!Loops, Forwarding!WaitInv
  <2>3. /\ attach[Client] \in {"hello", "add", "loop", "send", "remove", "end"}
        /\ attach[Client] \in {"hello", "add"} => Client \notin listeners
        /\ wpc # "error"
    <3>1. Logging!TypeOK /\ Logging!PastInv /\ Logging!WriterInv
      BY DEF BrowserInv, PartsInv, Logging!IInv
    <3> QED
      BY <3>1 DEF Logging!TypeOK, Logging!AttachSteps, Logging!PastInv, Logging!WriterInv
  <2>4. ASSUME attach[Client] \in {"loop", "send", "remove"}
        PROVE  FALSE
    <3>1. pc["response"] # "off"
      BY <2>4 DEF BrowserInv, SilentInv
    <3>2. Client \in done
      BY <2>2, <3>1 DEF CanAttach
    <3>3. attach[Client] = "remove" /\ ~ended
      BY <2>4, <3>2 DEF CanAttach, ReturnInv
    <3>4. ~Monitor!Locked
      BY <2>3 DEF CanLog, Monitor!Locked
    <3> QED
      BY <3>3, <3>4 DEF CanAttach
  <2> QED
    BY <2>1, <2>3, <2>4 DEF ReturnInv
<1> QED
  BY <1>1, <1>2, <1>3, <1>4, PartsBehave, BrowserInvariant, StepKeepsReturn, PTL
     DEF Spec, BrowserInv
===============================================================================
