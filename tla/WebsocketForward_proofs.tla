----------------------- MODULE WebsocketForward_proofs -----------------------
(***************************************************************************)
(* Proofs about the websocket forward.  The invariant is the conjunction   *)
(* of one part for each property; a lemma shows that each part survives    *)
(* every step.                                                             *)
(***************************************************************************)
EXTENDS WebsocketForward, FiniteSetTheorems, TLAPS

\* The message in hand is one of the stream's.
HandInv == TypeOK /\ (pc["response"] \in {"lock", "write"} => msg \in Lines)

\* One goroutine at most is on its way to close wf.cancel, and only the one
\* that found wf.closed unset.
CancelInv ==
    /\ ~panicked
    /\ closed = 0 => ~cancel
    /\ \A g \in Loops : pc[g] = "close" => closed = 1 /\ ~cancel
    /\ ~(pc["request"] = "close" /\ pc["response"] = "close")

\* Whoever writes holds w.locker, and one goroutine at most holds it.
LockInv ==
    /\ locker \in {{}} \cup {{g} : g \in Loops}
    /\ \A g \in Loops : pc[g] \in {"write", "errWrite"} => g \in locker

\* There is nobody to explain to, or it is explained; no goroutine gets past
\* its error frame before, nor Serve past its wait.
Told == \E i \in DOMAIN frames : frames[i] = Error
Explained == gone \/ Told

ExplainInv ==
    /\ ~open \/ cancel => Explained
    /\ pc["serve"] \in {"shut", "closeSend", "return", "end"} => Explained
    /\ \A g \in Loops : pc[g] \in {"load", "swap", "close", "end"} => Explained

\* Until counted moves only errors were sent.
OrderInv ==
    /\ counted = 0 => \A i \in DOMAIN frames : frames[i] = Error
    /\ SuccessFirst

\* Every step is one of a handler's goroutine or of its environment.
LEMMA Steps ==
    ASSUME [Next]_vars
    PROVE  \/ Attach \/ Refuse \/ Wake \/ Shut \/ CloseSend \/ Return
           \/ ReadFails \/ Reject \/ Recv \/ WriteResponse
           \/ \E g \in Loops : \/ Acquire(g) \/ WriteError(g)
                               \/ Load(g) \/ Swap(g) \/ CloseCancel(g)
           \/ Leave \/ StreamEnds \/ (\E m \in Lines : Arrive(m))
           \/ UNCHANGED vars
  BY DEF Next, Handler, Serve, Request, Response, Finish, Loops
-------------------------------------------------------------------------------
\* A frame that is written leaves a sequence of frames.
LEMMA WrittenType ==
    ASSUME frames \in Seq(Frames), NEW f \in Frames, Written(f) \/ Unwritten
    PROVE  frames' \in Seq(Frames)
  BY DEF Written, Unwritten

\* Every step keeps the types.
LEMMA StepKeepsTypes == HandInv /\ [Next]_vars => HandInv'
<1> SUFFICES ASSUME HandInv, [Next]_vars
             PROVE  HandInv'
  OBVIOUS
<1> USE DEF HandInv, TypeOK, ServePC, LoopPC, Loops, Goto, netVars, flagVars, writeVars
<1>1. CASE Attach \/ Wake \/ Shut \/ CloseSend \/ Return
  <2>1. CASE Attach
    BY <2>1 DEF Attach
  <2>2. CASE Wake \/ CloseSend
    BY <2>2 DEF Wake, CloseSend
  <2>3. CASE Shut \/ Return
    BY <2>3 DEF Shut, Return
  <2> QED
    BY <1>1, <2>1, <2>2, <2>3
<1>2. CASE Refuse
  <2>1. Error \in Frames
    BY DEF Frames
  <2>2. frames' \in Seq(Frames)
    BY <1>2, <2>1, WrittenType DEF Refuse
  <2> QED
    BY <1>2, <2>2 DEF Refuse
<1>3. CASE ReadFails \/ Reject
  <2>1. CASE ReadFails
    BY <2>1 DEF ReadFails
  <2>2. CASE Reject
    BY <2>2 DEF Reject
  <2> QED
    BY <1>3, <2>1, <2>2
<1>4. CASE Recv
  <2>1. queue # <<>> => Head(queue) \in Lines /\ Tail(queue) \in Seq(Lines)
    OBVIOUS
  <2>2. queue' \in Seq(Lines) /\ msg' \in Lines \cup {0}
    BY <1>4, <2>1 DEF Recv
  <2>3. pc'["response"] = "lock" => msg' \in Lines
    BY <1>4, <2>1 DEF Recv
  <2>4. pc'["response"] # "write"
    BY <1>4 DEF Recv
  <2> QED
    BY <1>4, <2>2, <2>3, <2>4 DEF Recv
<1>5. CASE WriteResponse
  <2>1. Frame \in Frames
    BY <1>5 DEF WriteResponse, Frame, Frames
  <2>2. frames' \in Seq(Frames)
    BY <1>5, <2>1, WrittenType DEF WriteResponse
  <2>3. counted' \in Nat
    BY <1>5 DEF WriteResponse
  <2> QED
    BY <1>5, <2>2, <2>3 DEF WriteResponse
<1>6. ASSUME NEW g \in Loops, Acquire(g) \/ Load(g) \/ Swap(g) \/ CloseCancel(g)
      PROVE  HandInv'
  <2>1. CASE Acquire(g)
    BY <1>6, <2>1 DEF Acquire
  <2>2. CASE Load(g)
    BY <1>6, <2>2 DEF Load
  <2>3. CASE Swap(g)
    BY <1>6, <2>3 DEF Swap
  <2>4. CASE CloseCancel(g)
    BY <1>6, <2>4 DEF CloseCancel
  <2> QED
    BY <1>6, <2>1, <2>2, <2>3, <2>4
<1>7. ASSUME NEW g \in Loops, WriteError(g)
      PROVE  HandInv'
  <2>1. Error \in Frames
    BY DEF Frames
  <2>2. frames' \in Seq(Frames)
    BY <1>7, <2>1, WrittenType DEF WriteError
  <2> QED
    BY <1>7, <2>2 DEF WriteError
<1>8. CASE Leave \/ StreamEnds
  BY <1>8 DEF Leave, StreamEnds
<1>9. ASSUME NEW m \in Lines, Arrive(m)
      PROVE  HandInv'
  BY <1>9 DEF Arrive
<1>10. CASE UNCHANGED vars
  BY <1>10 DEF vars
<1> HIDE DEF HandInv
<1> QED
  BY Steps, <1>1, <1>2, <1>3, <1>4, <1>5, <1>6, <1>7, <1>8, <1>9, <1>10

\* The initial state has the types.
LEMMA InitTypes == Init => HandInv
<1> SUFFICES ASSUME Init
             PROVE  HandInv
  OBVIOUS
<1>1. queue \in Seq(Lines) /\ frames \in Seq(Frames)
  BY DEF Init
<1>2. pc \in [{"serve"} \cup Loops -> ServePC \cup LoopPC]
  BY DEF Init, ServePC, LoopPC, Loops
<1> QED
  BY <1>1, <1>2 DEF Init, HandInv, TypeOK, ServePC, LoopPC, Loops

\* Goroutines, channels and frames have their types.
THEOREM TypeCorrect == Spec => []TypeOK
<1>1. HandInv => TypeOK
  BY DEF HandInv
<1> QED
  BY InitTypes, StepKeepsTypes, <1>1, PTL DEF Spec
-------------------------------------------------------------------------------
\* Only the goroutine that swapped first goes on to close the channel.
LEMMA StepKeepsCancel == HandInv /\ CancelInv /\ [Next]_vars => CancelInv'
<1> SUFFICES ASSUME HandInv, CancelInv, [Next]_vars
             PROVE  CancelInv'
  OBVIOUS
<1> USE DEF HandInv, TypeOK, CancelInv, Loops, Goto, netVars, flagVars, writeVars
<1>1. CASE Attach \/ Refuse \/ Wake \/ Shut \/ CloseSend \/ Return
  BY <1>1 DEF Attach, Refuse, Wake, Shut, CloseSend, Return
<1>2. CASE ReadFails \/ Reject \/ Recv \/ WriteResponse
  BY <1>2 DEF ReadFails, Reject, Recv, WriteResponse
<1>3. ASSUME NEW g \in Loops, Acquire(g) \/ WriteError(g) \/ Load(g)
      PROVE  CancelInv'
  BY <1>3 DEF Acquire, WriteError, Load
<1>4. ASSUME NEW g \in Loops, Swap(g) \/ CloseCancel(g)
      PROVE  CancelInv'
  BY <1>4 DEF Swap, CloseCancel
<1>5. CASE Leave \/ StreamEnds \/ UNCHANGED vars
  BY <1>5 DEF Leave, StreamEnds, vars
<1>6. ASSUME NEW m \in Lines, Arrive(m)
      PROVE  CancelInv'
  BY <1>6 DEF Arrive
<1> HIDE DEF CancelInv
<1> QED
  BY Steps, <1>1, <1>2, <1>3, <1>4, <1>5, <1>6

\* wf.cancel is never closed twice.
THEOREM NeverPanics == Spec => []CancelClosedOnce
<1>1. Init => CancelInv
  BY DEF Init, CancelInv, Loops
<1>2. CancelInv => CancelClosedOnce
  BY DEF CancelInv, CancelClosedOnce
<1> QED
  BY InitTypes, StepKeepsTypes, StepKeepsCancel, <1>1, <1>2, PTL DEF Spec
-------------------------------------------------------------------------------
\* The mutex is taken before a frame is written and given back after.
LEMMA StepKeepsLock == HandInv /\ LockInv /\ [Next]_vars => LockInv'
<1> SUFFICES ASSUME HandInv, LockInv, [Next]_vars
             PROVE  LockInv'
  OBVIOUS
<1> USE DEF HandInv, TypeOK, LockInv, Loops, Goto, netVars, flagVars, writeVars
<1>1. CASE Attach \/ Refuse \/ Wake \/ Shut \/ CloseSend \/ Return
  <2>1. UNCHANGED locker /\ \A g \in Loops : pc'[g] \in {pc[g], "read", "recv"}
    BY <1>1 DEF Attach, Refuse, Wake, Shut, CloseSend, Return
  <2> QED
    BY <2>1
<1>2. CASE ReadFails \/ Reject \/ Recv \/ WriteResponse
  BY <1>2 DEF ReadFails, Reject, Recv, WriteResponse
<1>3. ASSUME NEW g \in Loops, Acquire(g) \/ WriteError(g)
      PROVE  LockInv'
  BY <1>3 DEF Acquire, WriteError
<1>4. ASSUME NEW g \in Loops, Load(g) \/ Swap(g) \/ CloseCancel(g)
      PROVE  LockInv'
  BY <1>4 DEF Load, Swap, CloseCancel
<1>5. CASE Leave \/ StreamEnds \/ UNCHANGED vars
  BY <1>5 DEF Leave, StreamEnds, vars
<1>6. ASSUME NEW m \in Lines, Arrive(m)
      PROVE  LockInv'
  BY <1>6 DEF Arrive
<1> HIDE DEF LockInv
<1> QED
  BY Steps, <1>1, <1>2, <1>3, <1>4, <1>5, <1>6

\* No two goroutines write to the websocket at a time.
THEOREM WritesExclude == Spec => []OneWriter
<1>1. Init => LockInv
  BY DEF Init, LockInv, Loops
<1>2. LockInv => OneWriter
  <2> SUFFICES ASSUME LockInv
               PROVE  OneWriter
    OBVIOUS
  <2> DEFINE W == {g \in Loops : pc[g] \in {"write", "errWrite"}}
  <2>1. W \subseteq locker
    BY DEF LockInv
  <2>2. IsFiniteSet(locker) /\ Cardinality(locker) <= 1
    BY FS_EmptySet, FS_Singleton DEF LockInv
  <2>3. Cardinality(W) <= Cardinality(locker) /\ Cardinality(W) \in Nat
    BY <2>1, <2>2, FS_Subset, FS_CardinalityType
  <2>4. Cardinality(locker) \in Nat
    BY <2>2, FS_CardinalityType
  <2> QED
    BY <2>2, <2>3, <2>4 DEF OneWriter
<1> QED
  BY InitTypes, StepKeepsTypes, StepKeepsLock, <1>1, <1>2, PTL DEF Spec
-------------------------------------------------------------------------------
\* An explanation given stays given.
LEMMA StaysExplained ==
    ASSUME frames \in Seq(Frames), Explained, gone' = gone,
           NEW f, Written(f) \/ Unwritten
    PROVE  Explained'
  BY DEF Explained, Told, Written, Unwritten

\* An error frame that is written explains, and one that is refused finds the
\* browser gone or the websocket closed.
LEMMA ErrorExplains ==
    ASSUME frames \in Seq(Frames), gone \in BOOLEAN, gone' = gone,
           ~open => Explained, Written(Error) \/ Unwritten
    PROVE  Explained'
<1>1. CASE gone
  BY <1>1 DEF Explained
<1>2. CASE ~gone /\ Written(Error)
  <2>1. frames' = Append(frames, Error)
    BY <1>2 DEF Written
  <2>2. Len(frames) + 1 \in DOMAIN frames' /\ frames'[Len(frames) + 1] = Error
    BY <2>1
  <2> QED
    BY <2>2 DEF Explained, Told
<1>3. CASE ~gone /\ Unwritten
  BY <1>3 DEF Unwritten, Explained, Told
<1> QED
  BY <1>1, <1>2, <1>3

\* No step gets past an explanation that was not given.
LEMMA StepKeepsExplained == HandInv /\ ExplainInv /\ [Next]_vars => ExplainInv'
<1> SUFFICES ASSUME HandInv, ExplainInv, [Next]_vars
             PROVE  ExplainInv'
  OBVIOUS
<1> USE DEF Goto, netVars, flagVars, writeVars
<1>1. ASSUME UNCHANGED frames, gone => gone'
      PROVE  Explained => Explained'
  BY <1>1 DEF Explained, Told
<1>2. pc \in [{"serve"} \cup Loops -> ServePC \cup LoopPC]
  BY DEF HandInv, TypeOK
<1>3. CASE Attach \/ Wake \/ Shut \/ CloseSend \/ Return
  BY <1>1, <1>2, <1>3 DEF ExplainInv, Attach, Wake, Shut, CloseSend, Return, Loops
<1>4. CASE Refuse
  <2>1. Explained'
    BY <1>4, ErrorExplains DEF Refuse, HandInv, TypeOK, ExplainInv
  <2> QED
    BY <1>2, <1>4, <2>1 DEF Refuse, ExplainInv, Loops
<1>5. CASE ReadFails \/ Reject \/ Recv
  BY <1>1, <1>2, <1>5 DEF ReadFails, Reject, Recv, ExplainInv, Explained, Loops
<1>6. CASE WriteResponse
  <2>1. Explained => Explained'
    BY <1>6, StaysExplained DEF WriteResponse, HandInv, TypeOK
  <2> QED
    BY <1>2, <1>6, <2>1 DEF WriteResponse, ExplainInv, Loops
<1>7. ASSUME NEW g \in Loops, Acquire(g) \/ Load(g) \/ Swap(g) \/ CloseCancel(g)
      PROVE  ExplainInv'
  BY <1>1, <1>2, <1>7 DEF Acquire, Load, Swap, CloseCancel, ExplainInv, Loops
<1>8. ASSUME NEW g \in Loops, WriteError(g)
      PROVE  ExplainInv'
  <2>1. Explained'
    BY <1>8, ErrorExplains DEF WriteError, HandInv, TypeOK, ExplainInv
  <2> QED
    BY <2>1 DEF ExplainInv
<1>9. CASE Leave \/ StreamEnds \/ UNCHANGED vars
  BY <1>1, <1>9 DEF Leave, StreamEnds, vars, ExplainInv
<1>10. ASSUME NEW m \in Lines, Arrive(m)
       PROVE  ExplainInv'
  BY <1>1, <1>10 DEF Arrive, ExplainInv
<1> QED
  BY Steps, <1>3, <1>4, <1>5, <1>6, <1>7, <1>8, <1>9, <1>10

\* A browser that is there when the websocket is closed was told why.
THEOREM CloseIsExplained == Spec => []ClosedIsExplained
<1>1. Init => ExplainInv
  BY DEF Init, ExplainInv, Loops
<1>2. ExplainInv => ClosedIsExplained
  BY DEF ExplainInv, Explained, Told, ClosedIsExplained
<1> QED
  BY InitTypes, StepKeepsTypes, StepKeepsExplained, <1>1, <1>2, PTL DEF Spec
-------------------------------------------------------------------------------
\* The kinds of frames differ.
LEMMA Kinds == Error # Success /\ \A m : Data(m) # Success
  BY DEF Error, Success, Data

\* An error frame may come at any time.
LEMMA ErrorKeepsOrder ==
    ASSUME frames \in Seq(Frames), OrderInv, UNCHANGED counted,
           Written(Error) \/ Unwritten
    PROVE  OrderInv'
<1>1. CASE frames' = frames
  BY <1>1 DEF OrderInv, SuccessFirst
<1>2. CASE frames' = Append(frames, Error)
  <2>1. /\ DOMAIN frames' = 1..(Len(frames) + 1)
        /\ DOMAIN frames = 1..Len(frames) /\ Len(frames) \in Nat
        /\ \A i \in DOMAIN frames : frames'[i] = frames[i]
        /\ frames'[Len(frames) + 1] = Error
    BY <1>2
  <2>2. counted' = 0 => \A i \in DOMAIN frames' : frames'[i] = Error
    BY <2>1 DEF OrderInv
  <2>3. SuccessFirst'
    <3> SUFFICES ASSUME NEW i \in DOMAIN frames', frames'[i] = Success,
                        NEW j \in 1..(i - 1)
                 PROVE  frames'[j] = Error
      BY DEF SuccessFirst
    <3>1. i \in DOMAIN frames
      BY <2>1, Kinds
    <3>2. j \in DOMAIN frames
      BY <2>1, <3>1
    <3> QED
      BY <2>1, <3>1, <3>2 DEF OrderInv, SuccessFirst
  <2> QED
    BY <2>2, <2>3 DEF OrderInv
<1> QED
  BY <1>1, <1>2 DEF Written, Unwritten

\* Success is written only while counted is zero.
LEMMA ResponseKeepsOrder ==
    ASSUME HandInv, OrderInv, WriteResponse
    PROVE  OrderInv'
<1>1. CASE Unwritten /\ UNCHANGED counted
  BY <1>1 DEF Unwritten, OrderInv, SuccessFirst
<1>2. CASE Written(Frame) /\ counted' = counted + 1
  <2>1. counted \in Nat /\ counted' # 0 /\ frames \in Seq(Frames)
    BY <1>2 DEF HandInv, TypeOK
  <2>2. CASE frames' = frames
    BY <2>1, <2>2 DEF OrderInv, SuccessFirst
  <2>3. CASE frames' = Append(frames, Frame)
    <3>1. /\ DOMAIN frames' = 1..(Len(frames) + 1)
          /\ DOMAIN frames = 1..Len(frames) /\ Len(frames) \in Nat
          /\ \A i \in DOMAIN frames : frames'[i] = frames[i]
          /\ frames'[Len(frames) + 1] = Frame
      BY <2>1, <2>3
    <3>2. Frame = Success => counted = 0
      BY Kinds DEF Frame
    <3>3. SuccessFirst'
      <4> SUFFICES ASSUME NEW i \in DOMAIN frames', frames'[i] = Success,
                          NEW j \in 1..(i - 1)
                   PROVE  frames'[j] = Error
        BY DEF SuccessFirst
      <4>1. j \in DOMAIN frames
        BY <3>1
      <4>2. CASE i \in DOMAIN frames
        BY <3>1, <4>1, <4>2 DEF OrderInv, SuccessFirst
      <4>3. CASE i = Len(frames) + 1
        BY <3>1, <3>2, <4>1, <4>3 DEF OrderInv
      <4> QED
        BY <3>1, <4>2, <4>3
    <3> QED
      BY <2>1, <3>3 DEF OrderInv
  <2> QED
    BY <1>2, <2>2, <2>3 DEF Written
<1> QED
  BY <1>1, <1>2 DEF WriteResponse

\* Every other step leaves the frames alone.
LEMMA StepKeepsOrder == HandInv /\ OrderInv /\ [Next]_vars => OrderInv'
<1> SUFFICES ASSUME HandInv, OrderInv, [Next]_vars
             PROVE  OrderInv'
  OBVIOUS
<1> USE DEF writeVars
<1>1. ASSUME UNCHANGED <<counted, frames>>
      PROVE  OrderInv'
  BY <1>1 DEF OrderInv, SuccessFirst
<1>2. CASE \/ Attach \/ Wake \/ Shut \/ CloseSend \/ Return
           \/ ReadFails \/ Reject \/ Recv \/ Leave \/ StreamEnds \/ UNCHANGED vars
  BY <1>1, <1>2 DEF Attach, Wake, Shut, CloseSend, Return, ReadFails, Reject, Recv,
                    Leave, StreamEnds, vars
<1>3. ASSUME NEW g \in Loops, Acquire(g) \/ Load(g) \/ Swap(g) \/ CloseCancel(g)
      PROVE  OrderInv'
  BY <1>1, <1>3 DEF Acquire, Load, Swap, CloseCancel
<1>4. ASSUME NEW m \in Lines, Arrive(m)
      PROVE  OrderInv'
  BY <1>1, <1>4 DEF Arrive
<1>5. CASE Refuse
  BY <1>5, ErrorKeepsOrder DEF Refuse, HandInv, TypeOK
<1>6. ASSUME NEW g \in Loops, WriteError(g)
      PROVE  OrderInv'
  BY <1>6, ErrorKeepsOrder DEF WriteError, HandInv, TypeOK
<1>7. CASE WriteResponse
  BY <1>7, ResponseKeepsOrder
<1> QED
  BY Steps, <1>2, <1>3, <1>4, <1>5, <1>6, <1>7

\* Success is reported once, before any data.
THEOREM SuccessComesFirst == Spec => []SuccessFirst
<1>1. Init => OrderInv
  BY DEF Init, OrderInv, SuccessFirst
<1>2. OrderInv => SuccessFirst
  BY DEF OrderInv
<1> QED
  BY InitTypes, StepKeepsTypes, StepKeepsOrder, <1>1, <1>2, PTL DEF Spec
-------------------------------------------------------------------------------
(***************************************************************************)
(* That the goroutines do not wait for one another.                        *)
(***************************************************************************)

\* What the goroutines can do at once: the guards of their actions.  A frame
\* is written at once when the browser reads, or cannot be.
CanWrite(reads) == reads \/ gone \/ ~open

CanServe(reads) ==
    \/ pc["serve"] \in {"attach", "shut", "closeSend", "return"}
    \/ pc["serve"] = "refuse" /\ CanWrite(reads)
    \/ pc["serve"] = "wait" /\ cancel

CanLoop(g, reads) ==
    \/ g = "request" /\ pc[g] = "read" /\ (gone \/ ~open)
    \/ g = "response" /\ pc[g] = "recv" /\ (queue # <<>> \/ ~ctx \/ ended)
    \/ pc[g] \in {"lock", "errLock"} /\ locker = {}
    \/ pc[g] \in {"write", "errWrite"} /\ CanWrite(reads)
    \/ pc[g] \in {"load", "swap", "close"}

CanGoOn(reads) == CanServe(reads) \/ \E g \in Loops : CanLoop(g, reads)

\* What holds up the end: the mutex is held by who writes, the channel is
\* closed or about to be when a goroutine has ended, and Serve leaves nothing
\* open behind it.
WaitInv ==
    /\ \A g \in locker : pc[g] \in {"write", "errWrite"}
    /\ pc["request"] = "off" <=> pc["response"] = "off"
    /\ pc["serve"] \in {"attach", "refuse"} => pc["request"] = "off" /\ ~cancel
    /\ pc["request"] = "off" => pc["serve"] \in {"attach", "refuse", "return", "end"}
    /\ pc["request"] \in {"off", "read", "errLock", "errWrite", "load", "swap", "close", "end"}
    /\ pc["response"] # "read"
    /\ \A g \in Loops : pc[g] = "end" => closed = 1
    /\ closed = 1 => cancel \/ \E g \in Loops : pc[g] = "close"
    /\ pc["serve"] = "end" => ~open /\ ~ctx

LEMMA StepKeepsWait == HandInv /\ CancelInv /\ LockInv /\ WaitInv /\ [Next]_vars => WaitInv'
<1> SUFFICES ASSUME HandInv, CancelInv, LockInv, WaitInv, [Next]_vars
             PROVE  WaitInv'
  OBVIOUS
<1> USE DEF Goto, netVars, flagVars, writeVars, Loops
<1>1. /\ DOMAIN pc = {"serve", "request", "response"}
      /\ locker \in SUBSET Loops /\ closed \in {0, 1}
  BY DEF HandInv, TypeOK
<1>2. CASE Attach
  BY <1>1, <1>2 DEF Attach, WaitInv
<1>3. CASE Refuse
  BY <1>1, <1>3 DEF Refuse, WaitInv
<1>4. CASE Wake \/ Shut \/ CloseSend \/ Return
  BY <1>1, <1>4 DEF Wake, Shut, CloseSend, Return, WaitInv
<1>5. CASE ReadFails \/ Reject
  <2>1. /\ pc["request"] = "read" /\ UNCHANGED <<locker, closed, cancel, open, ctx>>
        /\ pc' = [pc EXCEPT !["request"] = "load"] \/ pc' = [pc EXCEPT !["request"] = "errLock"]
    BY <1>5 DEF ReadFails, Reject
  <2>2. /\ pc'["request"] \in {"load", "errLock"} /\ pc'["serve"] = pc["serve"]
        /\ pc'["response"] = pc["response"]
    BY <1>1, <2>1
  <2> QED
    BY <1>1, <2>1, <2>2 DEF WaitInv
<1>6. CASE Recv
  BY <1>1, <1>6 DEF Recv, WaitInv
<1>7. CASE WriteResponse
  BY <1>1, <1>7 DEF WriteResponse, WaitInv
<1>8. ASSUME NEW g \in Loops, Acquire(g)
      PROVE  WaitInv'
  BY <1>1, <1>8 DEF Acquire, WaitInv
<1>9. ASSUME NEW g \in Loops, WriteError(g)
      PROVE  WaitInv'
  BY <1>1, <1>9 DEF WriteError, WaitInv
<1>10. ASSUME NEW g \in Loops, Load(g)
       PROVE  WaitInv'
  BY <1>1, <1>10 DEF Load, WaitInv
<1>11. ASSUME NEW g \in Loops, Swap(g)
       PROVE  WaitInv'
  BY <1>1, <1>11 DEF Swap, WaitInv
<1>12. ASSUME NEW g \in Loops, CloseCancel(g)
       PROVE  WaitInv'
  <2>1. /\ pc[g] = "close" /\ cancel' /\ UNCHANGED <<locker, closed, open, ctx>>
        /\ pc' = [pc EXCEPT ![g] = "end"]
    BY <1>12 DEF CloseCancel
  <2>2. closed = 1
    BY <2>1 DEF CancelInv
  <2>3. /\ pc'[g] = "end" /\ pc'["serve"] = pc["serve"]
        /\ \A h \in Loops : h # g => pc'[h] = pc[h]
    BY <1>1, <2>1
  <2> QED
    BY <1>1, <2>1, <2>2, <2>3 DEF WaitInv
<1>13. ASSUME NEW m \in Lines, Arrive(m)
       PROVE  WaitInv'
  BY <1>1, <1>13 DEF Arrive, WaitInv
<1>14. CASE Leave \/ StreamEnds \/ UNCHANGED vars
  <2>1. UNCHANGED <<pc, locker, closed, cancel, open, ctx>>
    BY <1>14 DEF Leave, StreamEnds, vars
  <2> QED
    BY <2>1 DEF WaitInv
<1> QED
  BY Steps, <1>2, <1>3, <1>4, <1>5, <1>6, <1>7, <1>8, <1>9, <1>10, <1>11, <1>12, <1>13, <1>14

\* Who holds the mutex, or waits for it, goes on when writes do.
LEMMA LoopGoesOn ==
    ASSUME HandInv, WaitInv, NEW reads \in BOOLEAN, ~CanGoOn(reads), CanWrite(reads)
    PROVE  /\ pc["serve"] \in {"wait", "end"} /\ (pc["serve"] = "wait" => ~cancel)
           /\ pc["request"] \in {"off", "read", "end"}
           /\ pc["response"] \in {"off", "recv", "end"}
<1> USE DEF Loops, LoopPC, ServePC
<1>1. /\ pc["serve"] \in ServePC /\ pc["request"] \in LoopPC /\ pc["response"] \in LoopPC
      /\ locker \in SUBSET Loops
  BY DEF HandInv, TypeOK
<1>2. ~CanServe(reads) /\ \A g \in Loops : ~CanLoop(g, reads)
  BY DEF CanGoOn
<1>3. locker = {}
  BY <1>1, <1>2 DEF WaitInv, CanLoop
<1> QED
  BY <1>1, <1>2, <1>3 DEF WaitInv, CanServe, CanLoop

LEMMA WaitInvariant == Spec => [](HandInv /\ WaitInv)
<1>1. Init => CancelInv /\ LockInv /\ WaitInv
  BY DEF Init, CancelInv, LockInv, WaitInv, Loops
<1> QED
  BY <1>1, InitTypes, StepKeepsTypes, StepKeepsCancel, StepKeepsLock, StepKeepsWait, PTL DEF Spec

\* A browser that has gone, or a Serve that was woken, leaves no goroutine
\* waiting for another: until all have ended one of them can go on, whether or
\* not the browser reads.  With one that reads so does the end of the stream.
NobodyHangs ==
    /\ gone \/ cancel => Over \/ CanGoOn(FALSE)
    /\ ended => Over \/ CanGoOn(TRUE)

THEOREM NoDeadlock == Spec => []NobodyHangs
<1>1. HandInv /\ WaitInv => NobodyHangs
  <2> SUFFICES ASSUME HandInv, WaitInv
               PROVE  NobodyHangs
    OBVIOUS
  <2>1. ASSUME gone \/ cancel, ~CanGoOn(FALSE)
        PROVE  Over
    <3>1. CanWrite(FALSE)
      <4>1. pc["serve"] \in ServePC /\ ~CanServe(FALSE)
        BY <2>1 DEF HandInv, TypeOK, CanGoOn
      <4> QED
        BY <2>1, <4>1 DEF WaitInv, CanServe, CanWrite, ServePC
    <3> QED
      BY <2>1, <3>1, LoopGoesOn DEF WaitInv, Over, CanGoOn, CanLoop, Loops
  <2>2. ASSUME ended, ~CanGoOn(TRUE)
        PROVE  Over
    <3>1. CanWrite(TRUE)
      BY DEF CanWrite
    <3> QED
      BY <2>2, <3>1, LoopGoesOn DEF WaitInv, Over, CanGoOn, CanLoop, Loops
  <2> QED
    BY <2>1, <2>2 DEF NobodyHangs
<1> QED
  BY <1>1, WaitInvariant, PTL
===============================================================================
