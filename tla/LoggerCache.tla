------------------------------ MODULE LoggerCache ------------------------------
(***************************************************************************)
(* The asynchronous write cache of logger/cache.go.  Any goroutine calls   *)
(* Write and Sync under one mutex; Write copies its line into the buffered *)
(* channel l.ch; the goroutine run moves bytes from the channel through    *)
(* reader.Read into l.buffer and from there to the underlying writer.      *)
(* Sync hands run the channel l.signal over l.sync and waits for an answer *)
(* on it, holding the mutex.                                               *)
(*                                                                         *)
(* A byte is named by its rank in the order in which Write pushed it, so a *)
(* line is a sequence of consecutive numbers when it enters the channel    *)
(* and every buffer shows which bytes it holds.                            *)
(***************************************************************************)
EXTENDS Naturals, Sequences

CONSTANTS Threads,    \* goroutines that log
          ChanCap,    \* cap(l.ch): runtime.GOMAXPROCS(0)
          BufferSize, \* len(l.buffer): bufferSize of logger.go
          MaxLine,    \* longest line written (bound of the model)
          MaxCalls    \* calls of Write and Sync in a behaviour (bound of the model)

ASSUME SizesPositive ==
    /\ ChanCap \in Nat \ {0}
    /\ BufferSize \in Nat \ {0}
    /\ MaxLine \in Nat
    /\ MaxCalls \in Nat

VARIABLES
    pc,       \* where each goroutine is in Write or Sync
    line,     \* length of the line each goroutine is writing
    lock,     \* holders of l.Mutex: at most one
    ch,       \* l.ch: lines
    sync,     \* number of requests buffered in l.sync (capacity 1)
    signal,   \* number of answers buffered in l.signal (capacity 1)
    rpc,      \* where run is
    rbuffer,  \* r.buffer: the rest of the line being copied, <<>> for nil
    p,        \* the bytes Read has copied into l.buffer
    out,      \* the bytes handed to l.writer, in order
    sent,     \* bytes pushed into l.ch so far
    calls     \* calls made so far

cacheVars == <<pc, line, lock, ch, sync, signal, rpc, rbuffer, p, out, sent, calls>>
callVars == <<pc, line, lock, calls>>
readVars == <<rpc, rbuffer, p, out>>

WritePC == {"lockWrite", "push", "unlock"}
SyncPC  == {"lockSync", "request", "answer", "flush"}
Holding == {"push", "unlock", "request", "answer", "flush"}

Ranks(k, n) == [i \in 1..n |-> k + i]
-------------------------------------------------------------------------------
\* newLoggerCache: empty channels, run started.
InitCache ==
    /\ pc = [t \in Threads |-> "idle"]
    /\ line = [t \in Threads |-> 0]
    /\ lock = {}
    /\ ch = <<>>
    /\ sync = 0 /\ signal = 0
    /\ rpc = "take" /\ rbuffer = <<>> /\ p = <<>>
    /\ out = <<>>
    /\ sent = 0 /\ calls = 0

Goto(t, l) == pc' = [pc EXCEPT ![t] = l]

Enter(t) ==
    /\ pc[t] = "idle"
    /\ calls < MaxCalls
    /\ calls' = calls + 1
    /\ \/ /\ Goto(t, "lockWrite")
          /\ \E n \in 0..MaxLine : line' = [line EXCEPT ![t] = n]
       \/ /\ Goto(t, "lockSync")
          /\ UNCHANGED line
    /\ UNCHANGED <<lock, ch, sync, signal, readVars, sent>>

\* l.Lock() of either function; an empty line skips the channel.
Lock(t) ==
    /\ pc[t] \in {"lockWrite", "lockSync"}
    /\ lock = {}
    /\ lock' = {t}
    /\ Goto(t, IF pc[t] = "lockSync" THEN "request"
               ELSE IF line[t] > 0 THEN "push" ELSE "unlock")
    /\ UNCHANGED <<line, calls, ch, sync, signal, readVars, sent>>

(***************************************************************************)
(* Write: l.ch <- data blocks while the channel is full, with the lock     *)
(* held.                                                                   *)
(***************************************************************************)
Push(t) ==
    /\ pc[t] = "push"
    /\ Len(ch) < ChanCap
    /\ ch' = Append(ch, Ranks(sent, line[t]))
    /\ sent' = sent + line[t]
    /\ Goto(t, "unlock")
    /\ UNCHANGED <<line, lock, calls, sync, signal, readVars>>

\* Mutant of Unlock: the early return of an empty Write keeps the mutex.
Unlock_NotWhenEmpty(t) ==
    /\ pc[t] \in {"unlock", "flush"}
    /\ lock' = IF pc[t] = "unlock" /\ line[t] = 0 THEN lock ELSE lock \ {t}
    /\ Goto(t, "idle")
    /\ UNCHANGED <<line, calls, ch, sync, signal, readVars, sent>>

Unlock(t) ==
    /\ pc[t] \in {"unlock", "flush"}   \* "flush": l.writer.Sync(), then Unlock
    /\ lock' = lock \ {t}
    /\ Goto(t, "idle")
    /\ UNCHANGED <<line, calls, ch, sync, signal, readVars, sent>>

\* Mutant of RequestSync: Sync does not wait for its answer.
RequestSync_NoWait(t) ==
    /\ pc[t] = "request"
    /\ sync < 1
    /\ sync' = sync + 1
    /\ Goto(t, "flush")
    /\ UNCHANGED <<line, lock, calls, ch, signal, readVars, sent>>

(***************************************************************************)
(* Sync: l.sync <- l.signal, then <-l.signal.                              *)
(***************************************************************************)
RequestSync(t) ==
    /\ pc[t] = "request"
    /\ sync < 1
    /\ sync' = sync + 1
    /\ Goto(t, "answer")
    /\ UNCHANGED <<line, lock, calls, ch, signal, readVars, sent>>

Answered(t) ==
    /\ pc[t] = "answer"
    /\ signal > 0
    /\ signal' = signal - 1
    /\ Goto(t, "flush")
    /\ UNCHANGED <<line, lock, calls, ch, sync, readVars, sent>>
-------------------------------------------------------------------------------
(***************************************************************************)
(* run and reader.Read.                                                    *)
(***************************************************************************)

\* for r.buffer == nil { buffer := <-r.ch }: blocks on the channel alone.
Take ==
    /\ rpc = "take"
    /\ \/ /\ rbuffer # <<>>
          /\ UNCHANGED <<ch, rbuffer>>
       \/ /\ rbuffer = <<>>
          /\ ch # <<>>
          /\ rbuffer' = Head(ch)
          /\ ch' = Tail(ch)
    /\ rpc' = "fill"
    /\ UNCHANGED <<callVars, sync, signal, p, out, sent>>

\* One turn of the copy loop, its test of len(p) included: getBuffer tries the
\* channel without blocking, copyBuffer copies what fits.
Room == BufferSize - Len(p)

Copied == IF Len(rbuffer) < Room THEN Len(rbuffer) ELSE Room

Fill ==
    /\ rpc = "fill"
    /\ Room > 0
    /\ \/ /\ rbuffer # <<>>
          /\ p' = p \o SubSeq(rbuffer, 1, Copied)
          /\ rbuffer' = SubSeq(rbuffer, Copied + 1, Len(rbuffer))
          /\ UNCHANGED ch
       \/ /\ rbuffer = <<>>
          /\ ch # <<>>
          /\ rbuffer' = Head(ch)
          /\ ch' = Tail(ch)
          /\ UNCHANGED p
    /\ UNCHANGED <<callVars, sync, signal, rpc, out, sent>>

FillEnds ==
    /\ rpc = "fill"
    /\ \/ Room = 0
       \/ rbuffer = <<>> /\ ch = <<>>
    /\ rpc' = "poll"
    /\ UNCHANGED <<callVars, ch, sync, signal, rbuffer, p, out, sent>>

\* Mutant of Poll: the request is taken and not answered.
Poll_NoAnswer ==
    /\ rpc = "poll"
    /\ sync' = 0
    /\ rpc' = "write"
    /\ UNCHANGED <<callVars, ch, signal, rbuffer, p, out, sent>>

\* select { case ch = <-r.sync: ch <- true; default: }
Poll ==
    /\ rpc = "poll"
    /\ \/ /\ sync > 0
          /\ sync' = sync - 1
          /\ rpc' = "ack"
       \/ /\ sync = 0
          /\ rpc' = "write"
          /\ UNCHANGED sync
    /\ UNCHANGED <<callVars, ch, signal, rbuffer, p, out, sent>>

Ack ==
    /\ rpc = "ack"
    /\ signal < 1
    /\ signal' = signal + 1
    /\ rpc' = "write"
    /\ UNCHANGED <<callVars, ch, sync, rbuffer, p, out, sent>>

\* Mutant of WriteOut: the next Read appends to what was already written.
WriteOut_KeepsBuffer ==
    /\ rpc = "write"
    /\ out' = out \o p
    /\ rpc' = "take"
    /\ UNCHANGED <<callVars, ch, sync, signal, rbuffer, p, sent>>

\* l.writer.Write(l.buffer[:n]), and the next turn of run.
WriteOut ==
    /\ rpc = "write"
    /\ out' = out \o p
    /\ p' = <<>>
    /\ rpc' = "take"
    /\ UNCHANGED <<callVars, ch, sync, signal, rbuffer, sent>>
-------------------------------------------------------------------------------
Run == Take \/ Fill \/ FillEnds \/ Poll \/ Ack \/ WriteOut

Proceed(t) == Push(t) \/ Unlock(t) \/ RequestSync(t) \/ Answered(t)

CacheNext == Run \/ \E t \in Threads : Enter(t) \/ Lock(t) \/ Proceed(t)

CacheSpec == InitCache /\ [][CacheNext]_cacheVars

(***************************************************************************)
(* run and a goroutine inside Write or Sync take their next step when they *)
(* can; sync.Mutex starves nobody.  Nobody is obliged to log.              *)
(***************************************************************************)
CacheFairness ==
    /\ WF_cacheVars(Run)
    /\ \A t \in Threads : WF_cacheVars(Proceed(t)) /\ SF_cacheVars(Lock(t))

FairCache == CacheSpec /\ CacheFairness
-------------------------------------------------------------------------------
CacheTypeOK ==
    /\ pc \in [Threads -> {"idle"} \cup WritePC \cup SyncPC]
    /\ line \in [Threads -> 0..MaxLine]
    /\ lock \in SUBSET Threads
    /\ ch \in Seq(Seq(Nat)) /\ Len(ch) <= ChanCap
    /\ sync \in 0..1 /\ signal \in 0..1
    /\ rpc \in {"take", "fill", "poll", "ack", "write"}
    /\ rbuffer \in Seq(Nat)
    /\ p \in Seq(Nat) /\ Len(p) <= BufferSize
    /\ out \in Seq(Nat)
    /\ sent \in Nat /\ calls \in 0..MaxCalls

\* The writer receives the bytes that were pushed, in the order they were
\* pushed, none lost, repeated or cut, however lines and buffer boundaries fall.
OutInOrder == Len(out) <= sent /\ \A i \in 1..Len(out) : out[i] = i

\* An answer is buffered only for the Sync that still waits for it: no Sync
\* returns on the answer to an earlier request, and run never blocks answering.
AnswerBelongsToWaiter ==
    /\ signal + sync <= 1
    /\ signal = 1 => \E t \in lock : pc[t] = "answer"
    /\ rpc = "ack" => signal = 0 /\ sync = 0

\* The state from which logging does not recover: a Sync holds the mutex and
\* waits for an answer while run waits for a line that only a holder of the
\* mutex could push.
Frozen ==
    /\ \E t \in lock : pc[t] = "answer"
    /\ signal = 0
    /\ rpc = "take" /\ rbuffer = <<>> /\ ch = <<>>

\* Frozen is permanent ...
FrozenForever == [][Frozen => Frozen']_cacheVars

\* ... and it is the only way logging stops: in every other state some call
\* or run can move, unless no call is in progress and everything is written.
OnlyFreezeStops ==
    \/ Frozen
    \/ ENABLED (Run \/ \E t \in Threads : Lock(t) \/ Proceed(t))
    \/ /\ \A t \in Threads : pc[t] = "idle"
       /\ Len(out) = sent

\* A Sync whose request finds run short of its poll, or lines still queued,
\* is answered.
AnsweredInTime(t) ==
    /\ pc[t] = "answer"
    /\ \/ sync = 0
       \/ rpc \in {"fill", "poll"}
       \/ rbuffer # <<>>
       \/ ch # <<>>

SyncAnswered == \A t \in Threads : AnsweredInTime(t) ~> (pc[t] = "flush")

\* The cache implements the asynchronous log, the eventual delivery of every
\* pushed byte included: not even a frozen cache keeps bytes back.
Log == INSTANCE AsyncLog WITH accepted <- sent, out <- out

ImplementsAsyncLog == Log!AbsFairSpec
===============================================================================
