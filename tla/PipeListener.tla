----------------------------- MODULE PipeListener -----------------------------
(***************************************************************************)
(* The in-process listener of cmd/internal/daemon/listener.go: the gateway *)
(* dials it (DialContext), the in-process gRPC server accepts from it      *)
(* (Accept) and Close shuts it.  l.ch is unbuffered, so a connection moves *)
(* only when a dialer and an acceptor meet; l.close is closed to release   *)
(* everybody.  Goroutines are split by the call they make.                 *)
(*                                                                         *)
(* A select is modelled by Go's two phases: on arrival it takes any case   *)
(* that is ready (a ready channel operation is one whose partner is        *)
(* already parked); with none ready it parks, and only a partner or        *)
(* close() wakes it.                                                       *)
(***************************************************************************)
EXTENDS Naturals, FiniteSets

CONSTANTS Acceptors,  \* goroutines that call Accept
          Dialers,    \* goroutines that call DialContext
          Closers     \* goroutines that call Close

ASSUME CallersDisjoint ==
    /\ Acceptors \cap Dialers = {}
    /\ Acceptors \cap Closers = {}
    /\ Dialers \cap Closers = {}

Callers == Acceptors \cup Dialers \cup Closers

VARIABLES
    at,         \* where each call is
    closed,     \* l.close has been closed
    done,       \* l.done
    mutex,      \* who holds l.m: a subset of Closers with at most one member
    cancelled,  \* dialers whose context is done
    peer,       \* acceptor |-> the dialer whose pipe it was handed, as a set
    panicked    \* close(l.close) ran on a closed channel

pipeVars == <<at, closed, done, mutex, cancelled, peer, panicked>>

\* "select" is the arrival at a select statement, "parked" the wait inside it.
AcceptorPC == {"idle", "select", "parked", "conn", "errClosed"}
DialerPC   == {"idle", "select", "parked", "conn", "errClosed", "errCtx"}
CloserPC   == {"idle", "lock", "check", "close", "store", "unlock", "unlockErr",
               "nil", "errClosed"}
-------------------------------------------------------------------------------
(***************************************************************************)
(* ListenPipe: both channels made, done zero, nobody calling.              *)
(***************************************************************************)
InitPipe ==
    /\ at = [c \in Callers |-> "idle"]
    /\ closed = FALSE
    /\ done = 0
    /\ mutex = {}
    /\ cancelled = {}
    /\ peer = [a \in Acceptors |-> {}]
    /\ panicked = FALSE

MoveTo(c, l) == at' = [at EXCEPT ![c] = l]

\* A dialer and an acceptor meet on l.ch: both calls return with the two ends
\* of one pipe.
Handover(a, d) ==
    /\ at' = [at EXCEPT ![a] = "conn", ![d] = "conn"]
    /\ peer' = [peer EXCEPT ![a] = {d}]

ParkedIn(S) == {c \in S : at[c] = "parked"}
-------------------------------------------------------------------------------
(***************************************************************************)
(* Accept.                                                                 *)
(***************************************************************************)
AcceptCall(a) ==
    /\ at[a] = "idle"
    /\ MoveTo(a, "select")
    /\ UNCHANGED <<closed, done, mutex, cancelled, peer, panicked>>

\* Mutants of AcceptSelect: the select lacks its l.close case; the close case
\* forgets to set the error.
AcceptSelect_NoCloseCase(a) ==
    /\ at[a] = "select"
    /\ \/ \E d \in ParkedIn(Dialers) : Handover(a, d)
       \/ /\ ParkedIn(Dialers) = {}
          /\ MoveTo(a, "parked")
          /\ UNCHANGED peer
    /\ UNCHANGED <<closed, done, mutex, cancelled, panicked>>

AcceptSelect(a) ==
    /\ at[a] = "select"
    /\ \/ \E d \in ParkedIn(Dialers) : Handover(a, d)
       \/ /\ closed
          /\ MoveTo(a, "errClosed")
          /\ UNCHANGED peer
       \/ /\ ~closed
          /\ ParkedIn(Dialers) = {}
          /\ MoveTo(a, "parked")
          /\ UNCHANGED peer
    /\ UNCHANGED <<closed, done, mutex, cancelled, panicked>>

(***************************************************************************)
(* DialContext: the atomic check of done, then the select.                 *)
(***************************************************************************)
DialCheck(d) ==
    /\ at[d] = "idle"
    /\ MoveTo(d, IF done = 0 THEN "select" ELSE "errClosed")
    /\ UNCHANGED <<closed, done, mutex, cancelled, peer, panicked>>

\* Mutant of DialSelect: the select lacks its l.close case.
DialSelect_NoCloseCase(d) ==
    /\ at[d] = "select"
    /\ \/ \E a \in ParkedIn(Acceptors) : Handover(a, d)
       \/ /\ d \in cancelled
          /\ MoveTo(d, "errCtx")
          /\ UNCHANGED peer
       \/ /\ d \notin cancelled
          /\ ParkedIn(Acceptors) = {}
          /\ MoveTo(d, "parked")
          /\ UNCHANGED peer
    /\ UNCHANGED <<closed, done, mutex, cancelled, panicked>>

DialSelect(d) ==
    /\ at[d] = "select"
    /\ \/ \E a \in ParkedIn(Acceptors) : Handover(a, d)
       \/ /\ d \in cancelled
          /\ MoveTo(d, "errCtx")
          /\ UNCHANGED peer
       \/ /\ closed
          /\ MoveTo(d, "errClosed")
          /\ UNCHANGED peer
       \/ /\ ~closed
          /\ d \notin cancelled
          /\ ParkedIn(Acceptors) = {}
          /\ MoveTo(d, "parked")
          /\ UNCHANGED peer
    /\ UNCHANGED <<closed, done, mutex, cancelled, panicked>>

\* Mutant of Cancel: the context is looked at again after the select, and a
\* dialer whose pipe was already accepted reports the context's error.
Cancel_AfterHandover(d) ==
    /\ d \notin cancelled
    /\ cancelled' = cancelled \cup {d}
    /\ at' = [at EXCEPT ![d] = IF @ \in {"parked", "conn"} THEN "errCtx" ELSE @]
    /\ UNCHANGED <<closed, done, mutex, peer, panicked>>

\* The dialer's context is cancelled or times out; a parked select wakes.
Cancel(d) ==
    /\ d \notin cancelled
    /\ cancelled' = cancelled \cup {d}
    /\ at' = [at EXCEPT ![d] = IF @ = "parked" THEN "errCtx" ELSE @]
    /\ UNCHANGED <<closed, done, mutex, peer, panicked>>
-------------------------------------------------------------------------------
(***************************************************************************)
(* Close: double-checked l.done.  The deferred calls run last in, first    *)
(* out: StoreUint32 before Unlock.                                         *)
(***************************************************************************)
CloseLoad(c) ==
    /\ at[c] = "idle"
    /\ MoveTo(c, IF done = 0 THEN "lock" ELSE "errClosed")
    /\ UNCHANGED <<closed, done, mutex, cancelled, peer, panicked>>

CloseLock(c) ==
    /\ at[c] = "lock"
    /\ mutex = {}
    /\ mutex' = {c}
    /\ MoveTo(c, "check")
    /\ UNCHANGED <<closed, done, cancelled, peer, panicked>>

\* Mutant of CloseCheck: no second look at done under the lock.
CloseCheck_Unchecked(c) ==
    /\ at[c] = "check"
    /\ MoveTo(c, "close")
    /\ UNCHANGED <<closed, done, mutex, cancelled, peer, panicked>>

CloseCheck(c) ==
    /\ at[c] = "check"
    /\ MoveTo(c, IF done = 0 THEN "close" ELSE "unlockErr")
    /\ UNCHANGED <<closed, done, mutex, cancelled, peer, panicked>>

\* close(l.close) wakes every goroutine parked on it at once.
CloseChannel(c) ==
    /\ at[c] = "close"
    /\ panicked' = (panicked \/ closed)
    /\ closed' = TRUE
    /\ at' = [x \in Callers |->
                IF x = c THEN "store"
                ELSE IF at[x] = "parked" THEN "errClosed" ELSE at[x]]
    /\ UNCHANGED <<done, mutex, cancelled, peer>>

CloseStore(c) ==
    /\ at[c] = "store"
    /\ done' = 1
    /\ MoveTo(c, "unlock")
    /\ UNCHANGED <<closed, mutex, cancelled, peer, panicked>>

CloseUnlock(c) ==
    /\ at[c] \in {"unlock", "unlockErr"}
    /\ mutex' = {}
    /\ MoveTo(c, IF at[c] = "unlock" THEN "nil" ELSE "errClosed")
    /\ UNCHANGED <<closed, done, cancelled, peer, panicked>>
-------------------------------------------------------------------------------
AcceptStep(a) == AcceptCall(a) \/ AcceptSelect(a)
DialStep(d)   == DialCheck(d) \/ DialSelect(d)
CloseStep(c)  == \/ CloseLoad(c) \/ CloseLock(c) \/ CloseCheck(c)
                 \/ CloseChannel(c) \/ CloseStore(c) \/ CloseUnlock(c)

PipeNext ==
    \/ \E a \in Acceptors : AcceptStep(a)
    \/ \E d \in Dialers : DialStep(d) \/ Cancel(d)
    \/ \E c \in Closers : CloseStep(c)

PipeSpec == InitPipe /\ [][PipeNext]_pipeVars

(***************************************************************************)
(* A goroutine that can run does; nobody is obliged to call Close (the     *)
(* first step of a Close is not fair) or to cancel a context.  Strong      *)
(* fairness of CloseLock is sync.Mutex's starvation freedom.               *)
(***************************************************************************)
PipeFairness ==
    /\ \A a \in Acceptors : WF_pipeVars(AcceptSelect(a))
    /\ \A d \in Dialers : WF_pipeVars(DialSelect(d))
    /\ \A c \in Closers :
         /\ SF_pipeVars(CloseLock(c))
         /\ WF_pipeVars(CloseCheck(c) \/ CloseChannel(c) \/ CloseStore(c) \/ CloseUnlock(c))

FairPipe == PipeSpec /\ PipeFairness
-------------------------------------------------------------------------------
PipeTypeOK ==
    /\ at \in [Callers -> AcceptorPC \cup DialerPC \cup CloserPC]
    /\ \A a \in Acceptors : at[a] \in AcceptorPC
    /\ \A d \in Dialers : at[d] \in DialerPC
    /\ \A c \in Closers : at[c] \in CloserPC
    /\ closed \in BOOLEAN
    /\ done \in {0, 1}
    /\ mutex \in SUBSET Closers
    /\ cancelled \in SUBSET Dialers
    /\ peer \in [Acceptors -> SUBSET Dialers]
    /\ panicked \in BOOLEAN

\* close(l.close) never runs twice, whatever the interleaving of several Close
\* calls with the unlocked first read of done (a second close would panic).
NeverClosedTwice == ~panicked

\* Exactly one Close reports success, and a Close that returned, with or
\* without an error, leaves a listener that is closed: the losers do not
\* return ErrPipeListenerClosed before the winner's close has happened.
CloseReported ==
    /\ \A c1, c2 \in Closers : at[c1] = "nil" /\ at[c2] = "nil" => c1 = c2
    /\ \A c \in Closers : at[c] \in {"nil", "errClosed"} => closed

\* No call stays blocked on a closed listener: "Any blocked Accept operations
\* will be unblocked and return errors" (listener.go:38), dialers included.
NobodyParkedOnClosed == closed => \A c \in Acceptors \cup Dialers : at[c] # "parked"

\* The two ends of a pipe belong together: the acceptor and the dialer of a
\* connection both returned it, and no dialer's pipe is accepted twice.
ConnectionsPaired ==
    /\ \A a \in Acceptors : at[a] = "conn" <=> peer[a] # {}
    /\ \A a \in Acceptors : \A d \in peer[a] : at[d] = "conn"
    /\ \A d \in Dialers : at[d] = "conn" => \E a \in Acceptors : d \in peer[a]
    /\ \A a, b \in Acceptors : peer[a] \cap peer[b] # {} => a = b

\* From the moment the listener is closed no connection is handed over, not
\* even to a dialer that had passed its check of done before the close.
NoHandoverAfterClose == [][closed => peer' = peer]_pipeVars

\* Once closed, every call already inside Accept or DialContext returns.
ClosedReleasesAll ==
    \A c \in Acceptors \cup Dialers :
        (closed /\ at[c] \in {"select", "parked"}) ~> (at[c] \in {"conn", "errClosed", "errCtx"})

\* What ClosedReleasesAll needs beside fairness: on a closed listener no call
\* is parked, and the step a call takes there is its last, whether or not its
\* context ends meanwhile.
LastStep ==
    [][\A c \in Acceptors \cup Dialers :
         closed /\ at[c] # "idle" =>
           /\ at[c] # "parked"
           /\ at'[c] # at[c] => at'[c] \in {"errClosed", "errCtx"}]_pipeVars

\* A Close that can go on: nobody else has the mutex it waits for, or it holds
\* it and waits for nothing.
ClosesOn(c) ==
    \/ at[c] = "lock" /\ mutex = {}
    \/ at[c] \in {"check", "close", "store", "unlock", "unlockErr"}

\* The Close calls in progress never all wait for each other.
SomeCloseGoesOn ==
    (\E c \in Closers : at[c] = "lock") => \E c \in Closers : ClosesOn(c)

\* What a call will return, from the moment that is settled.  A Close is
\* settled by close(l.close), or by having seen done set.
Answer(c) ==
    CASE at[c] \in {"conn", "errCtx"} -> at[c]
      [] at[c] \in {"errClosed", "unlockErr"} -> "errClosed"
      [] at[c] \in {"store", "unlock", "nil"} -> "nil"
      [] OTHER -> "none"

Atomic == INSTANCE AtomicListener
            WITH shut <- closed, answer <- [c \in Callers |-> Answer(c)]

\* Selects, double-checked done and deferred calls add up to a listener whose
\* calls are atomic: a connection needs an open listener and joins two calls
\* that both return it, one Close succeeds, and no Accept, DialContext or
\* Close is refused before the listener is closed.
ImplementsListener == Atomic!AtomicSpec
===============================================================================
