---------------------------- MODULE AtomicListener ----------------------------
(***************************************************************************)
(* What a listener inside one process promises to those who call it: each  *)
(* call takes effect at one moment.  An Accept and a DialContext get the   *)
(* two ends of one connection while the listener is open, one Close shuts  *)
(* it, and nobody is refused before.                                       *)
(***************************************************************************)
CONSTANTS Acceptors, Dialers, Closers

VARIABLES shut,    \* the listener was closed
          answer,  \* call |-> what it will return, "none" before that is settled
          peer     \* acceptor |-> the dialer at the other end, as a set

atomicVars == <<shut, answer, peer>>

Waits(c) == answer[c] = "none"

AtomicInit ==
    /\ shut = FALSE
    /\ answer = [c \in Acceptors \cup Dialers \cup Closers |-> "none"]
    /\ peer = [a \in Acceptors |-> {}]

Connect(a, d) ==
    /\ ~shut
    /\ Waits(a) /\ Waits(d)
    /\ answer' = [answer EXCEPT ![a] = "conn", ![d] = "conn"]
    /\ peer' = [peer EXCEPT ![a] = {d}]
    /\ UNCHANGED shut

\* The Close that shuts the listener answers any of those who wait.
Shut(c) ==
    /\ ~shut
    /\ Waits(c)
    /\ shut' = TRUE
    /\ \E told \in SUBSET {x \in Acceptors \cup Dialers : Waits(x)} :
         answer' = [x \in DOMAIN answer |->
                      IF x = c THEN "nil" ELSE IF x \in told THEN "errClosed" ELSE answer[x]]
    /\ UNCHANGED peer

Refuse(c) ==
    /\ shut
    /\ Waits(c)
    /\ answer' = [answer EXCEPT ![c] = "errClosed"]
    /\ UNCHANGED <<shut, peer>>

\* The context of a dialer ended.
GiveUp(d) ==
    /\ Waits(d)
    /\ answer' = [answer EXCEPT ![d] = "errCtx"]
    /\ UNCHANGED <<shut, peer>>

AtomicNext ==
    \/ \E a \in Acceptors, d \in Dialers : Connect(a, d)
    \/ \E c \in Closers : Shut(c)
    \/ \E c \in Acceptors \cup Dialers \cup Closers : Refuse(c)
    \/ \E d \in Dialers : GiveUp(d)

AtomicSpec == AtomicInit /\ [][AtomicNext]_atomicVars
===============================================================================
