--------------------------------- MODULE Calls ---------------------------------
(***************************************************************************)
(* The calls a page of the front-end has in progress: the verbs of RESTful *)
(* (restful.ts) and `closed` (closed.ts), which ends what a component      *)
(* subscribed to when it is destroyed.                                     *)
(*                                                                         *)
(* wrapObservable subscribes to the call and returns nothing to            *)
(* unsubscribe with: whoever stops listening does not cancel it, and the   *)
(* server may still do what it asks for.                                   *)
(*                                                                         *)
(* Server, network and browser are external: a call is served once or      *)
(* never, or answered by the browser with an answer it has kept, and ends  *)
(* with an answer, or with an error whatever the server did.               *)
(***************************************************************************)
EXTENDS Naturals

CONSTANTS MaxCalls,   \* calls in progress (bound of the model)
          MaxOthers,  \* changes others make at the server (bound of the model)
          None

Slots == 1..MaxCalls

ASSUME CallsAssumption == {MaxCalls, MaxOthers} \subseteq Nat

VARIABLES
    page,   \* the route that is shown
    call,   \* slot |-> a call in progress, or None
    others  \* changes others have made (bound of the model)

\* ask: what is called for.  heard: its component listens.  got: what a read
\* has found.  since: what was changed at the server since it answered
\* (history).
NewCall(ask) == [ask |-> ask, served |-> FALSE, heard |-> TRUE, got |-> None, since |-> {}]

Pending(i) == call[i] # None /\ ~call[i].served
Heard(i) == call[i] # None /\ call[i].heard
Answerable(i) == Heard(i) /\ call[i].served

\* get, post or delete of RESTful, when the calls are in progress.
Issue(calls, ask) ==
    \E i \in Slots :
      /\ calls[i] = None /\ \A j \in 1..(i - 1) : calls[j] # None
      /\ call' = [calls EXCEPT ![i] = NewCall(ask)]

\* The calls that change what is modelled of the server.
Writes == {"add", "edit", "set"}

\* Whoever listens to the calls in S does not any more.  Those that can still
\* change something stay in progress.
Abandoned(S) ==
    [i \in Slots |-> IF i \notin S \/ call[i] = None THEN call[i]
                     ELSE IF call[i].served \/ call[i].ask.kind \notin Writes THEN None
                     ELSE [call[i] EXCEPT !.heard = FALSE]]

Since(c, changed) ==
    IF c # None /\ c.served THEN [c EXCEPT !.since = @ \cup changed] ELSE c

\* The server has done what i asks for, found got and changed what is named.
Served(i, got, changed) ==
    call' = [j \in Slots |->
               IF j # i THEN Since(call[j], changed)
               ELSE IF call[i].heard THEN [call[i] EXCEPT !.served = TRUE, !.got = got] ELSE None]

\* The browser answers i itself, with what was got before the changes in since.
Reused(i, got, since) ==
    call' = [call EXCEPT ![i] = [@ EXCEPT !.served = TRUE, !.got = got, !.since = since]]

\* Somebody else has.
ChangedByOthers(changed) ==
    /\ others < MaxOthers /\ others' = others + 1
    /\ call' = [j \in Slots |-> Since(call[j], changed)]

\* The answer of i reaches its component.
Answered(i) ==
    /\ Answerable(i)
    /\ call' = [call EXCEPT ![i] = None]

\* An error does; the server may still get the call.
Failed(i) ==
    /\ Heard(i)
    /\ call' = Abandoned({i})

\* A call nobody listens to ends, or never reaches the server.
Vanishes(i) ==
    /\ call[i] # None /\ ~call[i].heard
    /\ call' = [call EXCEPT ![i] = None]

InitCalls ==
    /\ call = [i \in Slots |-> None]
    /\ others = 0
===============================================================================
