------------------------------- MODULE AsyncLog -------------------------------
(***************************************************************************)
(* What an asynchronous log sink promises: bytes are accepted in some      *)
(* order and reach the underlying writer in that order, each exactly once, *)
(* at some later time.  A byte is named by its rank in the order of        *)
(* acceptance.                                                             *)
(***************************************************************************)
EXTENDS Naturals, Sequences

VARIABLES accepted,  \* how many bytes were accepted
          out        \* what the underlying writer received

absVars == <<accepted, out>>

AbsInit == accepted = 0 /\ out = <<>>

\* The n bytes after the first k.
Ranks(k, n) == [i \in 1..n |-> k + i]

Accept ==
    /\ accepted' \in Nat /\ accepted' > accepted
    /\ UNCHANGED out

Deliver ==
    /\ \E n \in 1..(accepted - Len(out)) : out' = out \o Ranks(Len(out), n)
    /\ UNCHANGED accepted

AbsNext == Accept \/ Deliver

AbsSpec == AbsInit /\ [][AbsNext]_absVars

\* Whatever was accepted is eventually delivered.
AbsFairSpec == AbsSpec /\ WF_absVars(Deliver)
===============================================================================
