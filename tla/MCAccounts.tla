------------------------------ MODULE MCAccounts ------------------------------
(***************************************************************************)
(* Accounts with a few users, requests and sessions.                       *)
(***************************************************************************)
EXTENDS Accounts, TLC

\* Remove requests that name nobody, and requests that name any users.
NoNames == {{}}
AnyNames == SUBSET Users

Symmetry == Permutations(Tokens) \cup Permutations(Handlers) \cup Permutations(Passwords)
===============================================================================
