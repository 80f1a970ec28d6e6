----------------------------- MODULE MCLogMonitor -----------------------------
(***************************************************************************)
(* LogMonitor with a few clients and more lines than a channel holds.      *)
(***************************************************************************)
EXTENDS LogMonitor
===============================================================================
