---------------------------- MODULE MCPipeListener ----------------------------
(***************************************************************************)
(* PipeListener on a small set of goroutines.                              *)
(***************************************************************************)
EXTENDS PipeListener
===============================================================================
