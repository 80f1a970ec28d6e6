---------------------------- MODULE MCLoggerCache ----------------------------
(***************************************************************************)
(* LoggerCache on a few goroutines, with the abstract log as property.     *)
(***************************************************************************)
EXTENDS LoggerCache
===============================================================================
