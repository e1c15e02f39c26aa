-------------------------- MODULE MCThreadSafeQueue -------------------------
(***************************************************************************)
(* ThreadSafeQueue with two producers, as while one node replaces another, *)
(* for TLC.                                                                *)
(***************************************************************************)
EXTENDS ThreadSafeQueue

Executors == {"old", "new"}
=============================================================================
