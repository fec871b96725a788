-------------------------- MODULE MCWaiterRegistry --------------------------
(* A small instance of WaiterRegistry: three ids on two keys, so that a key  *)
(* can change hands twice and an id can come back under another key.         *)
EXTENDS WaiterRegistry

MCTimes == 0..2
=============================================================================
