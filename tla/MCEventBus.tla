------------------------------ MODULE MCEventBus ------------------------------
(* EventBus as its configuration instantiates it.                              *)
EXTENDS EventBus
===============================================================================
