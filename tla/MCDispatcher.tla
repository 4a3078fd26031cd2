---------------------------- MODULE MCDispatcher ----------------------------
(* Dispatcher with two workers and a counter that ends early, for TLC.     *)
EXTENDS Dispatcher
=============================================================================
