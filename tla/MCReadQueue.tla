----------------------------- MODULE MCReadQueue -----------------------------
(* Model values for ReadQueue: nothing but the constants of the .cfg files. *)
EXTENDS ReadQueue
===============================================================================
