------------------------------ MODULE MCWorker ------------------------------
(* Worker with a descriptor table of four, for TLC.                        *)
EXTENDS Worker
=============================================================================
