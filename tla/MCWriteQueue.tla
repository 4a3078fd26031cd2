---------------------------- MODULE MCWriteQueue ----------------------------
(* WriteQueue with few chunks, small pages and short words, for TLC.       *)
EXTENDS WriteQueue, TLC

Addresses == Permutations(Chunk)
=============================================================================
