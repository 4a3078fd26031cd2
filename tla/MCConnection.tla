---------------------------- MODULE MCConnection ----------------------------
(* Connection on small buffers and short timeouts, for TLC.                *)
EXTENDS Connection
=============================================================================
