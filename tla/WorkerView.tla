----------------------------- MODULE WorkerView -----------------------------
(***************************************************************************)
(* A worker process as the main process knows it: alive or ended, what is  *)
(* in flight to it and how many connections it serves.  Module Worker      *)
(* implements it with slots, events and descriptors, and each worker of    *)
(* module Dispatcher is one: what the main process is checked against is   *)
(* what a worker does.                                                     *)
(***************************************************************************)
EXTENDS Integers

CONSTANTS
    QueueCap,       \* descriptors the unix socket keeps in flight
    MaxServing      \* conn_max_size

VARIABLES
    main,           \* the main process is there
    status,         \* up | exited | killed
    inflight,       \* descriptors in the unix socket
    serving,        \* cur_connection_number
    told,           \* server_shutdown of the worker
    deaf            \* the unix socket is not watched (any more)

vars == <<main, status, inflight, serving, told, deaf>>

Init ==
    /\ main = TRUE /\ status = "up"
    /\ inflight = 0 /\ serving = 0
    /\ told = FALSE /\ deaf = FALSE

(* The main process sends a descriptor, ends, or tells the worker to stop. *)
Send ==
    /\ main /\ status = "up" /\ inflight < QueueCap
    /\ inflight' = inflight + 1
    /\ UNCHANGED <<main, status, serving, told, deaf>>

MainEnds ==
    /\ main' = FALSE
    /\ UNCHANGED <<status, inflight, serving, told, deaf>>

Tell ==
    /\ status = "up"
    /\ told' = TRUE
    /\ UNCHANGED <<main, status, inflight, serving, deaf>>

(* A connection is taken in, or closed at once if there are too many.      *)
Receive ==
    /\ status = "up" /\ ~deaf /\ inflight > 0
    /\ inflight' = inflight - 1
    /\ serving' = IF serving < MaxServing THEN serving + 1 ELSE serving
    /\ UNCHANGED <<main, status, told, deaf>>

(* Only the end of the main process makes a worker stop listening to it.   *)
Hangup ==
    /\ status = "up" /\ ~main
    /\ deaf' = TRUE
    /\ UNCHANGED <<main, status, inflight, serving, told>>

Finish ==
    /\ status = "up" /\ serving > 0
    /\ serving' = serving - 1
    /\ UNCHANGED <<main, status, inflight, told, deaf>>

Dies(how) ==
    /\ status = "up"
    /\ status' = how
    /\ inflight' = 0 /\ serving' = 0 /\ deaf' = TRUE
    /\ UNCHANGED <<main, told>>

(* It exits only when told to, and with nobody left to serve.              *)
Exit == told /\ serving = 0 /\ Dies("exited")

Crash == Dies("killed")

Next == Send \/ MainEnds \/ Tell \/ Receive \/ Hangup \/ Finish \/ Exit \/ Crash

Spec == Init /\ [][Next]_vars

(* It takes in what is in flight to it, and exits when it can.             *)
FairSpec == Spec /\ WF_vars(Receive) /\ WF_vars(Exit)
=============================================================================
