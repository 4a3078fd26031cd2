---------------------------- MODULE HttpSession ----------------------------
(***************************************************************************)
(* What one client connection promises to the worker that owns it and to   *)
(* its client, without epoll, timers, queues or the ten states of          *)
(* connection.cpp: a request is answered by one response, the next request *)
(* is looked at only when nothing of the previous response is left to      *)
(* send, a connection that lingers never serves again, and lingering ends. *)
(* Module Connection implements it.                                        *)
(***************************************************************************)
EXTENDS Integers

CONSTANT MaxResponse    \* a positive natural: the most units (head and body)
                        \* one response has

VARIABLES
    phase,              \* reading | responding | lingering | gone
    owed                \* units of the current response still to be sent

vars == <<phase, owed>>

Phases == {"reading", "responding", "lingering", "gone"}

Init == phase = "reading" /\ owed = 0

(* A complete request has been taken in and its response is decided.       *)
BeginResponse ==
    /\ phase = "reading"
    /\ phase' = "responding"
    /\ owed' \in 1 .. MaxResponse

(* Part of the response is handed to the kernel.                           *)
Send ==
    /\ phase = "responding"
    /\ owed' \in 0 .. (owed - 1)
    /\ UNCHANGED phase

(* A kept-alive connection turns to its next request: nothing is owed.     *)
AwaitNext ==
    /\ phase = "responding"
    /\ owed = 0
    /\ phase' = "reading"
    /\ UNCHANGED owed

(* The server stops serving the connection, answered or not.               *)
Linger ==
    /\ phase \in {"reading", "responding"}
    /\ phase' = "lingering"
    /\ owed' = 0

(* The socket is closed and the connection's memory is returned.           *)
Release ==
    /\ phase = "lingering"
    /\ phase' = "gone"
    /\ UNCHANGED owed

Next == BeginResponse \/ Send \/ AwaitNext \/ Linger \/ Release

Spec == Init /\ [][Next]_vars

FairSpec == Spec /\ WF_vars(Release)
=============================================================================
