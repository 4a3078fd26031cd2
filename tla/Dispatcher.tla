----------------------------- MODULE Dispatcher -----------------------------
(***************************************************************************)
(* The main process of minihttpd (main.cpp:376-504): it accepts client     *)
(* connections, hands each over a unix socket to the worker it has sent    *)
(* the fewest to, takes note of workers that have died, and shuts the      *)
(* service down.  Signal handlers only set flags, and interrupt it         *)
(* anywhere.  A worker appears here as it is seen from outside: a process, *)
(* the descriptors in flight to it and the connections it serves.          *)
(***************************************************************************)
EXTENDS Integers

CONSTANTS
    NWorkers,       \* srv->worker_number
    Sentinel,       \* 0xFFFFFFFF, where the search for the minimum starts
    MaxBacklog,     \* connections the listening socket keeps waiting
    QueueCap,       \* descriptors a unix socket keeps in flight
    MaxServing,     \* conn_max_size of a worker
    MayCrash        \* whether workers die of anything but their own exit

ASSUME DispatcherAssumption ==
    /\ NWorkers \in Nat \ {0} /\ Sentinel \in Nat
    /\ MaxBacklog \in Nat \ {0} /\ QueueCap \in Nat \ {0} /\ MaxServing \in Nat
    /\ MayCrash \in BOOLEAN

VARIABLES
    \* the main process
    pc,                     \* where it is in its loop
    server_shutdown, graceful_shutdown, signal_child_handled,   \* set by signal_handler()
    sent_connection_number, worker_running,                     \* srv->child[w]
    picked,                 \* pick_worker_index
    \* the kernel and the workers
    backlog,                \* connections waiting to be accepted
    proc,                   \* up | exited | killed: what waitpid() says of it
    inflight,               \* descriptors in the unix socket of each worker
    serving,                \* cur_connection_number of each worker
    worker_shutdown,        \* server_shutdown in each worker
    deaf                    \* the worker has stopped watching its unix socket

flagVars   == <<server_shutdown, graceful_shutdown, signal_child_handled>>
childVars  == <<sent_connection_number, worker_running>>
workerVars == <<proc, inflight, serving, worker_shutdown, deaf>>
vars == <<pc, flagVars, childVars, picked, backlog, workerVars>>

Workers == 0 .. NWorkers - 1

(* pick_worker_index = srv->worker_number.                                 *)
Nobody == NWorkers

Init ==
    /\ pc = "loop"
    /\ server_shutdown = FALSE /\ graceful_shutdown = FALSE /\ signal_child_handled = FALSE
    /\ sent_connection_number = [w \in Workers |-> 0]
    /\ worker_running = [w \in Workers |-> TRUE]
    /\ picked = Nobody
    /\ backlog = 0
    /\ proc = [w \in Workers |-> "up"]
    /\ inflight = [w \in Workers |-> 0]
    /\ serving = [w \in Workers |-> 0]
    /\ worker_shutdown = [w \in Workers |-> FALSE]
    /\ deaf = [w \in Workers |-> FALSE]

-----------------------------------------------------------------------------
(* The loop of the main process                                            *)

(* MUTANT the flag of the workers is looked at first.                      *)
LoopChildFirst ==
    /\ pc = "loop"
    /\ pc' = IF signal_child_handled THEN "reap" ELSE "ready"
    /\ UNCHANGED <<flagVars, childVars, picked, backlog, workerVars>>

(* The head of the loop looks at two flags ...                             *)
Loop ==
    /\ pc = "loop"
    /\ pc' = IF server_shutdown THEN "kill" ELSE IF signal_child_handled THEN "reap" ELSE "ready"
    /\ UNCHANGED <<flagVars, childVars, picked, backlog, workerVars>>

(* A worker that has ended is a zombie until it is waited for, which takes *)
(* it off the list.                                                        *)
Zombie(w) == proc[w] # "up" /\ worker_running[w]

(* MUTANT the handler of SIGCHLD calls waitpid() itself.                   *)
ReapAnytime(w) ==
    /\ pc # "exited" /\ Zombie(w)
    /\ worker_running' = [worker_running EXCEPT ![w] = FALSE]
    /\ UNCHANGED <<pc, flagVars, sent_connection_number, picked, backlog, workerVars>>

(* ... waitpid() returns a dead worker, which is taken off the list, ...   *)
Reap(w) ==
    /\ pc = "reap" /\ Zombie(w)
    /\ worker_running' = [worker_running EXCEPT ![w] = FALSE]
    /\ UNCHANGED <<pc, flagVars, sent_connection_number, picked, backlog, workerVars>>

(* ... or says that there is none (left): the flag is cleared after that.  *)
ReapNone ==
    /\ pc = "reap" /\ \A w \in Workers : ~Zombie(w)
    /\ pc' = "clear"
    /\ UNCHANGED <<flagVars, childVars, picked, backlog, workerVars>>

ClearFlag ==
    /\ pc = "clear"
    /\ signal_child_handled' = FALSE
    /\ pc' = "ready"
    /\ UNCHANGED <<server_shutdown, graceful_shutdown, childVars, picked, backlog, workerVars>>

(* accept() is called; a signal before this does not interrupt it.         *)
CallAccept ==
    /\ pc = "ready"
    /\ pc' = "accepting"
    /\ UNCHANGED <<flagVars, childVars, picked, backlog, workerVars>>

Accept ==
    /\ pc = "accepting" /\ backlog > 0
    /\ backlog' = backlog - 1
    /\ pc' = "pick"
    /\ UNCHANGED <<flagVars, childVars, picked, workerVars>>

(* ECONNABORTED takes the connection with it, EMFILE leaves it waiting.    *)
AcceptFails ==
    /\ pc = "accepting" /\ backlog > 0
    /\ backlog' \in {backlog - 1, backlog}
    /\ pc' = "loop"
    /\ UNCHANGED <<flagVars, childVars, picked, workerVars>>

(* MUTANT the comparison with the minimum lets the sentinel through.       *)
CandidatesAtSentinel ==
    {w \in Workers : worker_running[w] /\ sent_connection_number[w] <= Sentinel}

(* The workers the search can find.                                        *)
Candidates == {w \in Workers : worker_running[w] /\ sent_connection_number[w] < Sentinel}

(* MUTANT the search takes the last one it looks at.                       *)
IsPickLast(w) == w \in Candidates /\ \A v \in Candidates : v <= w

(* The first of those that have been sent the fewest connections.          *)
IsPick(w) ==
    /\ w \in Candidates
    /\ \A v \in Candidates :
          \/ sent_connection_number[w] < sent_connection_number[v]
          \/ sent_connection_number[w] = sent_connection_number[v] /\ w <= v

PickWorker ==
    /\ pc = "pick"
    /\ \E w \in Workers : IsPick(w) /\ picked' = w
    /\ pc' = "send"
    /\ UNCHANGED <<flagVars, childVars, backlog, workerVars>>

(* Nobody is found: the connection is closed.                              *)
CloseUnserved ==
    /\ pc = "pick" /\ Candidates = {}
    /\ pc' = "loop"
    /\ UNCHANGED <<flagVars, childVars, picked, backlog, workerVars>>

(* unix_domain_socket_sendfd() succeeds, and only then is it counted.      *)
SendFd ==
    /\ pc = "send" /\ proc[picked] = "up" /\ inflight[picked] < QueueCap
    /\ inflight' = [inflight EXCEPT ![picked] = @ + 1]
    /\ sent_connection_number' = [sent_connection_number EXCEPT ![picked] = @ + 1]
    /\ picked' = Nobody
    /\ pc' = "loop"
    /\ UNCHANGED <<flagVars, worker_running, backlog, proc, serving, worker_shutdown, deaf>>

(* MUTANT after a failed send another worker is looked for at once.        *)
SendFdRetries ==
    /\ pc = "send" /\ proc[picked] # "up"
    /\ picked' = Nobody
    /\ pc' = "pick"
    /\ UNCHANGED <<flagVars, childVars, backlog, workerVars>>

(* The worker has died (EPIPE): the connection is closed.  While the socket*)
(* is full the main process blocks here instead.                           *)
SendFdFails ==
    /\ pc = "send" /\ proc[picked] # "up"
    /\ picked' = Nobody
    /\ pc' = "loop"
    /\ UNCHANGED <<flagVars, childVars, backlog, workerVars>>

(* kill(0, SIGTERM) reaches every worker ...                               *)
KillWorkers ==
    /\ pc = "kill"
    /\ worker_shutdown' = [w \in Workers |-> worker_shutdown[w] \/ proc[w] = "up"]
    /\ pc' = "exiting"
    /\ UNCHANGED <<flagVars, childVars, picked, backlog, proc, inflight, serving, deaf>>

(* ... and the main process exits without waiting for them.                *)
Exit ==
    /\ pc = "exiting"
    /\ pc' = "exited"
    /\ backlog' = 0
    /\ UNCHANGED <<flagVars, childVars, picked, workerVars>>

MainStep ==
    \/ Loop \/ (\E w \in Workers : Reap(w)) \/ ReapNone \/ ClearFlag
    \/ CallAccept \/ Accept \/ AcceptFails
    \/ PickWorker \/ CloseUnserved \/ SendFd \/ SendFdFails
    \/ KillWorkers \/ Exit

-----------------------------------------------------------------------------
(* Signals                                                                 *)

(* No handler restarts a system call (sa_flags = 0): a signal ends accept()*)
(* with EINTR, and a blocked sendmsg() too, after which the connection is  *)
(* closed.                                                                 *)
Interrupt ==
    LET blocked == \/ pc = "accepting"
                   \/ pc = "send" /\ inflight[picked] >= QueueCap
    IN  /\ pc' = IF blocked THEN "loop" ELSE pc
        /\ picked' = IF blocked THEN Nobody ELSE picked

SigTerm ==
    /\ pc # "exited"
    /\ server_shutdown' = TRUE
    /\ Interrupt
    /\ UNCHANGED <<graceful_shutdown, signal_child_handled, childVars, backlog, workerVars>>

(* The second SIGINT shuts the server down.                                *)
SigInt ==
    /\ pc # "exited"
    /\ graceful_shutdown' = TRUE
    /\ server_shutdown' = (server_shutdown \/ graceful_shutdown)
    /\ Interrupt
    /\ UNCHANGED <<signal_child_handled, childVars, backlog, workerVars>>

(* A worker process ends: what it was serving and what was in flight to it *)
(* is closed by the kernel, and SIGCHLD is delivered.                      *)
Dies(w, how) ==
    /\ proc' = [proc EXCEPT ![w] = how]
    /\ inflight' = [inflight EXCEPT ![w] = 0]
    /\ serving' = [serving EXCEPT ![w] = 0]
    /\ signal_child_handled' = (signal_child_handled \/ pc # "exited")
    /\ Interrupt
    /\ UNCHANGED <<server_shutdown, graceful_shutdown, childVars, backlog,
                   worker_shutdown, deaf>>

-----------------------------------------------------------------------------
(* The workers, seen from outside                                          *)

(* A worker is killed, or aborts on an assertion.                          *)
WorkerCrash(w) == MayCrash /\ proc[w] = "up" /\ Dies(w, "killed")

(* SIGTERM, or a second SIGINT, reaches a worker on its own.               *)
SignalWorker(w) ==
    /\ proc[w] = "up"
    /\ worker_shutdown' = [worker_shutdown EXCEPT ![w] = TRUE]
    /\ UNCHANGED <<pc, flagVars, childVars, picked, backlog, proc, inflight, serving, deaf>>

(* MUTANT a worker exits as soon as it is told to.                         *)
WorkerExitBusy(w) == proc[w] = "up" /\ worker_shutdown[w] /\ Dies(w, "exited")

(* The loop of main.cpp:306 ends: told to stop, and serving nobody.        *)
WorkerExit(w) ==
    /\ proc[w] = "up" /\ worker_shutdown[w] /\ serving[w] = 0
    /\ Dies(w, "exited")

(* unix_domain_socket_handle(): a connection is taken in, or closed when   *)
(* the worker has too many.                                                *)
WorkerReceive(w) ==
    /\ proc[w] = "up" /\ ~deaf[w] /\ inflight[w] > 0
    /\ inflight' = [inflight EXCEPT ![w] = @ - 1]
    /\ serving' = [serving EXCEPT ![w] = IF @ < MaxServing THEN @ + 1 ELSE @]
    /\ UNCHANGED <<pc, flagVars, childVars, picked, backlog, proc, worker_shutdown, deaf>>

(* The main process is gone: EPOLLHUP is looked at before anything that is *)
(* still in flight, and ends the watch (worker.cpp:30-37).                 *)
WorkerHangup(w) ==
    /\ proc[w] = "up" /\ ~deaf[w] /\ pc = "exited"
    /\ deaf' = [deaf EXCEPT ![w] = TRUE]
    /\ UNCHANGED <<pc, flagVars, childVars, picked, backlog, proc, inflight, serving,
                   worker_shutdown>>

(* A connection of the worker is closed (module Connection).               *)
WorkerFinish(w) ==
    /\ proc[w] = "up" /\ serving[w] > 0
    /\ serving' = [serving EXCEPT ![w] = @ - 1]
    /\ UNCHANGED <<pc, flagVars, childVars, picked, backlog, proc, inflight, worker_shutdown,
                   deaf>>

(* A client connects to the listening socket.                              *)
Connect ==
    /\ pc # "exited" /\ backlog < MaxBacklog
    /\ backlog' = backlog + 1
    /\ UNCHANGED <<pc, flagVars, childVars, picked, workerVars>>

Next ==
    \/ MainStep
    \/ SigTerm \/ SigInt \/ Connect
    \/ \E w \in Workers :
          \/ SignalWorker(w) \/ WorkerCrash(w) \/ WorkerExit(w)
          \/ WorkerReceive(w) \/ WorkerHangup(w) \/ WorkerFinish(w)

Spec == Init /\ [][Next]_vars

(* Processes are scheduled, a worker takes in what is in flight to it, and *)
(* accept() does not fail for ever.                                        *)
Fairness ==
    /\ WF_vars(MainStep) /\ SF_vars(Accept)
    /\ \A w \in Workers : WF_vars(WorkerReceive(w)) /\ WF_vars(WorkerExit(w))

FairSpec == Spec /\ Fairness

(* Clients keep coming, too.                                               *)
BusySpec == FairSpec /\ WF_vars(Connect)

-----------------------------------------------------------------------------
(* Properties                                                              *)

(* Every variable keeps its type; no count of connections sent to a worker *)
(* passes the sentinel of the search (main.cpp:446).                       *)
TypeOK ==
    /\ pc \in {"loop", "reap", "clear", "ready", "accepting", "pick", "send", "kill",
               "exiting", "exited"}
    /\ {server_shutdown, graceful_shutdown, signal_child_handled} \subseteq BOOLEAN
    /\ sent_connection_number \in [Workers -> 0 .. Sentinel]
    /\ worker_running \in [Workers -> BOOLEAN]
    /\ picked \in 0 .. NWorkers
    /\ backlog \in 0 .. MaxBacklog
    /\ proc \in [Workers -> {"up", "exited", "killed"}]
    /\ inflight \in [Workers -> 0 .. QueueCap]
    /\ serving \in [Workers -> 0 .. MaxServing]
    /\ worker_shutdown \in [Workers -> BOOLEAN]
    /\ deaf \in [Workers -> BOOLEAN]

(* The load is spread evenly: the connections handed to two workers that   *)
(* are both on the list never differ by more than one, whatever sends fail,*)
(* workers die and signals come in between (main.cpp:449-474).             *)
Balanced ==
    \A v, w \in Workers :
        worker_running[v] /\ worker_running[w] =>
            sent_connection_number[v] <= sent_connection_number[w] + 1

(* The worker a descriptor is about to be sent to is on the list, although *)
(* workers die between the choice and the send (main.cpp:408).             *)
PickedIsListed == pc = "send" <=> picked # Nobody /\ worker_running[picked]

(* The main process is never stuck with a connection in its hands: a full  *)
(* socket, a dying worker and signals all let it go on.                    *)
HandOverEnds == pc \in {"pick", "send"} ~> pc \notin {"pick", "send"}

(* While clients keep coming, a shutdown that was asked for happens.       *)
ShutdownHappens == server_shutdown ~> pc = "exited"

(* A worker as module WorkerView has it; one that ended is deaf.           *)
View(w) == INSTANCE WorkerView WITH
    main <- pc # "exited",
    status <- proc[w], inflight <- inflight[w], serving <- serving[w],
    told <- worker_shutdown[w], deaf <- deaf[w] \/ proc[w] # "up"

(* Each worker is as module Worker makes it: both implement WorkerView,    *)
(* so nothing is checked here against a worker that does not exist         *)
(* (main.cpp:306-364, worker.cpp:25-94).  This is \A w : View(w)!Spec.     *)
WorkersAsViewed ==
    /\ \A w \in Workers : View(w)!Init
    /\ [][\A w \in Workers : [View(w)!Next]_(View(w)!vars)]_vars

-----------------------------------------------------------------------------
(* What the source says and the code does not do                           *)

(* main.cpp:408: a dead worker is removed from the list, even if clients   *)
(* keep coming.                                                            *)
DeadWorkerUnlisted ==
    \A w \in Workers :
        (proc[w] # "up" /\ ~server_shutdown) ~> (~worker_running[w] \/ server_shutdown)
=============================================================================
