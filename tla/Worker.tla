------------------------------- MODULE Worker -------------------------------
(***************************************************************************)
(* One worker process of minihttpd: the epoll loop (main.cpp:306-364), the *)
(* slots for its connections (worker.cpp), the table of event handlers     *)
(* (fdevents.cpp) and the descriptors that all of them share.              *)
(*                                                                         *)
(* A connection appears here between two runs of its state machine, where  *)
(* it waits in READ, WRITE or CLOSE with its socket watched by epoll       *)
(* (module Connection, theorem NoLostWakeup); a run is one step, and what  *)
(* it leads to is whatever module Connection allows.  A batch of events is *)
(* a set: epoll_wait may have returned them in any order.                  *)
(***************************************************************************)
EXTENDS Integers, FiniteSets

CONSTANTS
    Limit,          \* RLIMIT_NOFILE of the process
    Held,           \* descriptors the worker keeps for itself (0-2, unix, epoll, log, timer)
    MaxInFlight     \* descriptors a unix socket keeps in flight

ASSUME WorkerAssumption ==
    /\ Held \in Nat /\ Limit \in Nat \ {0, 1} /\ Held < Limit
    /\ MaxInFlight \in Nat \ {0}

VARIABLES
    pc,                     \* loop | timer | exited | aborted | undefined
    index,                  \* connection_index of the loop in worker_timer_expire_handler()
    server_shutdown,
    \* the worker's connections
    conn,                   \* the state each waits in, "NULL" for an empty slot
    conn_socket_fd,
    file_fd,                \* the descriptor of the file it is sending
    cur_connection_number,
    \* descriptors and events
    handler_array,          \* the connection registered for a descriptor
    open,                   \* descriptors in use, the worker's own aside
    batch,                  \* descriptors with an event not dispatched yet
    hung,                   \* those for which it is EPOLLHUP
    \* the main process
    unix_watched,           \* epoll watches the unix socket
    parent,                 \* the main process is there
    inflight,               \* descriptors in the unix socket
    \* history
    stale                   \* descriptors closed since the batch was returned

connVars == <<conn, conn_socket_fd, file_fd, cur_connection_number>>
fdVars   == <<handler_array, open>>
loopVars == <<batch, hung, stale>>
mainVars == <<unix_watched, parent, inflight>>
vars == <<pc, index, server_shutdown, connVars, fdVars, loopVars, mainVars>>

(* rlim_cur/2                                                              *)
conn_max_size == Limit \div 2

Slots == 0 .. conn_max_size - 1

(* The descriptors left for connections and files, and two of the worker's *)
(* own, which have handlers all the time.                                  *)
Fds     == 0 .. Limit - Held - 1
UnixFd  == Limit
TimerFd == Limit + 1

None == -1

Ended == pc \in {"exited", "aborted", "undefined"}

Used == {s \in Slots : conn[s] # "NULL"}

Init ==
    /\ pc = "loop" /\ index = 0 /\ server_shutdown = FALSE
    /\ conn = [s \in Slots |-> "NULL"]
    /\ conn_socket_fd = [s \in Slots |-> None]
    /\ file_fd = [s \in Slots |-> None]
    /\ cur_connection_number = 0
    /\ handler_array = [f \in Fds |-> None]
    /\ open = {} /\ batch = {} /\ hung = {} /\ stale = {}
    /\ unix_watched = TRUE /\ parent = TRUE /\ inflight = 0

-----------------------------------------------------------------------------
(* A run of connection_state_machine()                                     *)

(* The kernel gives out the lowest free descriptor.                        *)
IsLowestFree(f) == f \in Fds \ open /\ \A g \in Fds \ open : f <= g

(* MUTANT a chunk is put back on the idle list without closing its file.   *)
CloseFileForgotten(s) == file_fd' = [file_fd EXCEPT ![s] = None] /\ UNCHANGED open

(* The chunk that sends the file is reset or freed.                        *)
CloseFile(s) ==
    /\ file_fd' = [file_fd EXCEPT ![s] = None]
    /\ open' = open \ {file_fd[s]}

(* The run ends with the connection waiting in a state.  While a response  *)
(* is being written its file may be opened; it is closed with the chunk    *)
(* that sends it, at the latest when the write queue is reset.             *)
WaitIn(s, state) ==
    /\ conn' = [conn EXCEPT ![s] = state]
    /\ \/ state = "WRITE" /\ UNCHANGED <<file_fd, open>>
       \/ /\ state = "WRITE" /\ file_fd[s] = None
          /\ \E f \in Fds : /\ IsLowestFree(f)
                            /\ file_fd' = [file_fd EXCEPT ![s] = f]
                            /\ open' = open \cup {f}
       \/ state # "WRITE" /\ CloseFile(s)
    /\ UNCHANGED <<conn_socket_fd, cur_connection_number, handler_array, stale>>

(* MUTANT connection_close() counts the connection off, too.               *)
CountOffTwice == cur_connection_number' = cur_connection_number - 2

(* MUTANT a connection that the timer closes is not counted off.           *)
CountOffUnlessTimer ==
    cur_connection_number' = IF pc = "timer" THEN cur_connection_number
                             ELSE cur_connection_number - 1

CountOff == cur_connection_number' = cur_connection_number - 1

(* MUTANT the handler is left registered.                                  *)
UnregisterForgotten(f) == UNCHANGED handler_array

(* fdevents_unregister_fd().                                               *)
Unregister(f) == handler_array' = [handler_array EXCEPT ![f] = None]

(* The run ends with connection_close() and connection_free().             *)
CloseAndFree(s) ==
    /\ conn' = [conn EXCEPT ![s] = "NULL"]
    /\ CountOff
    /\ Unregister(conn_socket_fd[s])
    /\ conn_socket_fd' = [conn_socket_fd EXCEPT ![s] = None]
    /\ file_fd' = [file_fd EXCEPT ![s] = None]
    /\ open' = open \ {conn_socket_fd[s], file_fd[s]}
    /\ stale' = stale \cup ({conn_socket_fd[s]} \cap batch)

(* What a run may lead to: a lingering connection is never served again.   *)
RunMachine(s, state) ==
    \/ state \in {"READ", "WRITE"} /\ (WaitIn(s, "READ") \/ WaitIn(s, "WRITE"))
    \/ WaitIn(s, "CLOSE")
    \/ CloseAndFree(s)

-----------------------------------------------------------------------------
(* The event loop                                                          *)

(* MUTANT the loop does not wait for the connections to end.               *)
LoopGoesOnUntilTold == ~server_shutdown

(* MUTANT the loop goes on as long as connections may come.                *)
LoopGoesOnWhileParent == ~server_shutdown \/ cur_connection_number > 0 \/ parent

LoopGoesOn == ~server_shutdown \/ cur_connection_number > 0

(* epoll_wait() returns what is ready: the unix socket while something is  *)
(* in flight or its other end is closed, and the timer and connections     *)
(* whenever it pleases time and the clients.                               *)
EpollWait ==
    /\ pc = "loop" /\ batch = {}
    /\ LoopGoesOn
    /\ \E ready \in SUBSET ({TimerFd} \cup {conn_socket_fd[s] : s \in Used}) :
        /\ batch' = IF unix_watched /\ (inflight > 0 \/ ~parent) THEN ready \cup {UnixFd} ELSE ready
        /\ batch' # {}
        /\ \E h \in SUBSET (ready \ {TimerFd}) :
              hung' = IF parent THEN h ELSE h \cup {UnixFd}
    /\ stale' = {}
    /\ UNCHANGED <<pc, index, server_shutdown, connVars, fdVars, mainVars>>

Dispatched(f) == pc = "loop" /\ f \in batch /\ batch' = batch \ {f} /\ UNCHANGED hung

(* unix_domain_socket_handle(): the main process is gone, and with it      *)
(* whatever is still in flight.                                            *)
DispatchHangup ==
    /\ Dispatched(UnixFd) /\ UnixFd \in hung
    /\ unix_watched' = FALSE
    /\ UNCHANGED <<pc, index, server_shutdown, connVars, fdVars, stale, parent, inflight>>

(* It takes one descriptor out of the socket (which cannot be empty: the   *)
(* event says so, and nobody else reads it), ...                           *)
Receiving ==
    /\ Dispatched(UnixFd) /\ UnixFd \notin hung
    /\ inflight' = inflight - 1
    /\ UNCHANGED <<index, server_shutdown, parent, stale>>

(* MUTANT off by one.                                                      *)
HasRoomForOneMore == cur_connection_number <= conn_max_size

HasRoom == cur_connection_number < conn_max_size

(* ... for which a slot is found and a handler registered, and the machine *)
(* is run, which waits for the request, ...                                *)
ReceiveDescriptor ==
    /\ Receiving /\ HasRoom
    /\ \E f \in Fds, s \in Slots :
        /\ IsLowestFree(f)
        /\ s \notin Used /\ \A t \in Slots \ Used : s <= t
        /\ conn' = [conn EXCEPT ![s] = "READ"]
        /\ conn_socket_fd' = [conn_socket_fd EXCEPT ![s] = f]
        /\ open' = open \cup {f}
        /\ handler_array' = [handler_array EXCEPT ![f] = s]
    /\ cur_connection_number' = cur_connection_number + 1
    /\ UNCHANGED <<pc, file_fd, unix_watched>>

(* MUTANT a worker that is full stops listening to the main process.       *)
KeepListeningUnlessFull == unix_watched' = FALSE

(* The unix socket stays watched after a refusal.                          *)
KeepListening == UNCHANGED unix_watched

(* ... or which is closed at once.                                         *)
ReceiveRefused ==
    /\ Receiving /\ ~HasRoom
    /\ open # Fds
    /\ KeepListening
    /\ UNCHANGED <<pc, connVars, fdVars>>

(* All descriptors are in use: the kernel drops the one it should install, *)
(* recvmsg() succeeds all the same, and connection_fd is used although     *)
(* nothing has been stored in it.  What happens then is undefined.         *)
ReceiveNothing ==
    /\ Receiving
    /\ open = Fds
    /\ pc' = "undefined"
    /\ UNCHANGED <<connVars, fdVars, unix_watched>>

(* worker_timer_expire_handler() visits the slots one by one, unless the   *)
(* second has not changed since the last time.                             *)
DispatchTimer ==
    /\ Dispatched(TimerFd)
    /\ pc' \in {"loop", "timer"} /\ index' = 0
    /\ UNCHANGED <<server_shutdown, connVars, fdVars, stale, mainVars>>

(* A connection that is idle for too long fails, one that has lingered     *)
(* long enough is closed.                                                  *)
TimerVisit ==
    /\ pc = "timer"
    /\ \/ UNCHANGED <<connVars, fdVars, stale>>
       \/ index \in Used /\ conn[index] # "CLOSE" /\ RunMachine(index, "ERROR")
       \/ index \in Used /\ conn[index] = "CLOSE" /\ CloseAndFree(index)
    /\ index' = index + 1
    /\ pc' = IF index' < conn_max_size THEN "timer" ELSE "loop"
    /\ UNCHANGED <<server_shutdown, batch, hung, mainVars>>

(* connection_event_handle() of whichever connection is registered for the *)
(* descriptor now; a hang-up is an error, except while lingering.          *)
DispatchConnection(f) ==
    /\ Dispatched(f)
    /\ handler_array[f] # None
    /\ LET s == handler_array[f]
       IN  \E error \in IF f \in hung THEN {conn[s] # "CLOSE"} ELSE BOOLEAN :
              RunMachine(s, IF error THEN "ERROR" ELSE conn[s])
    /\ UNCHANGED <<pc, index, server_shutdown, mainVars>>

(* None is registered: the assertion of fdevents_get_handle() fails.       *)
DispatchAborts(f) ==
    /\ Dispatched(f)
    /\ handler_array[f] = None
    /\ pc' = "aborted"
    /\ UNCHANGED <<index, server_shutdown, connVars, fdVars, stale, mainVars>>

(* The loop ends when the worker has been told to stop and serves nobody.  *)
Exit ==
    /\ pc = "loop" /\ batch = {}
    /\ ~LoopGoesOn
    /\ pc' = "exited"
    /\ unix_watched' = FALSE
    /\ UNCHANGED <<index, server_shutdown, connVars, fdVars, loopVars, parent, inflight>>

WorkerStep ==
    \/ EpollWait \/ DispatchHangup \/ ReceiveDescriptor \/ ReceiveRefused \/ ReceiveNothing
    \/ DispatchTimer \/ TimerVisit
    \/ (\E f \in Fds : DispatchConnection(f) \/ DispatchAborts(f))
    \/ Exit

-----------------------------------------------------------------------------
(* The main process                                                        *)

Signal ==
    /\ ~Ended
    /\ server_shutdown' = TRUE
    /\ UNCHANGED <<pc, index, connVars, fdVars, loopVars, mainVars>>

SendFd ==
    /\ ~Ended /\ parent /\ inflight < MaxInFlight
    /\ inflight' = inflight + 1
    /\ UNCHANGED <<pc, index, server_shutdown, connVars, fdVars, loopVars, unix_watched, parent>>

ParentExits ==
    /\ ~Ended
    /\ parent' = FALSE
    /\ UNCHANGED <<pc, index, server_shutdown, connVars, fdVars, loopVars, unix_watched, inflight>>

Next == WorkerStep \/ Signal \/ SendFd \/ ParentExits

Spec == Init /\ [][Next]_vars

(* The worker is a process that the scheduler runs.                        *)
FairSpec == Spec /\ WF_vars(WorkerStep)

-----------------------------------------------------------------------------
(* Properties                                                              *)

LoopOK ==
    /\ pc \in {"loop", "timer", "exited", "aborted", "undefined"}
    /\ index \in 0 .. conn_max_size
    /\ {server_shutdown, unix_watched, parent} \subseteq BOOLEAN
    /\ {batch, hung} \subseteq SUBSET (Fds \cup {UnixFd, TimerFd})
    /\ inflight \in 0 .. MaxInFlight

TablesOK ==
    /\ conn \in [Slots -> {"NULL", "READ", "WRITE", "CLOSE"}]
    /\ conn_socket_fd \in [Slots -> Fds \cup {None}]
    /\ file_fd \in [Slots -> Fds \cup {None}]
    /\ cur_connection_number \in Nat
    /\ handler_array \in [Fds -> Slots \cup {None}]
    /\ open \subseteq Fds
    /\ stale \subseteq Fds

(* Every variable keeps its type; the connection counter, which several    *)
(* functions change, does not fall below zero (connection.cpp:350).        *)
TypeOK == LoopOK /\ TablesOK

(* The counter that decides whether a connection is refused, and when the  *)
(* worker may exit, is the number of slots in use, whichever of the timer, *)
(* an event or the socket's end closes a connection (worker.cpp:97-118,    *)
(* connection.cpp:346-353).                                                *)
SlotsCounted == cur_connection_number = Cardinality(Used)

(* Slots and handlers refer to each other: an event on the socket of a     *)
(* connection runs that connection, and no handler outlives its connection *)
(* (worker.cpp:77-92, connection.cpp:66-79).                               *)
TablesAgree ==
    /\ \A s \in Used : conn_socket_fd[s] \in Fds /\ handler_array[conn_socket_fd[s]] = s
    /\ \A f \in Fds : handler_array[f] # None =>
          handler_array[f] \in Used /\ conn_socket_fd[handler_array[f]] = f

(* No descriptor is leaked and none is closed under its owner: those in    *)
(* use are the sockets of the connections and the files that some of them  *)
(* are sending, each with one owner (chunk.cpp:35-71).                     *)
DescriptorsOwned ==
    /\ open = {conn_socket_fd[s] : s \in Used}
                \cup {file_fd[s] : s \in {t \in Slots : file_fd[t] # None}}
    /\ \A s, t \in Slots :
          /\ file_fd[s] # None => conn[s] = "WRITE" /\ file_fd[s] # conn_socket_fd[t]
          /\ file_fd[s] = file_fd[t] => s = t \/ file_fd[s] = None

(* The assertions that a new connection meets hold: there is an empty slot *)
(* (worker.cpp:111), and its descriptor has no handler (fdevents.cpp:54).  *)
NewConnectionFits ==
    HasRoom =>
        /\ \E s \in Slots : conn[s] = "NULL"
        /\ \A f \in Fds \ open : handler_array[f] = None

(* A main process that waits for room in the unix socket gets it, even if  *)
(* the worker has no room for connections (worker.cpp:66-75).              *)
HandedOverTaken ==
    (parent /\ inflight = MaxInFlight) ~> (~parent \/ inflight < MaxInFlight \/ Ended)

(* What the main process knows of this worker.  An abort, and what follows *)
(* undefined behaviour, is a crash.                                        *)
View == INSTANCE WorkerView WITH
    QueueCap <- MaxInFlight, MaxServing <- conn_max_size,
    main <- parent,
    status <- IF ~Ended THEN "up" ELSE IF pc = "exited" THEN "exited" ELSE "killed",
    inflight <- IF Ended THEN 0 ELSE inflight,
    serving <- IF Ended THEN 0 ELSE cur_connection_number,
    told <- server_shutdown,
    deaf <- Ended \/ ~unix_watched

(* The worker is what the main process takes it for (module WorkerView):   *)
(* it takes in what is in flight one by one, goes on listening until the   *)
(* main process is gone, serves what it has taken in, and exits only when  *)
(* told to and with nobody left to serve (main.cpp:306-364).               *)
ImplementsView == View!Spec

(* It does take in all that is in flight while it listens, and does exit   *)
(* once it may: what Dispatcher assumes of it (main.cpp:306, worker.cpp:38)*)
ImplementsFairView == View!FairSpec

-----------------------------------------------------------------------------
(* What the source says and the code does not do                           *)

(* connection.cpp:133: EPOLLHUP means that the peer of this socket is      *)
(* closed, not that of a connection which had its descriptor before.       *)
HangupIsOwn ==
    [][\A f \in hung \cap Fds : DispatchConnection(f) => f \notin stale]_vars
=============================================================================
