---------------------------- MODULE WorkerProofs ----------------------------
(***************************************************************************)
(* Proofs about module Worker: for any limit on descriptors, the tables of *)
(* a worker agree with each other and every descriptor has one owner, as   *)
(* long as the worker runs.                                                *)
(***************************************************************************)
EXTENDS Worker, FiniteSetTheorems, TLAPS

(* An empty slot has no descriptor, a used one has a socket of its own.    *)
SocketsOK ==
    /\ \A s \in Slots : conn[s] = "NULL" <=> conn_socket_fd[s] = None
    /\ \A s, t \in Slots : conn_socket_fd[s] = conn_socket_fd[t] =>
                              s = t \/ conn_socket_fd[s] = None

(* The part of the invariant about slots, handlers and descriptors.        *)
Tables == TablesOK /\ SlotsCounted /\ TablesAgree /\ DescriptorsOwned /\ SocketsOK

(* The timer visits a slot that exists.                                    *)
IndexOK == pc = "timer" => index \in Slots

(* The unix socket is read only when something is in flight, and it hangs  *)
(* up only when the main process is gone.                                  *)
UnixOK ==
    /\ UnixFd \in batch => unix_watched
    /\ UnixFd \in batch \ hung => inflight > 0
    /\ UnixFd \in hung => ~parent

IInv == LoopOK /\ Tables /\ IndexOK /\ UnixOK

USE WorkerAssumption DEF Slots, Fds, None, Used, conn_max_size, UnixFd, TimerFd,
    connVars, fdVars, loopVars, mainVars

(* There are as many slots as the pool has, so sets of them can be counted.*)
LEMMA SlotsFinite ==
    /\ IsFiniteSet(Slots) /\ Cardinality(Slots) = conn_max_size
    /\ conn_max_size \in Nat \ {0}
    /\ IsFiniteSet(Used)
  <1>1. conn_max_size \in Nat \ {0}
    OBVIOUS
  <1>2. IsFiniteSet(Slots) /\ Cardinality(Slots) = conn_max_size
    BY <1>1, FS_Interval
  <1> QED BY <1>1, <1>2, FS_Subset

(* The invariant holds initially.                                          *)
LEMMA InitEstablishesIInv == Init => IInv
  <1> SUFFICES ASSUME Init PROVE IInv
    OBVIOUS
  <1>1. {server_shutdown, unix_watched, parent} \subseteq BOOLEAN
    BY DEF Init
  <1>2. LoopOK /\ TablesOK
    BY <1>1, SlotsFinite DEF Init, LoopOK, TablesOK
  <1>3. Used = {}
    BY DEF Init
  <1>4. SlotsCounted
    BY <1>3, FS_EmptySet DEF SlotsCounted, Init
  <1>5. TablesAgree /\ DescriptorsOwned /\ SocketsOK /\ IndexOK /\ UnixOK
    BY <1>3 DEF Init, TablesAgree, DescriptorsOwned, SocketsOK, IndexOK, UnixOK
  <1> QED BY <1>2, <1>4, <1>5 DEF IInv, Tables

-----------------------------------------------------------------------------
(* Runs of the state machine                                               *)

(* A connection that goes on waiting keeps its slot, and gains or loses at *)
(* most the descriptor of a file.                                          *)
LEMMA WaitInPreservesTables ==
    ASSUME Tables, NEW s \in Used, NEW state \in {"READ", "WRITE", "CLOSE"}, WaitIn(s, state)
    PROVE  Tables'
  <1>1. /\ conn \in [Slots -> {"NULL", "READ", "WRITE", "CLOSE"}]
        /\ conn' = [conn EXCEPT ![s] = state]
        /\ UNCHANGED <<conn_socket_fd, cur_connection_number, handler_array, stale>>
        /\ s \in Slots
    BY DEF WaitIn, Tables, TablesOK
  <1>2. Used' = Used
    BY <1>1
  <1>3. SlotsCounted'
    BY <1>1, <1>2 DEF Tables, SlotsCounted
  <1>4. TablesAgree'
    BY <1>1, <1>2, Zenon DEF Tables, TablesAgree
  <1>5. SocketsOK'
    BY <1>1 DEF Tables, SocketsOK
  <1>6. TablesOK'
    BY <1>1 DEF Tables, TablesOK, WaitIn, CloseFile, IsLowestFree
  <1>7. DescriptorsOwned'
    <2>1. CASE state = "WRITE" /\ UNCHANGED <<file_fd, open>>
      BY <1>1, <1>2, <2>1 DEF Tables, DescriptorsOwned
    <2>2. CASE state # "WRITE" /\ CloseFile(s)
      <3>1. file_fd \in [Slots -> Fds \cup {None}] /\ None \notin open
        BY DEF Tables, TablesOK
      <3>2. \A t \in Slots : file_fd'[t] = IF t = s THEN None ELSE file_fd[t]
        BY <1>1, <2>2, <3>1 DEF CloseFile
      <3>3. \A t \in Slots : t # s => conn'[t] = conn[t]
        BY <1>1
      <3>4. open' = open \ {file_fd[s]}
        BY <2>2 DEF CloseFile
      <3>5. open' = {conn_socket_fd'[t] : t \in Used'}
                      \cup {file_fd'[t] : t \in {u \in Slots : file_fd'[u] # None}}
        <4>1. \A t \in Used : conn_socket_fd[t] # file_fd[s]
          BY <1>1, <3>1 DEF Tables, TablesAgree, DescriptorsOwned
        <4> QED BY <1>1, <1>2, <3>1, <3>2, <3>4, <4>1 DEF Tables, DescriptorsOwned
      <3> QED BY <1>1, <3>1, <3>2, <3>3, <3>5 DEF Tables, DescriptorsOwned
    <2>3. ASSUME state = "WRITE", file_fd[s] = None, NEW f \in Fds \ open,
                 file_fd' = [file_fd EXCEPT ![s] = f], open' = open \cup {f}
          PROVE  DescriptorsOwned'
      BY <1>1, <1>2, <2>3 DEF Tables, TablesOK, DescriptorsOwned, SocketsOK
    <2> QED BY <2>1, <2>2, <2>3 DEF WaitIn, IsLowestFree
  <1> QED BY <1>3, <1>4, <1>5, <1>6, <1>7 DEF Tables

(* Closing returns the slot, the handler and the descriptors.              *)
LEMMA CloseAndFreePreservesTables ==
    ASSUME Tables, NEW s \in Used, CloseAndFree(s)
    PROVE  Tables'
  <1> DEFINE f == conn_socket_fd[s]
  <1>1. /\ s \in Slots /\ f \in Fds /\ handler_array[f] = s
        /\ conn' = [conn EXCEPT ![s] = "NULL"]
        /\ handler_array' = [handler_array EXCEPT ![f] = None]
        /\ conn_socket_fd' = [conn_socket_fd EXCEPT ![s] = None]
        /\ file_fd' = [file_fd EXCEPT ![s] = None]
        /\ open' = open \ {f, file_fd[s]}
    BY DEF CloseAndFree, Unregister, Tables, TablesAgree
  <1>2. Used' = Used \ {s}
    BY <1>1 DEF Tables, TablesOK
  <1>3. IsFiniteSet(Used') /\ Cardinality(Used') = Cardinality(Used) - 1
    <2>1. IsFiniteSet(Used)
      BY SlotsFinite, Zenon
    <2> HIDE DEF Used
    <2>2. IsFiniteSet(Used \ {s}) /\ Cardinality(Used \ {s}) = Cardinality(Used) - 1
      BY <2>1, FS_RemoveElement
    <2> QED BY <1>2, <2>2
  <1>4. SlotsCounted'
    BY <1>3 DEF Tables, SlotsCounted, CloseAndFree, CountOff
  <1>5. TablesOK'
    <2>1. cur_connection_number' \in Nat
      <3> HIDE DEF Used
      <3>1. Cardinality(Used') \in Nat
        BY <1>3, FS_CardinalityType
      <3>2. cur_connection_number' = Cardinality(Used')
        BY <1>4 DEF SlotsCounted
      <3> QED BY <3>1, <3>2
    <2>2. /\ conn' \in [Slots -> {"NULL", "READ", "WRITE", "CLOSE"}]
          /\ conn_socket_fd' \in [Slots -> Fds \cup {None}]
          /\ file_fd' \in [Slots -> Fds \cup {None}]
          /\ handler_array' \in [Fds -> Slots \cup {None}]
      BY <1>1, Zenon DEF Tables, TablesOK
    <2>3. open' \subseteq Fds /\ stale' \subseteq Fds
      BY <1>1 DEF Tables, TablesOK, CloseAndFree
    <2> QED BY <2>1, <2>2, <2>3 DEF TablesOK
  <1>6. TablesAgree'
    BY <1>1, <1>2 DEF Tables, TablesOK, TablesAgree
  <1>7. SocketsOK'
    BY <1>1 DEF Tables, TablesOK, SocketsOK
  <1>8. DescriptorsOwned'
    BY <1>1, <1>2 DEF Tables, TablesOK, DescriptorsOwned, SocketsOK
  <1> QED BY <1>4, <1>5, <1>6, <1>7, <1>8 DEF Tables

(* Running a connection keeps the tables sound, closed or not.             *)
LEMMA RunMachinePreservesTables ==
    ASSUME Tables, NEW s \in Used, NEW state, RunMachine(s, state)
    PROVE  Tables'
  BY WaitInPreservesTables, CloseAndFreePreservesTables DEF RunMachine

(* A new connection takes an empty slot and a free descriptor.             *)
LEMMA ReceivePreservesTables ==
    ASSUME Tables, ReceiveDescriptor
    PROVE  Tables'
  <1>1. PICK f \in Fds, s \in Slots :
            /\ f \notin open /\ conn[s] = "NULL"
            /\ conn' = [conn EXCEPT ![s] = "READ"]
            /\ conn_socket_fd' = [conn_socket_fd EXCEPT ![s] = f]
            /\ open' = open \cup {f}
            /\ handler_array' = [handler_array EXCEPT ![f] = s]
    BY DEF ReceiveDescriptor, IsLowestFree
  <1>2. /\ cur_connection_number' = cur_connection_number + 1
        /\ UNCHANGED <<file_fd, stale>>
    BY DEF ReceiveDescriptor, Receiving
  <1>3. Used' = Used \cup {s} /\ s \notin Used
    BY <1>1 DEF Tables, TablesOK
  <1>4. SlotsCounted'
    <2>1. IsFiniteSet(Used)
      BY SlotsFinite, Zenon
    <2> QED BY <1>2, <1>3, <2>1, FS_AddElement DEF Tables, SlotsCounted
  <1>5. TablesOK'
    BY <1>1, <1>2 DEF Tables, TablesOK
  <1>6. TablesAgree'
    BY <1>1, <1>3 DEF Tables, TablesOK, TablesAgree, DescriptorsOwned
  <1>7. SocketsOK'
    BY <1>1 DEF Tables, TablesOK, SocketsOK, DescriptorsOwned
  <1>8. DescriptorsOwned'
    BY <1>1, <1>2, <1>3 DEF Tables, TablesOK, DescriptorsOwned, SocketsOK
  <1> QED BY <1>4, <1>5, <1>6, <1>7, <1>8 DEF Tables

-----------------------------------------------------------------------------
(* The event loop                                                          *)

(* What touches no table keeps them.                                       *)
LEMMA UntouchedTables == Tables /\ UNCHANGED <<connVars, fdVars, stale>> => Tables'
  BY DEF Tables, TablesOK, SlotsCounted, TablesAgree, DescriptorsOwned, SocketsOK

(* The steps of the worker keep the invariant.                             *)
LEMMA WorkerStepPreservesIInv == IInv /\ WorkerStep => IInv'
  <1> SUFFICES ASSUME IInv, WorkerStep PROVE IInv'
    OBVIOUS
  <1> USE DEF Dispatched
  <1>1. CASE EpollWait
    <2>1. LoopOK'
      <3>1. PICK ready \in SUBSET ({TimerFd} \cup {conn_socket_fd[s] : s \in Used}) :
              /\ batch' \in {ready, ready \cup {UnixFd}}
              /\ \E h \in SUBSET ready : hung' \in {h, h \cup {UnixFd}}
        BY <1>1 DEF EpollWait
      <3>2. ready \subseteq Fds \cup {TimerFd}
        BY DEF IInv, Tables, TablesAgree
      <3>3. {batch', hung'} \subseteq SUBSET (Fds \cup {UnixFd, TimerFd})
        BY <3>1, <3>2
      <3> QED BY <1>1, <3>3 DEF EpollWait, IInv, LoopOK
    <2>2. Tables'
      BY <1>1 DEF EpollWait, IInv, Tables, TablesOK, SlotsCounted, TablesAgree, DescriptorsOwned,
                  SocketsOK
    <2>3. IndexOK'
      BY <1>1 DEF EpollWait, IInv, IndexOK
    <2>4. UnixOK'
      <3>1. \A ready \in SUBSET ({TimerFd} \cup {conn_socket_fd[s] : s \in Used}) :
               UnixFd \notin ready
        BY DEF IInv, Tables, TablesAgree
      <3>2. /\ UnixFd \in batch' => unix_watched /\ (inflight > 0 \/ UnixFd \in hung')
            /\ UnixFd \in hung' => ~parent
        BY <1>1, <3>1 DEF EpollWait
      <3> QED BY <1>1, <3>2 DEF EpollWait, UnixOK
    <2> QED BY <2>1, <2>2, <2>3, <2>4 DEF IInv
  <1>2. CASE DispatchHangup
    <2>1. LoopOK'  BY <1>2 DEF DispatchHangup, IInv, LoopOK
    <2> QED BY <1>2, <2>1, UntouchedTables DEF DispatchHangup, IInv, IndexOK, UnixOK
  <1>3. CASE ReceiveDescriptor
    <2>1. LoopOK'  BY <1>3 DEF ReceiveDescriptor, Receiving, IInv, LoopOK, UnixOK
    <2> QED BY <1>3, <2>1, ReceivePreservesTables
           DEF ReceiveDescriptor, Receiving, IInv, IndexOK, UnixOK
  <1>4. CASE ReceiveRefused
    <2>1. LoopOK'  BY <1>4 DEF ReceiveRefused, Receiving, KeepListening, IInv, LoopOK, UnixOK
    <2> QED BY <1>4, <2>1, UntouchedTables DEF ReceiveRefused, Receiving, IInv, IndexOK, UnixOK
  <1>5. CASE ReceiveNothing
    <2>1. LoopOK'  BY <1>5 DEF ReceiveNothing, Receiving, IInv, LoopOK, UnixOK
    <2> QED BY <1>5, <2>1, UntouchedTables DEF ReceiveNothing, Receiving, IInv, IndexOK, UnixOK
  <1>6. CASE DispatchTimer
    <2>1. LoopOK'  BY <1>6, SlotsFinite DEF DispatchTimer, IInv, LoopOK
    <2> QED BY <1>6, <2>1, UntouchedTables DEF DispatchTimer, IInv, IndexOK, UnixOK
  <1>7. CASE TimerVisit
    <2>1. index \in Slots
      BY <1>7 DEF TimerVisit, IInv, IndexOK
    <2>2. LoopOK' /\ IndexOK' /\ UnixOK'
      BY <1>7, <2>1 DEF TimerVisit, IInv, LoopOK, IndexOK, UnixOK
    <2>3. Tables'
      BY <1>7, UntouchedTables, RunMachinePreservesTables, CloseAndFreePreservesTables
         DEF TimerVisit, IInv
    <2> QED BY <2>2, <2>3 DEF IInv
  <1>8. ASSUME NEW f \in Fds, DispatchConnection(f) PROVE IInv'
    <2>1. LoopOK'  BY <1>8 DEF DispatchConnection, IInv, LoopOK
    <2>2. Tables'
      <3>1. handler_array[f] \in Used
        BY <1>8 DEF DispatchConnection, IInv, Tables, TablesAgree
      <3> QED BY <1>8, <3>1, RunMachinePreservesTables DEF DispatchConnection, IInv
    <2> QED BY <1>8, <2>1, <2>2 DEF DispatchConnection, IInv, IndexOK, UnixOK
  <1>9. ASSUME NEW f \in Fds, DispatchAborts(f) PROVE IInv'
    <2>1. LoopOK'  BY <1>9 DEF DispatchAborts, IInv, LoopOK
    <2> QED BY <1>9, <2>1, UntouchedTables DEF DispatchAborts, IInv, IndexOK, UnixOK
  <1>10. CASE Exit
    <2>1. LoopOK'  BY <1>10 DEF Exit, IInv, LoopOK
    <2> QED BY <1>10, <2>1, UntouchedTables DEF Exit, IInv, IndexOK, UnixOK
  <1> QED BY <1>1, <1>2, <1>3, <1>4, <1>5, <1>6, <1>7, <1>8, <1>9, <1>10 DEF WorkerStep

(* So does every other step: those of its environment, and none at all.    *)
LEMMA Inductive == IInv /\ [Next]_vars => IInv'
  <1> SUFFICES ASSUME IInv, [Next]_vars PROVE IInv'
    OBVIOUS
  <1>1. CASE WorkerStep
    BY <1>1, WorkerStepPreservesIInv
  <1>2. CASE Signal \/ SendFd \/ ParentExits
    <2>1. LoopOK'
      <3>1. {server_shutdown', unix_watched', parent'} \subseteq BOOLEAN
        BY <1>2 DEF Signal, SendFd, ParentExits, IInv, LoopOK
      <3> QED BY <1>2, <3>1 DEF Signal, SendFd, ParentExits, IInv, LoopOK
    <2>2. Tables' /\ IndexOK' /\ UnixOK'
      BY <1>2, UntouchedTables DEF Signal, SendFd, ParentExits, IInv, LoopOK, IndexOK, UnixOK
    <2> QED BY <2>1, <2>2 DEF IInv
  <1>3. CASE UNCHANGED vars
    <2>1. LoopOK' /\ IndexOK' /\ UnixOK'
      BY <1>3 DEF vars, IInv, LoopOK, IndexOK, UnixOK
    <2> QED BY <1>3, <2>1, UntouchedTables DEF vars, IInv
  <1> QED BY <1>1, <1>2, <1>3 DEF Next

(* The invariant holds in every state, whatever the events, the clients and*)
(* the main thread do between two steps of the worker.                     *)
THEOREM Invariance == Spec => []IInv
  BY InitEstablishesIInv, Inductive, PTL DEF Spec

(* Every variable keeps its type: in particular the number of connections  *)
(* never goes below zero.                                                  *)
THEOREM TypeCorrect == Spec => []TypeOK
  BY Invariance, PTL DEF IInv, Tables, TypeOK

(* cur_connection_number is the number of slots in use.                    *)
THEOREM Counted == Spec => []SlotsCounted
  BY Invariance, PTL DEF IInv, Tables

(* Slots and handlers refer to each other.                                 *)
THEOREM Agreement == Spec => []TablesAgree
  BY Invariance, PTL DEF IInv, Tables

(* Every descriptor in use has one owner, and none is leaked.              *)
THEOREM Ownership == Spec => []DescriptorsOwned
  BY Invariance, PTL DEF IInv, Tables

(* A new connection finds an empty slot and no handler for its descriptor. *)
THEOREM NewConnectionsFit == Spec => []NewConnectionFits
  <1>1. ASSUME IInv PROVE NewConnectionFits
    <2>1. HasRoom => \E s \in Slots : conn[s] = "NULL"
      <3> SUFFICES ASSUME \A s \in Slots : conn[s] # "NULL" PROVE ~HasRoom
        OBVIOUS
      <3>1. Used = Slots
        OBVIOUS
      <3>2. Cardinality(Used) = conn_max_size
        BY <3>1, SlotsFinite
      <3>3. cur_connection_number = Cardinality(Used)
        BY <1>1 DEF IInv, Tables, SlotsCounted
      <3> QED BY <3>2, <3>3, SlotsFinite DEF HasRoom
    <2>2. \A f \in Fds \ open : handler_array[f] = None
      BY <1>1 DEF IInv, Tables, TablesOK, TablesAgree, DescriptorsOwned
    <2> QED BY <2>1, <2>2 DEF NewConnectionFits
  <1> QED BY <1>1, Invariance, PTL

-----------------------------------------------------------------------------
(* What the main process sees                                              *)

(* A run of the state machine ends one connection at most.                 *)
LEMMA RunIsViewed ==
    ASSUME IInv, pc \in {"loop", "timer"}, pc' \in {"loop", "timer"}, NEW s \in Used, NEW state,
           RunMachine(s, state) \/ CloseAndFree(s), UNCHANGED <<server_shutdown, mainVars>>
    PROVE  View!Finish \/ UNCHANGED View!vars
  <1>1. CASE UNCHANGED cur_connection_number
    BY <1>1 DEF View!vars, Ended
  <1>2. CASE CloseAndFree(s)
    <2>1. cur_connection_number > 0
      <3>1. Used # {} /\ IsFiniteSet(Used)
        BY SlotsFinite, Zenon
      <3> HIDE DEF Used
      <3>2. Cardinality(Used) # 0 /\ Cardinality(Used) \in Nat
        BY <3>1, FS_EmptySet, FS_CardinalityType
      <3> QED BY <3>2 DEF IInv, Tables, SlotsCounted
    <2>2. cur_connection_number' = cur_connection_number - 1
      BY <1>2 DEF CloseAndFree, CountOff
    <2> QED BY <2>1, <2>2 DEF View!Finish, Ended
  <1> QED BY <1>1, <1>2 DEF RunMachine, WaitIn

(* Every step is one of what the main thread and clients see, or none.     *)
LEMMA StepsAreViewed ==
    ASSUME IInv, [Next]_vars
    PROVE  View!Next \/ UNCHANGED View!vars
  <1> USE DEF Dispatched, View!vars, Ended
  <1>1. CASE UNCHANGED vars \/ EpollWait
    BY <1>1 DEF vars, EpollWait
  <1>2. CASE DispatchHangup
    BY <1>2 DEF DispatchHangup, IInv, UnixOK, View!Next, View!Hangup
  <1>3. CASE ReceiveDescriptor
    BY <1>3 DEF ReceiveDescriptor, Receiving, HasRoom, IInv, UnixOK, View!Next, View!Receive
  <1>4. CASE ReceiveRefused
    BY <1>4 DEF ReceiveRefused, Receiving, HasRoom, KeepListening, IInv, UnixOK, View!Next,
                View!Receive
  <1>5. CASE ReceiveNothing
    BY <1>5 DEF ReceiveNothing, Receiving, View!Next, View!Crash, View!Dies
  <1>6. CASE DispatchTimer
    BY <1>6 DEF DispatchTimer
  <1>7. CASE TimerVisit
    BY <1>7, RunIsViewed DEF TimerVisit, View!Next
  <1>8. ASSUME NEW f \in Fds, DispatchConnection(f) PROVE View!Next \/ UNCHANGED View!vars
    <2>1. handler_array[f] \in Used
      BY <1>8 DEF DispatchConnection, IInv, Tables, TablesAgree
    <2> QED BY <1>8, <2>1, RunIsViewed DEF DispatchConnection, View!Next
  <1>9. ASSUME NEW f \in Fds, DispatchAborts(f) PROVE View!Next
    BY <1>9 DEF DispatchAborts, View!Next, View!Crash, View!Dies
  <1>10. CASE Exit
    BY <1>10 DEF Exit, LoopGoesOn, IInv, Tables, TablesOK, View!Next, View!Exit, View!Dies
  <1>11. CASE Signal
    BY <1>11 DEF Signal, View!Next, View!Tell
  <1>12. CASE SendFd
    BY <1>12 DEF SendFd, IInv, LoopOK, View!Next, View!Send
  <1>13. CASE ParentExits
    BY <1>13 DEF ParentExits, View!Next, View!MainEnds
  <1> QED BY <1>1, <1>2, <1>3, <1>4, <1>5, <1>6, <1>7, <1>8, <1>9, <1>10, <1>11, <1>12, <1>13
          DEF Next, WorkerStep

(* A worker is what the main process takes it for, whatever its limits.    *)
THEOREM Viewed == Spec => ImplementsView
  <1>1. Init => View!Init
    BY DEF Init, View!Init, Ended
  <1>2. IInv /\ [Next]_vars => [View!Next]_(View!vars)
    BY StepsAreViewed
  <1> QED BY <1>1, <1>2, Invariance, PTL DEF Spec, ImplementsView, View!Spec
=============================================================================
