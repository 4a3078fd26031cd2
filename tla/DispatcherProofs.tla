-------------------------- MODULE DispatcherProofs --------------------------
(***************************************************************************)
(* Proofs about module Dispatcher: for any number of workers, whatever     *)
(* signals, deaths and failed sends come in between, the connections       *)
(* handed to the workers on the list stay within one of each other.        *)
(***************************************************************************)
EXTENDS Dispatcher, TLAPS

(* While a descriptor is about to be sent, its worker is still the one     *)
(* that a search would find to have been sent the fewest.                  *)
PickIsMinimal ==
    pc = "send" =>
        /\ picked \in Candidates
        /\ \A v \in Candidates : sent_connection_number[picked] <= sent_connection_number[v]

PickedOnlyWhileSending == pc # "send" => picked = Nobody

IInv == TypeOK /\ Balanced /\ PickIsMinimal /\ PickedOnlyWhileSending

USE DispatcherAssumption DEF Workers, Nobody, flagVars, childVars, workerVars

(* The invariant holds initially.                                          *)
LEMMA InitEstablishesIInv == Init => IInv
  <1> SUFFICES ASSUME Init PROVE IInv
    OBVIOUS
  <1>1. {server_shutdown, graceful_shutdown, signal_child_handled} \subseteq BOOLEAN
    BY DEF Init
  <1>2. TypeOK
    BY <1>1 DEF Init, TypeOK
  <1>3. Balanced /\ PickIsMinimal /\ PickedOnlyWhileSending
    BY DEF Init, Balanced, PickIsMinimal, PickedOnlyWhileSending
  <1> QED BY <1>2, <1>3 DEF IInv

(* Steps that touch neither the list nor the choice.                       *)
LEMMA Untouched ==
    ASSUME IInv, TypeOK', UNCHANGED childVars,
           \/ UNCHANGED picked /\ (pc = "send" <=> pc' = "send")
           \/ picked' = Nobody /\ pc' # "send"
    PROVE  IInv'
  BY DEF IInv, Balanced, PickIsMinimal, PickedOnlyWhileSending, Candidates

(* The steps of the main thread keep it.                                   *)
LEMMA MainStepPreservesIInv == IInv /\ MainStep => IInv'
  <1> SUFFICES ASSUME IInv, MainStep PROVE IInv'
    OBVIOUS
  <1>1. CASE Loop
    <2>1. TypeOK'  BY <1>1 DEF Loop, IInv, TypeOK
    <2> QED BY <1>1, <2>1, Untouched DEF Loop
  <1>2. ASSUME NEW w \in Workers, Reap(w) PROVE IInv'
    <2>1. TypeOK'  BY <1>2 DEF Reap, IInv, TypeOK
    <2>2. Balanced'  BY <1>2 DEF Reap, IInv, TypeOK, Balanced
    <2>3. PickIsMinimal' /\ PickedOnlyWhileSending'
      BY <1>2 DEF Reap, IInv, PickIsMinimal, PickedOnlyWhileSending
    <2> QED BY <2>1, <2>2, <2>3 DEF IInv
  <1>3. CASE ReapNone
    <2>1. TypeOK'  BY <1>3 DEF ReapNone, IInv, TypeOK
    <2> QED BY <1>3, <2>1, Untouched DEF ReapNone
  <1>4. CASE ClearFlag
    <2>1. TypeOK'  BY <1>4 DEF ClearFlag, IInv, TypeOK
    <2> QED BY <1>4, <2>1, Untouched DEF ClearFlag
  <1>5. CASE CallAccept
    <2>1. TypeOK'  BY <1>5 DEF CallAccept, IInv, TypeOK
    <2> QED BY <1>5, <2>1, Untouched DEF CallAccept
  <1>6. CASE Accept
    <2>1. TypeOK'  BY <1>6 DEF Accept, IInv, TypeOK
    <2> QED BY <1>6, <2>1, Untouched DEF Accept
  <1>7. CASE AcceptFails
    <2>1. TypeOK'  BY <1>7 DEF AcceptFails, IInv, TypeOK
    <2> QED BY <1>7, <2>1, Untouched DEF AcceptFails
  <1>8. CASE PickWorker
    <2>1. TypeOK'
      <3>1. picked' \in 0 .. NWorkers
        BY <1>8 DEF PickWorker
      <3> QED BY <1>8, <3>1 DEF PickWorker, IInv, TypeOK
    <2>2. Balanced'  BY <1>8 DEF PickWorker, IInv, Balanced
    <2>3. PickIsMinimal' /\ PickedOnlyWhileSending'
      BY <1>8, SMTT(30) DEF PickWorker, IsPick, Candidates, IInv, TypeOK, PickIsMinimal,
                            PickedOnlyWhileSending
    <2> QED BY <2>1, <2>2, <2>3 DEF IInv
  <1>9. CASE CloseUnserved
    <2>1. TypeOK'  BY <1>9 DEF CloseUnserved, IInv, TypeOK
    <2> QED BY <1>9, <2>1, Untouched DEF CloseUnserved
  <1>10. CASE SendFd
    <2> DEFINE n == sent_connection_number
    <2>0. /\ picked \in Workers /\ n[picked] < Sentinel
          /\ \A v \in Candidates : n[picked] <= n[v]
          /\ n \in [Workers -> 0 .. Sentinel] /\ inflight \in [Workers -> 0 .. QueueCap]
      BY <1>10 DEF SendFd, IInv, TypeOK, PickIsMinimal, Candidates
    <2>1. TypeOK'
      <3>1. n' \in [Workers -> 0 .. Sentinel] /\ inflight' \in [Workers -> 0 .. QueueCap]
        BY <1>10, <2>0, SMTT(30) DEF SendFd
      <3> QED BY <1>10, <3>1, SMTT(30) DEF SendFd, IInv, TypeOK
    <2>2. Balanced'
      <3>1. worker_running' = worker_running /\ n' = [n EXCEPT ![picked] = n[picked] + 1]
        BY <1>10 DEF SendFd
      <3>2. ASSUME NEW v \in Workers, NEW w \in Workers, worker_running[v], worker_running[w]
            PROVE  n'[v] <= n'[w] + 1
        <4>1. n[v] \in 0 .. Sentinel /\ n[w] \in 0 .. Sentinel /\ n[v] <= n[w] + 1
          BY <2>0, <3>2 DEF IInv, Balanced
        <4>2. n[picked] <= n[w]
          BY <2>0, <3>2, <4>1 DEF Candidates
        <4> QED BY <2>0, <3>1, <4>1, <4>2, SMTT(30)
      <3> QED BY <3>1, <3>2, Zenon DEF Balanced
    <2>3. PickIsMinimal' /\ PickedOnlyWhileSending'
      BY <1>10 DEF SendFd, PickIsMinimal, PickedOnlyWhileSending
    <2> QED BY <2>1, <2>2, <2>3 DEF IInv
  <1>11. CASE SendFdFails
    <2>1. TypeOK'  BY <1>11 DEF SendFdFails, IInv, TypeOK
    <2> QED BY <1>11, <2>1, Untouched DEF SendFdFails
  <1>12. CASE KillWorkers
    <2>1. TypeOK'  BY <1>12 DEF KillWorkers, IInv, TypeOK
    <2> QED BY <1>12, <2>1, Untouched DEF KillWorkers
  <1>13. CASE Exit
    <2>1. TypeOK'  BY <1>13 DEF Exit, IInv, TypeOK
    <2> QED BY <1>13, <2>1, Untouched DEF Exit
  <1> QED BY <1>1, <1>2, <1>3, <1>4, <1>5, <1>6, <1>7, <1>8, <1>9, <1>10, <1>11, <1>12, <1>13
          DEF MainStep

(* A signal may take the connection out of the hands of the main process,  *)
(* but never gives it another one.                                         *)
LEMMA InterruptIsSafe ==
    ASSUME IInv, Interrupt
    PROVE  /\ pc' \in {pc, "loop"} /\ picked' \in 0 .. NWorkers
           /\ \/ UNCHANGED picked /\ (pc = "send" <=> pc' = "send")
              \/ picked' = Nobody /\ pc' # "send"
  BY DEF Interrupt, IInv, TypeOK, PickedOnlyWhileSending

(* A signal between any two of them keeps it.                              *)
LEMMA SignalsPreserveIInv == IInv /\ (SigTerm \/ SigInt) => IInv'
  <1> SUFFICES ASSUME IInv, SigTerm \/ SigInt PROVE IInv'
    OBVIOUS
  <1>1. Interrupt /\ UNCHANGED childVars
    BY DEF SigTerm, SigInt
  <1>2. TypeOK'
    BY <1>1, InterruptIsSafe DEF SigTerm, SigInt, IInv, TypeOK
  <1> QED BY <1>1, <1>2, InterruptIsSafe, Untouched

(* A worker that takes a connection, closes one or ends keeps it.          *)
LEMMA WorkersPreserveIInv ==
    ASSUME IInv, NEW w \in Workers,
           \/ SignalWorker(w) \/ WorkerCrash(w) \/ WorkerExit(w)
           \/ WorkerReceive(w) \/ WorkerHangup(w) \/ WorkerFinish(w)
    PROVE  IInv'
  <1>1. CASE WorkerCrash(w) \/ WorkerExit(w)
    <2>1. PICK how \in {"exited", "killed"} : Dies(w, how)
      BY <1>1 DEF WorkerCrash, WorkerExit
    <2>2. Interrupt /\ UNCHANGED childVars
      BY <2>1 DEF Dies
    <2>3. /\ pc' \in {pc, "loop"} /\ picked' \in 0 .. NWorkers
          /\ signal_child_handled' \in BOOLEAN
      BY <2>1, <2>2, InterruptIsSafe DEF Dies, IInv, TypeOK
    <2>4. TypeOK'
      BY <2>1, <2>3 DEF Dies, IInv, TypeOK
    <2> QED BY <2>2, <2>4, InterruptIsSafe, Untouched
  <1>2. CASE WorkerReceive(w)
    <2>1. TypeOK'  BY <1>2, SMTT(30) DEF WorkerReceive, IInv, TypeOK
    <2> QED BY <1>2, <2>1, Untouched DEF WorkerReceive
  <1>3. CASE WorkerHangup(w)
    <2>1. TypeOK'  BY <1>3 DEF WorkerHangup, IInv, TypeOK
    <2> QED BY <1>3, <2>1, Untouched DEF WorkerHangup
  <1>4. CASE WorkerFinish(w)
    <2>1. TypeOK'  BY <1>4 DEF WorkerFinish, IInv, TypeOK
    <2> QED BY <1>4, <2>1, Untouched DEF WorkerFinish
  <1>5. CASE SignalWorker(w)
    <2>1. TypeOK'  BY <1>5 DEF SignalWorker, IInv, TypeOK
    <2> QED BY <1>5, <2>1, Untouched DEF SignalWorker
  <1> QED BY <1>1, <1>2, <1>3, <1>4, <1>5

(* A client that connects keeps it.                                        *)
LEMMA ConnectPreservesIInv == IInv /\ Connect => IInv'
  <1> SUFFICES ASSUME IInv, Connect PROVE IInv'
    OBVIOUS
  <1>1. TypeOK'  BY DEF Connect, IInv, TypeOK
  <1> QED BY <1>1, Untouched DEF Connect

(* So every step of the program keeps the invariant.                       *)
LEMMA Inductive == IInv /\ [Next]_vars => IInv'
  <1> SUFFICES ASSUME IInv, [Next]_vars PROVE IInv'
    OBVIOUS
  <1>1. CASE UNCHANGED vars
    BY <1>1 DEF vars, IInv, TypeOK, Balanced, PickIsMinimal, PickedOnlyWhileSending, Candidates
  <1>2. CASE Next
    BY <1>2, MainStepPreservesIInv, SignalsPreserveIInv, WorkersPreserveIInv,
       ConnectPreservesIInv DEF Next
  <1> QED BY <1>1, <1>2

(* The invariant holds in every state, whatever the interleaving of main   *)
(* thread, workers, signals and clients.                                   *)
THEOREM Invariance == Spec => []IInv
  BY InitEstablishesIInv, Inductive, PTL DEF Spec

(* Every variable keeps its type: in particular no count passes the        *)
(* sentinel, so it never wraps around.                                     *)
THEOREM TypeCorrect == Spec => []TypeOK
  BY Invariance, PTL DEF IInv

(* Two workers on the list have been handed numbers of connections that    *)
(* differ by one at most.                                                  *)
THEOREM LoadIsBalanced == Spec => []Balanced
  BY Invariance, PTL DEF IInv

(* The worker about to be sent a descriptor is on the list, and only then  *)
(* is there one.                                                           *)
THEOREM PickIsListed == Spec => []PickedIsListed
  <1>1. IInv => PickedIsListed
    BY DEF IInv, TypeOK, PickIsMinimal, PickedOnlyWhileSending, PickedIsListed, Candidates
  <1> QED BY <1>1, Invariance, PTL

-----------------------------------------------------------------------------
(* The workers                                                             *)

(* What a step of the main process does to a worker, and what a worker     *)
(* does itself, is a step of its view or not seen there.                   *)
LEMMA StepsAreViewed ==
    ASSUME IInv, [Next]_vars, NEW w \in Workers
    PROVE  View(w)!Next \/ UNCHANGED View(w)!vars
  <1> USE DEF View!vars
  <1>1. CASE UNCHANGED vars
    BY <1>1 DEF vars
  <1>2. CASE MainStep
    <2>1. CASE SendFd
      <3>1. CASE w = picked
        BY <2>1, <3>1 DEF SendFd, IInv, TypeOK, View!Next, View!Send
      <3>2. CASE w # picked
        BY <2>1, <3>2 DEF SendFd, IInv, TypeOK
      <3> QED BY <3>1, <3>2
    <2>2. CASE KillWorkers
      BY <2>2 DEF KillWorkers, IInv, TypeOK, View!Next, View!Tell
    <2>3. CASE Exit
      BY <2>3 DEF Exit, View!Next, View!MainEnds
    <2>4. ASSUME ~SendFd, ~KillWorkers, ~Exit
          PROVE  UNCHANGED workerVars /\ (pc = "exited" <=> pc' = "exited")
      BY <1>2, <2>4 DEF MainStep, Loop, Reap, ReapNone, ClearFlag, CallAccept, Accept, AcceptFails,
                        PickWorker, CloseUnserved, SendFdFails
    <2> QED BY <2>1, <2>2, <2>3, <2>4
  <1>3. CASE SigTerm \/ SigInt \/ Connect
    BY <1>3 DEF SigTerm, SigInt, Connect, Interrupt
  <1>4. ASSUME NEW v \in Workers, NEW how \in {"exited", "killed"}, Dies(v, how),
               proc[v] = "up", how = "exited" => worker_shutdown[v] /\ serving[v] = 0
        PROVE  View(w)!Next \/ UNCHANGED View(w)!vars
    <2>1. pc = "exited" <=> pc' = "exited"
      BY <1>4 DEF Dies, Interrupt
    <2>2. CASE v = w
      BY <1>4, <2>1, <2>2 DEF Dies, IInv, TypeOK, View!Next, View!Exit, View!Crash, View!Dies
    <2>3. CASE v # w
      BY <1>4, <2>1, <2>3 DEF Dies, IInv, TypeOK
    <2> QED BY <2>2, <2>3
  <1>5. ASSUME NEW v \in Workers,
               SignalWorker(v) \/ WorkerReceive(v) \/ WorkerHangup(v) \/ WorkerFinish(v)
        PROVE  View(w)!Next \/ UNCHANGED View(w)!vars
    <2>1. CASE v = w
      <3>1. CASE SignalWorker(w)
        BY <3>1 DEF SignalWorker, IInv, TypeOK, View!Next, View!Tell
      <3>2. CASE WorkerReceive(w)
        BY <3>2 DEF WorkerReceive, IInv, TypeOK, View!Next, View!Receive
      <3>3. CASE WorkerHangup(w)
        BY <3>3 DEF WorkerHangup, IInv, TypeOK, View!Next, View!Hangup
      <3>4. CASE WorkerFinish(w)
        BY <3>4 DEF WorkerFinish, IInv, TypeOK, View!Next, View!Finish
      <3> QED BY <1>5, <2>1, <3>1, <3>2, <3>3, <3>4
    <2>2. CASE v # w
      BY <1>5, <2>2 DEF SignalWorker, WorkerReceive, WorkerHangup, WorkerFinish, IInv, TypeOK
    <2> QED BY <2>1, <2>2
  <1> QED BY <1>1, <1>2, <1>3, <1>4, <1>5 DEF Next, WorkerCrash, WorkerExit

(* Every worker is one that WorkerView describes, for any number of them.  *)
THEOREM Viewed == Spec => WorkersAsViewed
  <1>1. Init => \A w \in Workers : View(w)!Init
    BY DEF Init, View!Init
  <1>2. IInv /\ [Next]_vars => [\A w \in Workers : [View(w)!Next]_(View(w)!vars)]_vars
    BY StepsAreViewed
  <1> QED BY <1>1, <1>2, Invariance, PTL DEF Spec, WorkersAsViewed
=============================================================================
