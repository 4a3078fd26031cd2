-------------------------- MODULE ConnectionProofs --------------------------
(***************************************************************************)
(* Proofs about module Connection, for every size of its buffers and every *)
(* timeout: its safety invariants, by an inductive invariant that says     *)
(* what each of the ten states may assume of the queues and flags.         *)
(***************************************************************************)
EXTENDS Connection, TLAPS

-----------------------------------------------------------------------------
(* The inductive invariant                                                 *)

(* Where the state machine may stand when it is not running.               *)
Parked ==
    /\ pc = "epilogue" => \/ state \in {"READ", "CLOSE"}
                          \/ state = "WRITE" /\ Pending /\ ~writeable
    /\ WatchedForProgress
    /\ Closed => state = "CONNECT"
    /\ state = "CONNECT" => Closed \/ pc = "machine"

(* Until its request is handled, a connection has no answer of any kind.   *)
Unanswered == ~Pending /\ ~body_finished /\ sent = 0 /\ content_length = 0

(* What each state knows of the answer.                                    *)
AnswerByState ==
    /\ state \in {"REQUEST_START", "READ", "REQUEST_END"} =>
           Unanswered /\ http_status = "unset"
    /\ state = "HANDLE_REQUEST" =>
           Unanswered /\ http_status \in {"unset", "bad_request", "too_large"}
    /\ state = "RESPONSE_START" =>
           sent = 0 /\ content_length = 0 /\ mem_out + file_out <= MaxBody
    /\ AnswerDecided
    /\ state = "WRITE" => body_finished
    /\ ResponseExact

(* What each state knows of the head that is being read.                   *)
HeadByState ==
    /\ state = "REQUEST_START" => readq = <<>>
    /\ state = "READ" => Len(readq) <= MaxHead
    /\ HeadBounded

(* How the ages the timer compares relate to the time that has passed: the *)
(* clocks may differ by MaxLag, unless it is the client that has ended.    *)
Patience ==
    /\ state = "READ" => read_idle + lag <= quiet + MaxLag
    /\ state = "CLOSE" => close_idle + lag <= quiet + MaxLag \/ peer # "open"
    /\ "HUP" \in events => peer # "open"

IInv ==
    /\ TypeOK
    /\ Parked
    /\ AnswerByState
    /\ HeadByState
    /\ Patience
    /\ FinIsFinal

USE SizeAssumption, TimeAssumption
    DEF States, Statuses, Tokens, Rejected, Never, Expired, Closed, Pending,
        Running, Goto, Stay, Min2,
        requestVars, responseVars, clockVars, loopVars, socketVars,
        TypeOK, FlagsOK, CountsOK, AgesOK, QueuesOK,
        Parked, WatchedForProgress, AnswerByState, Unanswered, AnswerDecided, ResponseExact,
        HeadByState, HeadBounded, Patience, FinIsFinal

-----------------------------------------------------------------------------
(* Sequences                                                               *)

(* Reading a prefix of one sequence onto the end of another moves that     *)
(* many elements and makes none up.                                        *)
LEMMA MovePrefix ==
    ASSUME NEW S, NEW a \in Seq(S), NEW b \in Seq(S), NEW n \in 0 .. Len(b)
    PROVE  /\ SubSeq(b, 1, n) \in Seq(S) /\ Len(SubSeq(b, 1, n)) = n
           /\ SubSeq(b, n + 1, Len(b)) \in Seq(S)
           /\ Len(SubSeq(b, n + 1, Len(b))) = Len(b) - n
           /\ a \o SubSeq(b, 1, n) \in Seq(S)
           /\ Len(a \o SubSeq(b, 1, n)) = Len(a) + n
  OBVIOUS

(* What epoll_wait returns is a sequence of events.                        *)
LEMMA BatchIsSequence == \A b \in Batches \cup {<<>>} : b \in Seq({"timer", "conn"})
  <1> SUFFICES ASSUME NEW b \in Batches \cup {<<>>} PROVE b \in Seq({"timer", "conn"})
    OBVIOUS
  <1>0. CASE b = <<>> BY <1>0
  <1>1. CASE b = <<"timer">> BY <1>1
  <1>2. CASE b = <<"conn">> BY <1>2
  <1>3. CASE b = <<"timer", "conn">> BY <1>3
  <1>4. CASE b = <<"conn", "timer">> BY <1>4
  <1> QED BY <1>0, <1>1, <1>2, <1>3, <1>4 DEF Batches

-----------------------------------------------------------------------------
(* The invariant is inductive                                              *)

(* The invariant holds initially.                                          *)
LEMMA InitEstablishesIInv == Init => IInv
  <1> SUFFICES ASSUME Init PROVE IInv
    OBVIOUS
  <1>1. FlagsOK
    BY DEF Init
  <1>0. CountsOK /\ AgesOK
    BY DEF Init
  <1>2. batch \in Seq({"timer", "conn"})
    BY BatchIsSequence DEF Init, Batches
  <1>3. readq \in Seq(Tokens) /\ inbox \in Seq(Tokens) /\ Len(inbox) = 0 /\ Len(readq) = 0
    BY DEF Init
  <1>4. Parked /\ AnswerByState /\ Patience /\ FinIsFinal
    BY DEF Init
  <1> QED BY <1>0, <1>1, <1>2, <1>3, <1>4 DEF Init, IInv

(* Every turn of the state machine preserves it.                           *)
LEMMA StateMachinePreservesIInv == IInv /\ StateMachine => IInv'
  <1> SUFFICES ASSUME IInv, StateMachine PROVE IInv'
    OBVIOUS
  <1> USE DEF IInv
  <1>1. CASE RequestStart
    BY <1>1 DEF RequestStart
  <1>2. CASE ReadNotReady
    BY <1>2 DEF ReadNotReady
  <1>3. CASE ReadFails
    <2> USE <1>3 DEF ReadFails, Reading
    <2>1. FlagsOK'  OBVIOUS
    <2>2. CountsOK'  OBVIOUS
    <2>3. AgesOK'  OBVIOUS
    <2>4. QueuesOK'  OBVIOUS
    <2>5. Parked'  OBVIOUS
    <2>6. AnswerByState'  OBVIOUS
    <2>7. HeadByState'  OBVIOUS
    <2>8. Patience'  OBVIOUS
    <2>9. FinIsFinal'  OBVIOUS
    <2> QED BY <2>1, <2>2, <2>3, <2>4, <2>5, <2>6, <2>7, <2>8, <2>9
  <1>4. CASE ReadNothing
    BY <1>4 DEF ReadNothing, Reading
  <1>5. CASE ReadEof
    <2> USE <1>5 DEF ReadEof, Reading, LongAgo
    <2>1. FlagsOK'  OBVIOUS
    <2>2. CountsOK'  OBVIOUS
    <2>3. AgesOK'  OBVIOUS
    <2>4. QueuesOK'  OBVIOUS
    <2>5. Parked'  OBVIOUS
    <2>6. AnswerByState'  OBVIOUS
    <2>7. HeadByState'  OBVIOUS
    <2>8. Patience'  OBVIOUS
    <2>9. FinIsFinal'  OBVIOUS
    <2> QED BY <2>1, <2>2, <2>3, <2>4, <2>5, <2>6, <2>7, <2>8, <2>9
  <1>6. CASE ReadData
    <2> USE <1>6 DEF ReadData, Reading, HeadTooLong, Elements
    <2>1. FlagsOK'  OBVIOUS
    <2>2. CountsOK'  OBVIOUS
    <2>3. AgesOK'  OBVIOUS
    <2>4. QueuesOK'  OBVIOUS
    <2>5. Parked'  OBVIOUS
    <2>6. AnswerByState'  OBVIOUS
    <2>7. HeadByState'  OBVIOUS
    <2>8. Patience'  OBVIOUS
    <2>9. FinIsFinal'  OBVIOUS
    <2> QED BY <2>1, <2>2, <2>3, <2>4, <2>5, <2>6, <2>7, <2>8, <2>9
  <1>7. CASE RequestEnd
    BY <1>7 DEF RequestEnd, ParseRequest
  <1>8. CASE HandleRejected
    BY <1>8 DEF HandleRejected
  <1>9. CASE HandleRefused
    BY <1>9 DEF HandleRefused, Refusal
  <1>10. CASE HandleFound
    BY <1>10 DEF HandleFound
  <1>11. CASE ResponseStart
    <2> USE <1>11 DEF ResponseStart, Announced
    <2>1. FlagsOK'  OBVIOUS
    <2>2. CountsOK'  OBVIOUS
    <2>3. AgesOK'  OBVIOUS
    <2>4. QueuesOK'  OBVIOUS
    <2>5. Parked'  OBVIOUS
    <2>6. AnswerByState'
      <3>1. state' = "WRITE" /\ body_finished' /\ sent' = 0
        OBVIOUS
      <3>2. mem_out' + file_out' = 1 + content_length'
        <4>1. http_status # "unset" /\ http_status' = http_status
          OBVIOUS
        <4>2. CASE http_status = "ok"
          <5>1. body_finished' /\ mem_out' = 1 + mem_out /\ content_length' = mem_out + file_out
            BY <4>1, <4>2
          <5> QED BY <5>1
        <4>3. CASE http_status # "ok"
          <5>1. http_status' # "ok" /\ body_finished'
            BY <4>1, <4>3
          <5>2. mem_out' = 1 + (mem_out + 1)
            BY <5>1
          <5>3. content_length' = (mem_out + 1) + file_out
            BY <5>1
          <5> QED BY <5>2, <5>3
        <4> QED BY <4>2, <4>3
      <3> QED BY <3>1, <3>2
    <2>7. HeadByState'  OBVIOUS
    <2>8. Patience'  OBVIOUS
    <2>9. FinIsFinal'  OBVIOUS
    <2> QED BY <2>1, <2>2, <2>3, <2>4, <2>5, <2>6, <2>7, <2>8, <2>9
  <1>12. CASE WriteNotReady
    BY <1>12 DEF WriteNotReady
  <1>13. CASE WriteMem
    BY <1>13 DEF WriteMem, Writing, Written
  <1>14. CASE WritevWouldBlock
    BY <1>14 DEF WritevWouldBlock, Writing
  <1>15. CASE WritevBroken
    BY <1>15 DEF WritevBroken, Writing
  <1>16. CASE WriteFile
    BY <1>16 DEF WriteFile, Writing, Written
  <1>17. CASE FileNotSent
    BY <1>17 DEF FileNotSent, Writing, AwaitRoom
  <1>18. CASE FileBroken
    BY <1>18 DEF FileBroken, Writing
  <1>19. CASE ResponseEndKeepAlive
    <2> USE <1>19 DEF ResponseEndKeepAlive, Reset
    <2>1. FlagsOK'  OBVIOUS
    <2>2. CountsOK'  OBVIOUS
    <2>3. AgesOK'  OBVIOUS
    <2>4. QueuesOK'  OBVIOUS
    <2>5. Parked'  OBVIOUS
    <2>6. AnswerByState'  OBVIOUS
    <2>7. HeadByState'  OBVIOUS
    <2>8. Patience'  OBVIOUS
    <2>9. FinIsFinal'  OBVIOUS
    <2> QED BY <2>1, <2>2, <2>3, <2>4, <2>5, <2>6, <2>7, <2>8, <2>9
  <1>20. CASE ResponseEndClose
    <2> USE <1>20 DEF ResponseEndClose, Linger, Reset
    <2>1. FlagsOK'  OBVIOUS
    <2>2. CountsOK'  OBVIOUS
    <2>3. AgesOK'  BY SMTT(30)
    <2>4. QueuesOK'  OBVIOUS
    <2>5. Parked'  OBVIOUS
    <2>6. AnswerByState'  OBVIOUS
    <2>7. HeadByState'  OBVIOUS
    <2>8. Patience'  OBVIOUS
    <2>9. FinIsFinal'  OBVIOUS
    <2> QED BY <2>1, <2>2, <2>3, <2>4, <2>5, <2>6, <2>7, <2>8, <2>9
  <1>21. CASE Error
    <2> USE <1>21 DEF Error, Linger, Reset
    <2>1. FlagsOK'  OBVIOUS
    <2>2. CountsOK'  OBVIOUS
    <2>3. AgesOK'  OBVIOUS
    <2>4. QueuesOK'  OBVIOUS
    <2>5. Parked'  OBVIOUS
    <2>6. AnswerByState'  OBVIOUS
    <2>7. HeadByState'  OBVIOUS
    <2>8. Patience'  OBVIOUS
    <2>9. FinIsFinal'  OBVIOUS
    <2> QED BY <2>1, <2>2, <2>3, <2>4, <2>5, <2>6, <2>7, <2>8, <2>9
  <1>22. CASE Close
    BY <1>22 DEF Close
  <1>23. CASE Free
    BY <1>23 DEF Free
  <1>24. CASE Epilogue
    BY <1>24 DEF Epilogue
  <1> QED BY <1>1, <1>2, <1>3, <1>4, <1>5, <1>6, <1>7, <1>8, <1>9, <1>10, <1>11, <1>12,
           <1>13, <1>14, <1>15, <1>16, <1>17, <1>18, <1>19, <1>20, <1>21, <1>22, <1>23, <1>24
        DEF StateMachine

(* So do the event loop and its handlers.                                  *)
LEMMA EventLoopPreservesIInv ==
    IInv /\ (EpollWait \/ DispatchConnection \/ DispatchTimer \/ AbortOnStaleEvent) => IInv'
  <1> SUFFICES ASSUME IInv,
                      EpollWait \/ DispatchConnection \/ DispatchTimer \/ AbortOnStaleEvent
               PROVE  IInv'
    OBVIOUS
  <1> USE DEF IInv
  <1>1. CASE EpollWait
    <2>1. "HUP" \in ReadyEvents => peer # "open"
      BY DEF ReadyEvents
    <2>2. ReadyEvents \subseteq {"IN", "OUT", "ERR", "HUP"}
      BY DEF ReadyEvents
    <2> QED BY <1>1, <2>1, <2>2, BatchIsSequence DEF EpollWait
  <1>2. CASE DispatchConnection
    BY <1>2 DEF DispatchConnection, Dispatched, LongAgo
  <1>3. CASE DispatchTimer
    BY <1>3 DEF DispatchTimer, Dispatched, Aged, Min2, IdleTooLong, LingeredLongEnough
  <1>4. CASE AbortOnStaleEvent
    BY <1>4 DEF AbortOnStaleEvent, Dispatched
  <1> QED BY <1>1, <1>2, <1>3, <1>4

(* And so do time, the client and the network.                             *)
LEMMA EnvironmentPreservesIInv == IInv /\ Environment => IInv'
  <1> SUFFICES ASSUME IInv, Environment PROVE IInv'
    OBVIOUS
  <1> USE DEF IInv
  <1>1. CASE Tick
    <2> USE <1>1 DEF Tick
    <2>1. FlagsOK' /\ CountsOK' /\ QueuesOK'  OBVIOUS
    <2>2. AgesOK'  OBVIOUS
    <2>3. Parked' /\ AnswerByState' /\ HeadByState' /\ FinIsFinal'  OBVIOUS
    <2>4. Patience'
      <3>1. CASE state = "READ"
        <4>1. quiet' = quiet + 1 \/ (quiet' = quiet /\ quiet > ReadIdle)
          BY <3>1 DEF Limit
        <4>2. read_idle + lag <= quiet + MaxLag /\ read_idle <= ReadIdle + 1
          BY <3>1
        <4>3. read_idle' + lag' <= quiet' + MaxLag
          BY <4>1, <4>2
        <4> QED BY <3>1, <4>3
      <3>2. CASE state = "CLOSE"
        <4>1. quiet' = quiet + 1 \/ (quiet' = quiet /\ quiet > CloseTimeout)
          BY <3>2 DEF Limit
        <4>2. close_idle + lag <= quiet + MaxLag \/ peer # "open"
          BY <3>2
        <4>3. close_idle' + lag' <= quiet' + MaxLag \/ peer' # "open"
          BY <4>1, <4>2
        <4> QED BY <3>2, <4>3
      <3> QED BY <3>1, <3>2
    <2> QED BY <2>1, <2>2, <2>3, <2>4
  <1>2. CASE ClientSend
    BY <1>2 DEF ClientSend
  <1>3. CASE ClientRead
    BY <1>3 DEF ClientRead
  <1>4. CASE ClientFinish
    BY <1>4 DEF ClientFinish
  <1>5. CASE ClientReset
    BY <1>5 DEF ClientReset
  <1> QED BY <1>1, <1>2, <1>3, <1>4, <1>5 DEF Environment

(* It is kept when nothing changes.                                        *)
LEMMA StutterPreservesIInv == IInv /\ UNCHANGED vars => IInv'
  BY DEF IInv, vars

(* The invariant holds in every reachable state.                           *)
THEOREM Invariance == Spec => []IInv
  <1>1. IInv /\ [Next]_vars => IInv'
    BY StateMachinePreservesIInv, EventLoopPreservesIInv, EnvironmentPreservesIInv,
       StutterPreservesIInv DEF Next, WorkerStep
  <1> QED BY <1>1, InitEstablishesIInv, PTL DEF Spec

(* The invariants of the model-checked runs, for every value of the        *)
(* constants.  Every variable keeps its type.                              *)
THEOREM TypeCorrect == Spec => []TypeOK
  BY Invariance, PTL DEF IInv

(* No wake-up is lost: a parked connection is watched for what it needs.   *)
THEOREM NoLostWakeup == Spec => []WatchedForProgress
  BY Invariance, PTL DEF IInv, Parked

(* Every unit of a response is accounted for until it is over.             *)
THEOREM ResponsesExact == Spec => []ResponseExact
  BY Invariance, PTL DEF IInv

(* A response head is composed for a decided answer only.                  *)
THEOREM AnswersDecided == Spec => []AnswerDecided
  BY Invariance, PTL DEF IInv, AnswerByState

(* What is held of a head is bounded by the limit and one read.            *)
THEOREM HeadsBounded == Spec => []HeadBounded
  BY Invariance, PTL DEF IInv, HeadByState

(* Nothing follows FIN.                                                    *)
THEOREM NothingAfterFin == Spec => []FinIsFinal
  BY Invariance, PTL DEF IInv

(* The timer ends no connection that is read from or lingers more than     *)
(* MaxLag before its time, however the two clocks run.                     *)
THEOREM TimersArePatient == Spec => TimerIsPatient
  <1>1. ASSUME IInv, GivenUp, state # "WRITE"
        PROVE  quiet > Limit - MaxLag \/ (state = "CLOSE" /\ peer # "open")
    <2> USE <1>1
    <2>1. \/ state = "READ" /\ read_idle' > ReadIdle
          \/ state = "CLOSE" /\ close_idle' > CloseTimeout
      BY DEF GivenUp, DispatchTimer, IdleTooLong, LingeredLongEnough
    <2>2. CASE state = "READ"
      <3>1. read_idle + lag > ReadIdle
        BY <2>1, <2>2 DEF GivenUp, DispatchTimer, Aged, IInv
      <3>2. Limit = ReadIdle
        BY <2>2 DEF Limit
      <3> QED BY <2>2, <3>1, <3>2 DEF IInv
    <2>3. CASE state = "CLOSE"
      <3>1. close_idle + lag > CloseTimeout
        BY <2>1, <2>3 DEF GivenUp, DispatchTimer, Aged, IInv
      <3>2. Limit = CloseTimeout
        BY <2>3 DEF Limit
      <3> QED BY <2>3, <3>1, <3>2 DEF IInv
    <2> QED BY <2>1, <2>2, <2>3
  <1>2. IInv /\ [Next]_vars =>
          [GivenUp /\ state # "WRITE" =>
              quiet > Limit - MaxLag \/ (state = "CLOSE" /\ peer # "open")]_vars
    BY <1>1
  <1> QED BY <1>2, Invariance, PTL DEF Spec, TimerIsPatient

=============================================================================
