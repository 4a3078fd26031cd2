------------------------ MODULE ConnectionRefinement ------------------------
(***************************************************************************)
(* The connection state machine implements HttpSession: every one of its   *)
(* steps is a step of the session, or does not concern it.                 *)
(***************************************************************************)
EXTENDS ConnectionProofs

USE SizeAssumption, TimeAssumption
    DEF States, Statuses, Tokens, Rejected, Never, Expired, Closed, Pending,
        Running, Goto, Stay, Min2,
        requestVars, responseVars, clockVars, loopVars, socketVars,
        TypeOK, FlagsOK, CountsOK, AgesOK, QueuesOK,
        Parked, WatchedForProgress, AnswerByState, Unanswered, AnswerDecided, ResponseExact,
        HeadByState, HeadBounded, Patience, FinIsFinal,
        SessionPhase, SessionOwed

SessionVars == <<SessionPhase, SessionOwed>>

(* A fresh connection is a fresh session.                                  *)
LEMMA InitImplements == Init => Session!Init
  BY DEF Init, Session!Init

(* Reading and deciding happen within the session's reading phase, until   *)
(* the head of the response is composed.                                   *)
LEMMA ReadingImplements ==
    ASSUME IInv, IInv',
           \/ RequestStart \/ ReadNotReady \/ ReadFails \/ ReadNothing \/ ReadEof
           \/ ReadData \/ RequestEnd \/ HandleRejected \/ HandleRefused \/ HandleFound
           \/ ResponseStart
    PROVE  Session!Next \/ UNCHANGED SessionVars
  <1> USE DEF IInv, SessionVars
  <1>1. ASSUME RequestStart PROVE UNCHANGED SessionVars
    BY <1>1 DEF RequestStart
  <1>2. ASSUME ReadNotReady PROVE UNCHANGED SessionVars
    BY <1>2 DEF ReadNotReady
  <1>3. ASSUME ReadFails PROVE Session!Linger
    BY <1>3 DEF ReadFails, Reading, Session!Linger
  <1>4. ASSUME ReadNothing PROVE UNCHANGED SessionVars
    BY <1>4 DEF ReadNothing, Reading
  <1>5. ASSUME ReadEof PROVE Session!Linger
    BY <1>5 DEF ReadEof, Reading, Session!Linger
  <1>6. ASSUME ReadData PROVE UNCHANGED SessionVars
    BY <1>6 DEF ReadData, Reading
  <1>7. ASSUME RequestEnd PROVE UNCHANGED SessionVars
    BY <1>7 DEF RequestEnd
  <1>8. ASSUME HandleRejected PROVE UNCHANGED SessionVars
    BY <1>8 DEF HandleRejected
  <1>9. ASSUME HandleRefused PROVE UNCHANGED SessionVars
    BY <1>9 DEF HandleRefused
  <1>10. ASSUME HandleFound PROVE UNCHANGED SessionVars
    BY <1>10 DEF HandleFound
  <1>11. ASSUME ResponseStart PROVE Session!BeginResponse
    BY <1>11 DEF ResponseStart, Announced, Session!BeginResponse
  <1> QED BY <1>1, <1>2, <1>3, <1>4, <1>5, <1>6, <1>7, <1>8, <1>9, <1>10, <1>11 DEF Session!Next

(* Writing sends part of what is owed.                                     *)
LEMMA WritingImplements ==
    ASSUME IInv, IInv',
           \/ WriteNotReady \/ WriteMem \/ WritevWouldBlock \/ WritevBroken \/ WriteFile
           \/ FileNotSent \/ FileBroken \/ ResponseEndKeepAlive \/ ResponseEndClose
    PROVE  Session!Next \/ UNCHANGED SessionVars
  <1> USE DEF IInv, SessionVars
  <1>1. ASSUME WriteNotReady PROVE UNCHANGED SessionVars
    BY <1>1 DEF WriteNotReady
  <1>2. ASSUME WriteMem PROVE Session!Send
    BY <1>2 DEF WriteMem, Writing, Written, Session!Send
  <1>3. ASSUME WritevWouldBlock PROVE Session!Linger
    BY <1>3 DEF WritevWouldBlock, Writing, Session!Linger
  <1>4. ASSUME WritevBroken PROVE Session!Linger
    BY <1>4 DEF WritevBroken, Writing, Session!Linger
  <1>5. ASSUME WriteFile PROVE Session!Send
    BY <1>5 DEF WriteFile, Writing, Written, Session!Send
  <1>6. ASSUME FileNotSent PROVE UNCHANGED SessionVars
    BY <1>6 DEF FileNotSent, Writing
  <1>7. ASSUME FileBroken PROVE Session!Linger
    BY <1>7 DEF FileBroken, Writing, Session!Linger
  <1>8. ASSUME ResponseEndKeepAlive PROVE Session!AwaitNext
    BY <1>8 DEF ResponseEndKeepAlive, Reset, Session!AwaitNext
  <1>9. ASSUME ResponseEndClose PROVE Session!Linger
    BY <1>9 DEF ResponseEndClose, Linger, Reset, Session!Linger
  <1> QED BY <1>1, <1>2, <1>3, <1>4, <1>5, <1>6, <1>7, <1>8, <1>9 DEF Session!Next

(* Lingering ends with the release of the connection.                      *)
LEMMA LingeringImplements ==
    ASSUME IInv, IInv',
           \/ Error \/ Close \/ Free \/ Epilogue
    PROVE  Session!Next \/ UNCHANGED SessionVars
  <1> USE DEF IInv, SessionVars
  <1>1. ASSUME Error PROVE UNCHANGED SessionVars
    BY <1>1 DEF Error, Linger, Reset
  <1>2. ASSUME Close PROVE UNCHANGED SessionVars
    BY <1>2 DEF Close
  <1>3. ASSUME Free PROVE Session!Release
    BY <1>3 DEF Free, Session!Release
  <1>4. ASSUME Epilogue PROVE UNCHANGED SessionVars
    BY <1>4 DEF Epilogue
  <1> QED BY <1>1, <1>2, <1>3, <1>4 DEF Session!Next

(* Events either leave the session alone or make it linger.                *)
LEMMA EventLoopImplements ==
    ASSUME IInv, IInv',
           \/ EpollWait \/ DispatchConnection \/ DispatchTimer \/ AbortOnStaleEvent
    PROVE  Session!Next \/ UNCHANGED SessionVars
  <1> USE DEF IInv, SessionVars
  <1>1. ASSUME EpollWait PROVE UNCHANGED SessionVars
    BY <1>1 DEF EpollWait
  <1>2. ASSUME DispatchConnection PROVE Session!Linger \/ UNCHANGED SessionVars
    BY <1>2 DEF DispatchConnection, Session!Linger
  <1>3. ASSUME DispatchTimer PROVE Session!Linger \/ UNCHANGED SessionVars
    BY <1>3 DEF DispatchTimer, Session!Linger
  <1>4. ASSUME AbortOnStaleEvent PROVE UNCHANGED SessionVars
    BY <1>4 DEF AbortOnStaleEvent
  <1> QED BY <1>1, <1>2, <1>3, <1>4 DEF Session!Next

(* The environment is not seen.                                            *)
LEMMA EnvironmentImplements ==
    ASSUME IInv, IInv',
           \/ Tick \/ ClientSend \/ ClientRead \/ ClientFinish \/ ClientReset
    PROVE  Session!Next \/ UNCHANGED SessionVars
  <1> USE DEF IInv, SessionVars
  <1>1. ASSUME Tick PROVE UNCHANGED SessionVars
    BY <1>1 DEF Tick
  <1>2. ASSUME ClientSend PROVE UNCHANGED SessionVars
    BY <1>2 DEF ClientSend
  <1>3. ASSUME ClientRead PROVE UNCHANGED SessionVars
    BY <1>3 DEF ClientRead
  <1>4. ASSUME ClientFinish PROVE UNCHANGED SessionVars
    BY <1>4 DEF ClientFinish
  <1>5. ASSUME ClientReset PROVE UNCHANGED SessionVars
    BY <1>5 DEF ClientReset
  <1> QED BY <1>1, <1>2, <1>3, <1>4, <1>5 DEF Session!Next

(* Every behaviour of the connection is, through the mapping, a behaviour  *)
(* of the session.                                                         *)
THEOREM Refinement == Spec => ImplementsSession
  <1>1. IInv /\ IInv' /\ [Next]_vars => [Session!Next]_(Session!vars)
    <2> SUFFICES ASSUME IInv, IInv', [Next]_vars
                 PROVE  Session!Next \/ UNCHANGED SessionVars
      BY DEF Session!vars, SessionVars
    <2>1. CASE Next
      BY <2>1, ReadingImplements, WritingImplements, LingeringImplements, EventLoopImplements,
         EnvironmentImplements
         DEF Next, WorkerStep, StateMachine, Environment
    <2>2. CASE UNCHANGED vars
      BY <2>2 DEF vars, SessionVars
    <2> QED BY <2>1, <2>2
  <1> QED BY <1>1, InitImplements, Invariance, PTL DEF Spec, ImplementsSession, Session!Spec
=============================================================================
