------------------------- MODULE WsConnectionProofs -------------------------
(***************************************************************************)
(* Proofs about WsConnection, for every length of the write queue: type    *)
(* correctness, no frame without a writer, only close frames behind a      *)
(* close frame, and the life cycle the connection implements.              *)
(***************************************************************************)
EXTENDS WsConnection, SequenceTheorems, TLAPS

\* The write flag is set exactly while frames are in flight, but that a
\* connection that has ended for a write never clears it.
WriteDiscipline ==
    /\ writeFlag => currentMsgs # <<>> \/ shut
    /\ currentMsgs # <<>> => writeFlag

\* What is inductive without a condition on main or the extensions.
WriteInv == ConnectionTypeOK /\ WriteDiscipline /\ NoForgottenWrite

-----------------------------------------------------------------------------

\* Queueing a frame.
LEMMA Queued ==
    ASSUME ConnectionTypeOK, NEW f \in Frames
    PROVE  Append(sendQueue, f) \in Seq(Frames) /\ Append(sendQueue, f) # <<>>
<1>1. sendQueue \in Seq(Frames)
  BY DEF ConnectionTypeOK
<1>2. Append(sendQueue, f) \in Seq(Frames) /\ Len(Append(sendQueue, f)) = Len(sendQueue) + 1
  BY <1>1, AppendProperties
<1>3. Len(sendQueue) \in Nat
  BY <1>1, LenProperties
<1> QED
  BY <1>2, <1>3, EmptySeq

\* Taking a batch.
LEMMA Split ==
    ASSUME ConnectionTypeOK, NEW n \in 1..Len(sendQueue)
    PROVE  /\ SubSeq(sendQueue, 1, n) \in Seq(Frames)
           /\ SubSeq(sendQueue, 1, n) # <<>>
           /\ SubSeq(sendQueue, n + 1, Len(sendQueue)) \in Seq(Frames)
<1>1. sendQueue \in Seq(Frames) /\ Len(sendQueue) \in Nat
  BY LenProperties DEF ConnectionTypeOK
<1>2. \A i \in 1..Len(sendQueue) : sendQueue[i] \in Frames
  BY <1>1, ElementOfSeq
<1>3. n \in Int /\ 1 \in Int /\ n + 1 \in Int /\ Len(sendQueue) \in Int
  BY <1>1
<1>4. \A i \in 1..n : sendQueue[i] \in Frames
  BY <1>1, <1>2
<1>5. \A i \in (n + 1)..Len(sendQueue) : sendQueue[i] \in Frames
  BY <1>1, <1>2
<1>6. SubSeq(sendQueue, 1, n) \in Seq(Frames) /\ Len(SubSeq(sendQueue, 1, n)) = n
  <2>1. /\ SubSeq(sendQueue, 1, n) \in Seq(Frames)
        /\ Len(SubSeq(sendQueue, 1, n)) = IF 1 <= n THEN n - 1 + 1 ELSE 0
    BY <1>3, <1>4, SubSeqProperties
  <2> QED
    BY <1>3, <2>1
<1>7. SubSeq(sendQueue, n + 1, Len(sendQueue)) \in Seq(Frames)
  BY <1>3, <1>5, SubSeqProperties
<1> QED
  BY <1>6, <1>7, EmptySeq

\* terminate keeps the types it is given.
LEMMA Terminates ==
    ASSUME ConnectionTypeOK, NEW tm \in [Timers -> TimerStates], Terminate(tm)
    PROVE  /\ timers' \in [Timers -> TimerStates] /\ handshakeTimer' = "none"
           /\ state' = "closed" /\ shut' = TRUE
           /\ fails' \in Nat /\ closes' \in Nat
<1>1. Cancelled(tm, handshakeTimer) \in [Timers -> TimerStates]
  BY DEF Cancelled, TimerStates
<1> QED
  BY <1>1 DEF Terminate, SocketShut, ConnectionTypeOK

\* Every step keeps the types.
LEMMA TypeStep ==
    ASSUME ConnectionTypeOK, ConnectionNext
    PROVE  ConnectionTypeOK'
<1> DEFINE Rest == /\ setup \in Setups
                   /\ sendQueue \in Seq(Frames) /\ currentMsgs \in Seq(Frames)
                   /\ wasClean \in BOOLEAN /\ writeFlag \in BOOLEAN
                   /\ reading \in BOOLEAN /\ answering \in BOOLEAN /\ posted \in Nat
                   /\ closePC \in {"idle", "mark", "timer", "push", "dispatch", "done"}
                   /\ closeQueued \in BOOLEAN /\ afterClose \in Nat
                   /\ abandoned \in Nat /\ opens \in Nat
           Term == /\ state \in States /\ shut \in BOOLEAN
                   /\ timers \in [Timers -> TimerStates]
                   /\ handshakeTimer \in {"none", "open", "close"}
                   /\ handshakeTimer # "none" => timers[handshakeTimer] # "off"
                   /\ fails \in Nat /\ closes \in Nat
<1>0. Rest /\ Term
  BY DEF ConnectionTypeOK
<1>1. Rest' /\ Term' => ConnectionTypeOK'
  BY DEF ConnectionTypeOK
<1>2. UNCHANGED termVars => Term'
  BY <1>0 DEF termVars
<1>3. ASSUME NEW tm \in [Timers -> TimerStates], Terminate(tm)
      PROVE  Term'
  BY <1>0, <1>3, Terminates DEF States
<1>4. ASSUME NEW t \in Timers
      PROVE  /\ [timers EXCEPT ![t] = "off"] \in [Timers -> TimerStates]
             /\ [timers EXCEPT ![t] = "ran"] \in [Timers -> TimerStates]
             /\ Armed(t) \in [Timers -> TimerStates] /\ Armed(t)[t] = "armed"
  BY <1>0 DEF Armed, TimerStates
<1>5. ASSUME NEW f \in Frames, Push(f)
      PROVE  /\ sendQueue' \in Seq(Frames) /\ currentMsgs' \in Seq(Frames)
             /\ writeFlag' \in BOOLEAN /\ posted' \in Nat
             /\ closeQueued' \in BOOLEAN /\ afterClose' \in Nat
  BY <1>0, <1>5, Queued DEF Push, WritePush
<1>6. ASSUME CloseTimerSet, state' \in States, UNCHANGED <<shut, fails, closes>>
      PROVE  Term' /\ abandoned' \in Nat
  BY <1>0, <1>4, <1>6 DEF CloseTimerSet, Timers
<1>7. CASE AsyncConnect \/ HandleResolve
  <2>1. timers' \in [Timers -> TimerStates]
    BY <1>0, <1>4, <1>7 DEF AsyncConnect, HandleResolve, Armed, Timers, TimerStates
  <2>2. handshakeTimer # "none" => timers'[handshakeTimer] # "off"
    BY <1>0, <1>7 DEF AsyncConnect, HandleResolve, Armed, Timers
  <2> QED
    BY <1>0, <1>1, <1>7, <2>1, <2>2 DEF AsyncConnect, HandleResolve, Setups, writeVars,
       historyVars, frameVars
<1>8. CASE \E t \in Timers : TimerPasses(t)
  BY <1>0, <1>1, <1>8 DEF TimerPasses, TimerStates, writeVars, historyVars, frameVars
<1>9. CASE \E t \in Timers : TimerRuns(t)
  BY <1>0, <1>1, <1>3, <1>4, <1>9 DEF TimerRuns, writeVars, historyVars, frameVars
<1>10. CASE SetupFails("resolve", "dns") \/ SetupFails("connect", "tcp") \/ HandshakeFails
  <2>1. Term'
    BY <1>0, <1>3, <1>4, <1>10 DEF SetupFails, HandshakeFails, Timers
  <2> QED
    BY <1>0, <1>1, <1>10, <2>1 DEF SetupFails, HandshakeFails, Setups, writeVars,
       historyVars, frameVars
<1>11. CASE ResolveCancelled \/ ConnectCancelled \/ RequestSent \/ ResponseIgnored
  BY <1>0, <1>1, <1>2, <1>11 DEF ResolveCancelled, ConnectCancelled, RequestSent,
     ResponseIgnored, SetupOver, Setups, writeVars, historyVars, frameVars
<1>12. CASE HandleConnect
  <2>1. timers' \in [Timers -> TimerStates] /\ timers'["open"] = "armed"
    BY <1>0, <1>12 DEF HandleConnect, OpenTimerSet, Armed, Timers, TimerStates
  <2> QED
    BY <1>0, <1>1, <1>12, <2>1 DEF HandleConnect, Setups, writeVars, historyVars,
       frameVars
<1>13. CASE Opens \/ OpensTerminated
  <2>1. Cancelled(timers, handshakeTimer) \in [Timers -> TimerStates]
    BY <1>0 DEF Cancelled, TimerStates
  <2>2. /\ timers' = Cancelled(timers, handshakeTimer) /\ handshakeTimer' = "none"
        /\ setup' = "none" /\ state' = "open" /\ opens' = opens + 1 /\ reading' = TRUE
        /\ UNCHANGED <<closes, wasClean, answering, closePC, abandoned>>
    BY <1>13 DEF Opens, OpensTerminated
  <2>3. shut' \in BOOLEAN /\ fails' \in Nat
    <3>1. CASE Opens
      BY <1>0, <3>1 DEF Opens
    <3>2. CASE OpensTerminated
      BY <1>0, <3>2 DEF OpensTerminated, SocketShut
    <3> QED
      BY <1>13, <3>1, <3>2
  <2>4. /\ sendQueue' \in Seq(Frames) /\ currentMsgs' \in Seq(Frames)
        /\ writeFlag' \in BOOLEAN /\ posted' \in Nat
        /\ closeQueued' \in BOOLEAN /\ afterClose' \in Nat
    <3>1. "data" \in Frames
      BY DEF Frames
    <3>2. CASE Opens
      BY <1>5, <3>1, <3>2 DEF Opens
    <3>3. CASE OpensTerminated
      BY <1>5, <3>1, <3>3 DEF OpensTerminated
    <3> QED
      BY <1>13, <3>2, <3>3
  <2>5. Term'
    BY <1>0, <2>1, <2>2, <2>3 DEF States
  <2> QED
    BY <1>0, <1>1, <2>2, <2>4, <2>5 DEF Setups
<1>14. CASE FrameEnds \/ WriteEnds
  <2>1. Term'
    BY <1>0, <1>3, <1>14 DEF FrameEnds, WriteEnds
  <2>2. <<>> \in Seq(Frames)
    BY EmptySeq
  <2> QED
    BY <1>0, <1>1, <1>14, <2>1, <2>2 DEF FrameEnds, WriteEnds, writeVars,
       historyVars, frameVars
<1>15. CASE Ping \/ FrameWritten
  <2>1. <<>> \in Seq(Frames)
    BY EmptySeq
  <2>2. CASE Ping
    BY <1>0, <1>1, <1>2, <2>2 DEF Ping, writeVars, historyVars
  <2>3. CASE FrameWritten
    <3>1. posted' \in Nat
      BY <1>0, <2>3 DEF FrameWritten
    <3> QED
      BY <1>0, <1>1, <1>2, <2>1, <2>3, <3>1 DEF FrameWritten, historyVars,
         frameVars
  <2> QED
    BY <1>15, <2>2, <2>3
<1>16. CASE Pong
  <2>1. "data" \in Frames
    BY DEF Frames
  <2> QED
    BY <1>0, <1>1, <1>2, <1>5, <1>16, <2>1 DEF Pong
<1>17. CASE CloseFrame \/ BadFrame
  <2>1. {"close", "end"} \subseteq Frames
    BY DEF Frames
  <2>2. CASE SendCloseFrame("close") \/ SendCloseFrame("end")
    <3>1. Term' /\ abandoned' \in Nat
      BY <1>6, <2>2 DEF SendCloseFrame, States
    <3>2. /\ sendQueue' \in Seq(Frames) /\ currentMsgs' \in Seq(Frames)
          /\ writeFlag' \in BOOLEAN /\ posted' \in Nat
          /\ closeQueued' \in BOOLEAN /\ afterClose' \in Nat
      BY <1>5, <2>1, <2>2 DEF SendCloseFrame
    <3> QED
      BY <1>0, <1>1, <1>17, <3>1, <3>2 DEF CloseFrame, BadFrame
  <2>3. CASE /\ UNCHANGED <<writeVars, abandoned>>
             /\ UNCHANGED termVars \/ Terminate(timers)
    <3>1. Term'
      BY <1>0, <1>2, <1>3, <2>3
    <3> QED
      BY <1>0, <1>1, <1>17, <2>3, <3>1 DEF CloseFrame, BadFrame, writeVars, historyVars
  <2> QED
    BY <1>17, <2>2, <2>3 DEF CloseFrame, BadFrame
<1>18. CASE WriteFrame
  <2>1. /\ sendQueue' \in Seq(Frames) /\ currentMsgs' \in Seq(Frames)
        /\ writeFlag' \in BOOLEAN /\ posted' \in Nat
    <3>1. posted' \in Nat
      BY <1>0, <1>18 DEF WriteFrame
    <3>2. CASE UNCHANGED <<sendQueue, currentMsgs, writeFlag>>
      BY <1>0, <3>1, <3>2
    <3>3. CASE ~(UNCHANGED <<sendQueue, currentMsgs, writeFlag>>)
      <4>1. PICK n \in 1..Len(sendQueue) :
               /\ currentMsgs' = SubSeq(sendQueue, 1, n)
               /\ sendQueue' = SubSeq(sendQueue, n + 1, Len(sendQueue))
               /\ writeFlag' = TRUE
        BY <1>18, <3>3 DEF WriteFrame
      <4> QED
        BY <3>1, <4>1, Split
    <3> QED
      BY <3>2, <3>3
  <2> QED
    BY <1>0, <1>1, <1>2, <1>18, <2>1 DEF WriteFrame, historyVars, frameVars
<1>19. CASE CloseCheck \/ CloseDispatch
  BY <1>0, <1>1, <1>2, <1>19 DEF CloseCheck, CloseDispatch, MainAt, writeVars, historyVars
<1>20. CASE CloseMark
  BY <1>0, <1>1, <1>20 DEF CloseMark, MainAt, States, writeVars, historyVars
<1>21. CASE CloseTimer
  BY <1>0, <1>1, <1>6, <1>21 DEF CloseTimer, MainAt, writeVars, historyVars
<1>22. CASE ClosePush
  <2>1. sendQueue' \in Seq(Frames) /\ closeQueued' \in BOOLEAN /\ afterClose' \in Nat
    BY <1>0, <1>22, Queued DEF ClosePush, WritePush, Frames
  <2> QED
    BY <1>0, <1>1, <1>2, <1>22, <2>1 DEF ClosePush, MainAt
<1>23. CASE AbandonedRuns
  <2>1. abandoned' \in Nat
    BY <1>0, <1>23 DEF AbandonedRuns
  <2>2. Term'
    BY <1>0, <1>3, <1>23 DEF AbandonedRuns
  <2> QED
    BY <1>0, <1>1, <1>23, <2>1, <2>2 DEF AbandonedRuns, writeVars, historyVars
<1> QED
  BY <1>7, <1>8, <1>9, <1>10, <1>11, <1>12, <1>13, <1>14, <1>15, <1>16, <1>17, <1>18,
     <1>19, <1>20, <1>21, <1>22, <1>23
  DEF ConnectionNext, Handler, MainStep

-----------------------------------------------------------------------------
(* The write queue.                                                        *)

\* Queueing a frame is always followed by someone to write it.
LEMMA PushIsWritten ==
    ASSUME WriteInv, NEW f \in Frames, Push(f), shut => shut', closePC' = closePC
    PROVE  WriteDiscipline' /\ NoForgottenWrite'
<1>1. /\ UNCHANGED <<currentMsgs, writeFlag>>
      /\ posted' = IF ~writeFlag THEN posted + 1 ELSE posted
      /\ posted \in Nat
  BY Queued DEF Push, WritePush, NeedsWriting, WriteInv, ConnectionTypeOK
<1>2. posted + 1 > 0
  BY <1>1
<1> QED
  BY <1>1, <1>2 DEF WriteInv, WriteDiscipline, NoForgottenWrite

\* Every step keeps a writer for what is queued.
LEMMA WriteStep ==
    ASSUME WriteInv, ConnectionNext
    PROVE  WriteDiscipline' /\ NoForgottenWrite'
<1>0. ConnectionTypeOK /\ WriteDiscipline /\ NoForgottenWrite /\ posted \in Nat
  BY DEF WriteInv, ConnectionTypeOK
<1>1. ASSUME UNCHANGED writeVars, shut => shut', closePC = "dispatch" => closePC' = closePC
      PROVE  WriteDiscipline' /\ NoForgottenWrite'
  BY <1>0, <1>1 DEF WriteDiscipline, NoForgottenWrite, writeVars
<1>2. \A tm : Terminate(tm) => shut'
  BY DEF Terminate, SocketShut
<1>3. CASE AsyncConnect \/ HandleResolve \/ HandleConnect \/ RequestSent
           \/ ResolveCancelled \/ ConnectCancelled \/ ResponseIgnored \/ Ping
           \/ \E t \in Timers : TimerPasses(t)
  BY <1>1, <1>3 DEF AsyncConnect, HandleResolve, HandleConnect, RequestSent,
     ResolveCancelled, ConnectCancelled, ResponseIgnored, SetupOver, Ping, TimerPasses,
     termVars, frameVars
<1>4. CASE SetupFails("resolve", "dns") \/ SetupFails("connect", "tcp")
           \/ HandshakeFails \/ FrameEnds \/ AbandonedRuns
           \/ \E t \in Timers : TimerRuns(t)
  <2>1. UNCHANGED <<writeVars, closePC>>
    BY <1>4 DEF SetupFails, HandshakeFails, FrameEnds, AbandonedRuns, TimerRuns, frameVars
  <2>2. shut'
    BY <1>2, <1>4 DEF SetupFails, HandshakeFails, FrameEnds, AbandonedRuns, TimerRuns
  <2> QED
    BY <1>1, <2>1, <2>2
<1>5. CASE Opens \/ OpensTerminated \/ Pong
  <2>1. "data" \in Frames
    BY DEF Frames
  <2>2. CASE Opens
    BY <2>1, <2>2, PushIsWritten DEF Opens
  <2>3. CASE OpensTerminated
    BY <2>1, <2>3, PushIsWritten DEF OpensTerminated, SocketShut
  <2>4. CASE Pong
    BY <2>1, <2>4, PushIsWritten DEF Pong, termVars
  <2> QED
    BY <1>5, <2>2, <2>3, <2>4
<1>6. CASE CloseFrame \/ BadFrame
  <2>1. closePC' = closePC
    BY <1>6 DEF CloseFrame, BadFrame
  <2>2. CASE SendCloseFrame("close") \/ SendCloseFrame("end")
    BY <2>1, <2>2, PushIsWritten DEF SendCloseFrame, Frames
  <2>3. CASE UNCHANGED <<termVars, writeVars>>
    BY <1>1, <2>1, <2>3 DEF termVars
  <2>4. CASE Terminate(timers) /\ UNCHANGED writeVars
    BY <1>1, <1>2, <2>1, <2>4
  <2> QED
    BY <1>6, <2>2, <2>3, <2>4 DEF CloseFrame, BadFrame
<1>7. CASE WriteFrame
  <2>1. UNCHANGED <<shut, closePC>>
    BY <1>7 DEF WriteFrame, termVars, frameVars
  <2>2. CASE (writeFlag \/ sendQueue = <<>>) /\ UNCHANGED <<sendQueue, currentMsgs, writeFlag>>
    BY <1>0, <2>1, <2>2 DEF WriteDiscipline, NoForgottenWrite
  <2>3. CASE ~((writeFlag \/ sendQueue = <<>>) /\ UNCHANGED <<sendQueue, currentMsgs, writeFlag>>)
    <3>1. writeFlag' = TRUE
          /\ \E n \in 1..Len(sendQueue) : currentMsgs' = SubSeq(sendQueue, 1, n)
      BY <1>7, <2>3 DEF WriteFrame
    <3>2. currentMsgs' # <<>>
      BY <1>0, <3>1, Split
    <3> QED
      BY <3>1, <3>2 DEF WriteDiscipline, NoForgottenWrite
  <2> QED
    BY <2>2, <2>3
<1>8. CASE WriteEnds
  BY <1>0, <1>2, <1>8 DEF WriteEnds, WriteDiscipline, NoForgottenWrite
<1>9. CASE FrameWritten
  <2>1. posted + 1 > 0
    BY <1>0
  <2> QED
    BY <1>0, <1>9, <2>1 DEF FrameWritten, WriteDiscipline, NoForgottenWrite
<1>10. CASE CloseCheck \/ CloseMark \/ CloseTimer
  BY <1>1, <1>10 DEF CloseCheck, CloseMark, CloseTimer, MainAt, termVars
<1>11. CASE ClosePush
  <2>1. UNCHANGED <<shut, currentMsgs, writeFlag, posted>>
        /\ (~writeFlag => closePC' = "dispatch")
    BY <1>0, <1>11, Queued DEF ClosePush, WritePush, MainAt, NeedsWriting, termVars, Frames
  <2> QED
    BY <1>0, <2>1 DEF WriteDiscipline, NoForgottenWrite
<1>12. CASE CloseDispatch
  <2>1. posted' > 0 /\ UNCHANGED <<shut, sendQueue, currentMsgs, writeFlag>>
    BY <1>0, <1>12 DEF CloseDispatch, termVars
  <2> QED
    BY <1>0, <2>1 DEF WriteDiscipline, NoForgottenWrite
<1> QED
  BY <1>3, <1>4, <1>5, <1>6, <1>7, <1>8, <1>9, <1>10, <1>11, <1>12
  DEF ConnectionNext, Handler, MainStep

\* Types and writers, whatever main and the server do.
THEOREM WriteInvariance == ConnectionSpec => []WriteInv
<1>1. ConnectionInit => WriteInv
  <2> SUFFICES ASSUME ConnectionInit PROVE WriteInv
    OBVIOUS
  <2>1. ConnectionTypeOK
    BY EmptySeq DEF ConnectionInit, ConnectionTypeOK, States, Setups, TimerStates
  <2> QED
    BY <2>1 DEF ConnectionInit, WriteInv, WriteDiscipline, NoForgottenWrite
<1>2. WriteInv /\ [ConnectionNext]_connectionVars => WriteInv'
  <2> SUFFICES ASSUME WriteInv, [ConnectionNext]_connectionVars
               PROVE  WriteInv'
    OBVIOUS
  <2>1. CASE ConnectionNext
    BY <2>1, TypeStep, WriteStep DEF WriteInv
  <2>2. CASE UNCHANGED connectionVars
    BY <2>2 DEF connectionVars, termVars, writeVars, historyVars, frameVars, WriteInv,
       ConnectionTypeOK, WriteDiscipline, NoForgottenWrite
  <2> QED
    BY <2>1, <2>2
<1> QED
  BY <1>1, <1>2, PTL DEF ConnectionSpec

\* Type correctness; m_handshake_timer never points to a timer that is off.
THEOREM ConnectionTypeCorrect == ConnectionSpec => []ConnectionTypeOK
<1>1. WriteInv => ConnectionTypeOK
  BY DEF WriteInv
<1> QED
  BY <1>1, WriteInvariance, PTL

\* Between send, write_frame and handle_write_frame, with close on another
\* thread, no queued frame is forgotten while the socket is up.
THEOREM ConnectionForgetsNoWrite == ConnectionSpec => []NoForgottenWrite
<1>1. WriteInv => NoForgottenWrite
  BY DEF WriteInv
<1> QED
  BY <1>1, WriteInvariance, PTL

-----------------------------------------------------------------------------
(* The life cycle, where main does not call close and extensions parse.    *)

\* Before async_connect nothing is there; the open handler is called before
\* the connection can close, and not before it is open.
LifeInv ==
    /\ closePC = "idle"
    /\ setup = "new" => /\ state = "connecting" /\ ~reading /\ ~answering
                        /\ currentMsgs = <<>> /\ sendQueue = <<>> /\ abandoned = 0
                        /\ \A t \in Timers : timers[t] = "off"
    /\ state = "connecting" => opens = 0
    /\ state \in {"open", "closing"} => opens > 0

\* The life the connection has for its user.
life == IF setup = "new" THEN "made"
        ELSE IF state = "closed" /\ opens = 0 THEN "failed" ELSE state

userVars == <<life, opens, fails, closes>>

\* A step that ends the connection, from whatever state.
LEMMA EndIsLifecycleStep ==
    ASSUME ConnectionTypeOK, LifeInv, NEW tm, Terminate(tm), setup # "new", setup' # "new",
           opens' = opens, closePC' = closePC
    PROVE  LifeInv' /\ (Lifecycle!LifecycleNext \/ UNCHANGED userVars)
<1>1. /\ state \in States /\ opens \in Nat
      /\ state' = "closed"
      /\ fails' = IF state = "connecting" THEN fails + 1 ELSE fails
      /\ closes' = IF state \in {"open", "closing"} THEN closes + 1 ELSE closes
  BY DEF Terminate, ConnectionTypeOK
<1>2. LifeInv'
  BY <1>1 DEF LifeInv
<1>3. CASE state = "connecting"
  <2>1. opens = 0
    BY <1>3 DEF LifeInv
  <2> QED
    BY <1>1, <1>2, <1>3, <2>1 DEF Lifecycle!LifecycleNext, Lifecycle!Fail
<1>4. CASE state \in {"open", "closing"}
  <2>1. opens # 0
    BY <1>1, <1>4 DEF LifeInv
  <2> QED
    BY <1>1, <1>2, <1>4, <2>1 DEF Lifecycle!LifecycleNext, Lifecycle!Close
<1>5. CASE state = "closed"
  BY <1>1, <1>2, <1>5 DEF userVars, life
<1> QED
  BY <1>1, <1>3, <1>4, <1>5 DEF States

\* Every step is one of the life cycle, or one its user does not see.
LEMMA StepIsLifecycleStep ==
    ASSUME ~MainCloses, ~BadExtensions, WriteInv, LifeInv, ConnectionNext
    PROVE  LifeInv' /\ (Lifecycle!LifecycleNext \/ UNCHANGED userVars)
<1>0. ConnectionTypeOK /\ opens \in Nat /\ state \in States
      /\ timers \in [Timers -> TimerStates]
  BY DEF WriteInv, ConnectionTypeOK
<1>1. ASSUME UNCHANGED <<state, setup, opens, fails, closes, closePC>>, setup # "new"
      PROVE  LifeInv' /\ (Lifecycle!LifecycleNext \/ UNCHANGED userVars)
  BY <1>1 DEF LifeInv, userVars, life
<1>2. ASSUME UNCHANGED <<state, opens, fails, closes, closePC>>, setup # "new",
             setup' # "new"
      PROVE  LifeInv' /\ (Lifecycle!LifecycleNext \/ UNCHANGED userVars)
  BY <1>2 DEF LifeInv, userVars, life
<1>3. CASE AsyncConnect
  BY <1>3 DEF AsyncConnect, LifeInv, frameVars, Lifecycle!LifecycleNext, Lifecycle!Start
<1>4. CASE HandleResolve \/ HandleConnect
  BY <1>2, <1>4 DEF HandleResolve, HandleConnect, frameVars
<1>5. CASE RequestSent \/ ResolveCancelled \/ ConnectCancelled \/ ResponseIgnored
  BY <1>2, <1>5 DEF RequestSent, ResolveCancelled, ConnectCancelled, ResponseIgnored,
     SetupOver, termVars, frameVars
<1>6. CASE SetupFails("resolve", "dns") \/ SetupFails("connect", "tcp") \/ HandshakeFails
  BY <1>0, <1>6, EndIsLifecycleStep DEF SetupFails, HandshakeFails, frameVars
<1>7. CASE FrameEnds \/ WriteEnds
  <2>1. setup # "new" /\ setup' = setup /\ opens' = opens /\ closePC' = closePC
    BY <1>7 DEF FrameEnds, WriteEnds, LifeInv, frameVars
  <2>2. Terminate(timers)
    BY <1>7 DEF FrameEnds, WriteEnds
  <2> QED
    BY <1>0, <2>1, <2>2, EndIsLifecycleStep
<1>8. CASE \E t \in Timers : TimerRuns(t)
  <2>1. PICK t \in Timers : TimerRuns(t)
    BY <1>8
  <2>2. setup # "new" /\ setup' = setup /\ opens' = opens /\ closePC' = closePC
    BY <2>1 DEF TimerRuns, LifeInv, frameVars
  <2>3. Terminate([timers EXCEPT ![t] = "ran"])
    BY <2>1 DEF TimerRuns
  <2> QED
    BY <1>0, <2>2, <2>3, EndIsLifecycleStep
<1>9. CASE \E t \in Timers : TimerPasses(t)
  <2>1. setup # "new" /\ UNCHANGED <<state, setup, opens, fails, closes, closePC>>
    BY <1>9 DEF TimerPasses, LifeInv, frameVars
  <2> QED
    BY <1>1, <2>1
<1>10. CASE Opens
  <2>1. /\ setup = "read" /\ setup' = "none" /\ state = "connecting" /\ state' = "open"
        /\ opens' = opens + 1 /\ UNCHANGED <<fails, closes, closePC>>
    BY <1>10 DEF Opens, StillConnecting
  <2>2. opens' > 0
    BY <1>0, <2>1
  <2>3. LifeInv'
    BY <2>1, <2>2 DEF LifeInv
  <2> QED
    BY <2>1, <2>3 DEF Lifecycle!LifecycleNext, Lifecycle!Open
<1>11. ~OpensTerminated
  BY DEF OpensTerminated
<1>12. CASE Ping
  BY <1>1, <1>12 DEF Ping, LifeInv, termVars
<1>13. CASE Pong
  BY <1>1, <1>13 DEF Pong, LifeInv, termVars
<1>14. CASE CloseFrame \/ BadFrame
  <2>1. setup # "new" /\ setup' = setup /\ opens' = opens /\ closePC' = closePC
    BY <1>14 DEF CloseFrame, BadFrame, LifeInv
  <2>2. CASE state = "open" /\ (SendCloseFrame("close") \/ SendCloseFrame("end"))
    <3>1. state = "open" /\ state' = "closing" /\ UNCHANGED <<fails, closes>>
      BY <2>2 DEF SendCloseFrame
    <3>2. LifeInv'
      BY <2>1, <3>1 DEF LifeInv
    <3> QED
      BY <2>1, <3>1, <3>2 DEF Lifecycle!LifecycleNext, Lifecycle!BeginClose
  <2>3. CASE state = "closing" /\ SendCloseFrame("close")
    <3>1. UNCHANGED <<state, fails, closes>>
      BY <2>3 DEF SendCloseFrame
    <3> QED
      BY <1>1, <2>1, <3>1
  <2>4. CASE UNCHANGED <<termVars, writeVars>>
    BY <1>1, <2>1, <2>4 DEF termVars
  <2>5. CASE Terminate(timers)
    BY <1>0, <2>1, <2>5, EndIsLifecycleStep
  <2> QED
    BY <1>14, <2>2, <2>3, <2>4, <2>5 DEF CloseFrame, BadFrame
<1>15. CASE WriteFrame
  <2>1. UNCHANGED <<state, setup, opens, fails, closes, closePC, reading, answering, timers,
                  abandoned>>
    BY <1>15 DEF WriteFrame, termVars, frameVars
  <2>2. sendQueue = <<>> => sendQueue' = sendQueue /\ currentMsgs' = currentMsgs
    <3>1. sendQueue = <<>> => 1..Len(sendQueue) = {}
      OBVIOUS
    <3> QED
      BY <1>15, <3>1 DEF WriteFrame
  <2> QED
    BY <2>1, <2>2 DEF LifeInv, userVars, life
<1>16. CASE FrameWritten
  <2>1. setup # "new" /\ UNCHANGED <<state, setup, opens, fails, closes, closePC>>
    BY <1>16 DEF FrameWritten, LifeInv, termVars, frameVars
  <2> QED
    BY <1>1, <2>1
<1>17. CASE AbandonedRuns
  <2>1. setup # "new" /\ setup' = setup /\ opens' = opens /\ closePC' = closePC
    BY <1>17 DEF AbandonedRuns, LifeInv
  <2>2. Terminate(timers)
    BY <1>17 DEF AbandonedRuns
  <2> QED
    BY <1>0, <2>1, <2>2, EndIsLifecycleStep
<1>18. ~MainStep
  BY DEF MainStep, CloseCheck, CloseMark, CloseTimer, ClosePush, CloseDispatch, MainAt,
     LifeInv
<1> QED
  BY <1>3, <1>4, <1>5, <1>6, <1>7, <1>8, <1>9, <1>10, <1>11, <1>12, <1>13, <1>14,
     <1>15, <1>16, <1>17, <1>18
  DEF ConnectionNext, Handler

\* What connection.hpp promises of the handlers holds of a connection that the
\* websocket thread has for itself and whose server sends proper extensions:
\* the two conditions are those of the findings.
THEOREM ConnectionImplementsLifecycle ==
    ASSUME ~MainCloses, ~BadExtensions
    PROVE  ConnectionSpec => Lifecycle!LifecycleSafety
<1>1. ConnectionInit => LifeInv /\ Lifecycle!LifecycleInit
  BY DEF ConnectionInit, LifeInv, Lifecycle!LifecycleInit
<1>2. WriteInv /\ LifeInv /\ [ConnectionNext]_connectionVars => LifeInv'
  <2>1. UNCHANGED connectionVars /\ LifeInv => LifeInv'
    BY DEF connectionVars, termVars, writeVars, frameVars, LifeInv
  <2> QED
    BY <2>1, StepIsLifecycleStep
<1>3. WriteInv /\ LifeInv /\ [ConnectionNext]_connectionVars
        => [Lifecycle!LifecycleNext]_(Lifecycle!lifecycleVars)
  <2>1. UNCHANGED connectionVars => UNCHANGED userVars
    BY DEF connectionVars, termVars, writeVars, frameVars, userVars, life
  <2>2. UNCHANGED userVars => UNCHANGED Lifecycle!lifecycleVars
    BY DEF userVars, life, Lifecycle!lifecycleVars
  <2> QED
    BY <2>1, <2>2, StepIsLifecycleStep
<1> QED
  BY <1>1, <1>2, <1>3, WriteInvariance, PTL
  DEF ConnectionSpec, Lifecycle!LifecycleSafety

-----------------------------------------------------------------------------
(* Close frames.                                                           *)

\* No close frame is queued before the state leaves open for good, and none by
\* main before it has set the state; from then on no pong begins, so that one
\* at most can be under way, and none unless main has called close.
CloseInv ==
    /\ state \in {"connecting", "open"} => ~closeQueued /\ closePC \notin {"timer", "push"}
    /\ ~closeQueued => afterClose = 0
    /\ answering => afterClose = 0
    /\ afterClose <= 1
    /\ closePC = "idle" => /\ afterClose = 0
                           /\ answering => state = "open"

\* No step queues data behind a close frame, but for one pong.
LEMMA CloseStep ==
    ASSUME ConnectionTypeOK, CloseInv, ConnectionNext
    PROVE  CloseInv'
<1>0. state \in States /\ closeQueued \in BOOLEAN /\ afterClose \in Nat
  BY DEF ConnectionTypeOK
<1>1. ASSUME UNCHANGED <<historyVars, closePC>>,
             state' \in {"connecting", "open"} => state' = state,
             answering' => answering /\ state' = state
      PROVE  CloseInv'
  BY <1>1 DEF CloseInv, historyVars
<1>2. \A tm : Terminate(tm) => state' = "closed"
  BY DEF Terminate
<1>3. CASE AsyncConnect \/ \E t \in Timers : TimerPasses(t)
  <2>1. UNCHANGED <<historyVars, closePC, answering, state>>
    BY <1>3 DEF AsyncConnect, TimerPasses, writeVars, frameVars
  <2> QED
    BY <1>1, <2>1
<1>4. CASE ~answering /\ (\/ HandleResolve \/ ResolveCancelled \/ HandleConnect
                          \/ ConnectCancelled \/ RequestSent \/ ResponseIgnored
                          \/ WriteFrame \/ FrameWritten)
  <2>1. UNCHANGED <<historyVars, closePC, answering, state>>
    BY <1>4 DEF HandleResolve, ResolveCancelled, HandleConnect, ConnectCancelled,
       RequestSent, ResponseIgnored, WriteFrame, FrameWritten, SetupOver, termVars,
       writeVars, frameVars
  <2> QED
    BY <1>1, <2>1
<1>5. CASE ~answering /\ (\/ SetupFails("resolve", "dns") \/ SetupFails("connect", "tcp")
                          \/ HandshakeFails \/ FrameEnds \/ WriteEnds \/ AbandonedRuns
                          \/ \E t \in Timers : TimerRuns(t))
  <2>1. UNCHANGED <<historyVars, closePC, answering>> /\ state' = "closed"
    BY <1>2, <1>5 DEF SetupFails, HandshakeFails, FrameEnds, WriteEnds, AbandonedRuns,
       TimerRuns, writeVars, frameVars
  <2> QED
    BY <1>1, <1>5, <2>1
<1>6. CASE ~answering /\ (Opens \/ OpensTerminated)
  <2>1. /\ state = "connecting" /\ state' = "open"
        /\ UNCHANGED <<closePC, answering>> /\ Push("data")
    BY <1>6 DEF Opens, OpensTerminated, StillConnecting
  <2>2. UNCHANGED historyVars
    BY <1>0, <2>1 DEF CloseInv, Push, WritePush, historyVars
  <2> QED
    BY <1>6, <2>1, <2>2 DEF CloseInv, historyVars
<1>7. CASE ~answering /\ Ping
  <2>1. state = "open" /\ UNCHANGED <<historyVars, closePC, state>>
    BY <1>7 DEF Ping, PingAnswered, termVars, writeVars
  <2> QED
    BY <2>1 DEF CloseInv, historyVars
<1>8. CASE Pong
  <2>1. /\ answering /\ ~answering'
        /\ UNCHANGED <<closePC, state, closeQueued>>
        /\ afterClose' = IF closeQueued THEN afterClose + 1 ELSE afterClose
    BY <1>0, <1>8 DEF Pong, Push, WritePush, termVars
  <2>2. afterClose = 0 /\ afterClose' \in {0, 1} /\ (~closeQueued => afterClose' = 0)
    BY <2>1 DEF CloseInv
  <2> QED
    BY <1>0, <2>1, <2>2 DEF CloseInv
<1>9. CASE ~answering /\ (CloseFrame \/ BadFrame)
  <2>1. UNCHANGED <<closePC, answering>>
    BY <1>9 DEF CloseFrame, BadFrame
  <2>2. ASSUME NEW f \in {"close", "end"}, SendCloseFrame(f)
        PROVE  CloseInv'
    <3>1. state' = "closing" /\ closeQueued' /\ afterClose' = afterClose
      BY <2>2 DEF SendCloseFrame, Push, WritePush
    <3> QED
      BY <1>9, <2>1, <3>1 DEF CloseInv
  <2>3. CASE UNCHANGED <<termVars, writeVars>>
    BY <1>1, <1>9, <2>1, <2>3 DEF termVars, writeVars
  <2>4. CASE Terminate(timers) /\ UNCHANGED writeVars
    BY <1>1, <1>2, <1>9, <2>1, <2>4 DEF writeVars
  <2> QED
    BY <1>9, <2>2, <2>3, <2>4 DEF CloseFrame, BadFrame
<1>10. CASE MainStep
  <2>1. closePC' # "idle"
    BY <1>10 DEF MainStep, CloseCheck, CloseMark, CloseTimer, ClosePush, CloseDispatch,
       MainAt
  <2>2. answering' = answering
    BY <1>10 DEF MainStep, CloseCheck, CloseMark, CloseTimer, ClosePush, CloseDispatch
  <2>3. CASE CloseCheck \/ CloseDispatch
    <3>1. UNCHANGED <<state, historyVars>> /\ closePC' \in {"mark", "done"}
      BY <2>3 DEF CloseCheck, CloseDispatch, MainAt, termVars, writeVars
    <3> QED
      BY <2>1, <2>2, <3>1 DEF CloseInv, historyVars
  <2>4. CASE CloseMark
    BY <2>1, <2>2, <2>4 DEF CloseMark, CloseInv, writeVars, historyVars
  <2>5. CASE CloseTimer
    BY <2>1, <2>2, <2>5 DEF CloseTimer, MainAt, CloseInv, writeVars, historyVars
  <2>6. CASE ClosePush
    <3>1. /\ closePC = "push" /\ state' = state
          /\ closeQueued' /\ afterClose' = afterClose
      BY <2>6 DEF ClosePush, MainAt, WritePush, termVars
    <3> QED
      BY <2>1, <2>2, <3>1 DEF CloseInv
  <2> QED
    BY <1>10, <2>3, <2>4, <2>5, <2>6 DEF MainStep
<1> QED
  BY <1>3, <1>4, <1>5, <1>6, <1>7, <1>8, <1>9, <1>10 DEF ConnectionNext, Handler

\* The connection queues no data behind its close frames, however many bad ones
\* of the server it answers; with close on another thread, one pong at most
\* (send_close_frame, process_control_frame, pong).
THEOREM ConnectionClosesLast == ConnectionSpec => []OnlyClosesBehindClose
<1>1. ConnectionInit => CloseInv
  BY DEF ConnectionInit, CloseInv
<1>2. WriteInv /\ CloseInv /\ [ConnectionNext]_connectionVars => CloseInv'
  <2>1. UNCHANGED connectionVars /\ CloseInv => CloseInv'
    BY DEF connectionVars, termVars, writeVars, historyVars, frameVars, CloseInv
  <2> QED
    BY <2>1, CloseStep DEF WriteInv
<1>3. CloseInv => OnlyClosesBehindClose
  BY DEF CloseInv, OnlyClosesBehindClose
<1> QED
  BY <1>1, <1>2, <1>3, WriteInvariance, PTL DEF ConnectionSpec
=============================================================================
