---------------------------- MODULE WsConnection ----------------------------
(***************************************************************************)
(* One client connection of websocketpp over asio, as the programs use it: *)
(* no TLS, no proxy, no extensions, one thread in io_service::run (the     *)
(* websocket thread), which runs one completion handler at a time, and     *)
(* another (main) that may call connection::close.                         *)
(*                                                                         *)
(* A step is a completion handler with all it calls, the write queue and   *)
(* the handlers of the user included.  connection::close is several steps: *)
(* it holds m_connection_state_lock, but terminate does not take it; and   *)
(* pong is two, because it lets go of that lock before it queues the frame.*)
(* m_internal_state follows the operation in flight and has no variable.   *)
(* The post-init and the shutdown timers are left out, because without TLS *)
(* what they guard completes inside the call that sets them.               *)
(***************************************************************************)
EXTENDS Naturals, Sequences

CONSTANTS MainCloses,      \* whether main calls close
          BadExtensions,   \* whether the server may answer with a
                           \* Sec-WebSocket-Extensions that does not parse
          MaxQueue         \* bound: pings, and close frames that come while
                           \* closing, are answered while fewer frames are
                           \* queued, fewer calls of write_frame, and fewer
                           \* timers abandoned

ASSUME ConnectionAssumption ==
    /\ MainCloses \in BOOLEAN
    /\ BadExtensions \in BOOLEAN
    /\ MaxQueue \in Nat

VARIABLES
    state,             \* m_state
    setup,             \* the operation in flight before the connection opens
    timers,            \* what has become of each timer
    abandoned,         \* how many close handshake timers still run that a
                       \* later one has taken the place of
    handshakeTimer,    \* the timer m_handshake_timer points to
    shut,              \* the socket was shut down
    wasClean,          \* m_was_clean
    sendQueue,         \* m_send_queue
    currentMsgs,       \* m_current_msgs, in flight if not empty
    writeFlag,         \* m_write_flag
    posted,            \* calls of write_frame in the io_service's queue
    reading,           \* an async read of frames is in flight
    answering,         \* the websocket thread is in pong, past its check
    closePC,           \* where main stands in close
    closeQueued,       \* history: a close frame was queued
    afterClose,        \* history: how many other frames were queued after one
    opens, fails, closes   \* history: calls of the user's handlers

historyVars == <<closeQueued, afterClose>>
writeVars == <<sendQueue, currentMsgs, writeFlag, posted, historyVars>>
termVars == <<state, shut, timers, handshakeTimer, fails, closes>>
frameVars == <<reading, answering, closePC, abandoned>>
connectionVars == <<termVars, setup, wasClean, writeVars, frameVars, opens>>

States == {"connecting", "open", "closing", "closed"}
Setups == {"new", "resolve", "connect", "write", "read", "none"}

\* "close" is the close handshake timer that was set last.
Timers == {"dns", "tcp", "open", "close"}

TimerStates == {"off",       \* not set, or cancelled in time
                "armed",
                "late",      \* past its deadline, cancel still works
                "expired",   \* its handler is queued and cannot be cancelled
                "ran"}

Running == {"armed", "late", "expired"}

\* A terminal close frame ("end") drops the connection once it is written.
Frames == {"data", "close", "end"}

ConnectionInit ==
    /\ state = "connecting"
    /\ setup = "new"
    /\ timers = [t \in Timers |-> "off"]
    /\ handshakeTimer = "none" /\ abandoned = 0
    /\ shut = FALSE
    /\ wasClean = FALSE
    /\ sendQueue = <<>> /\ currentMsgs = <<>>
    /\ writeFlag = FALSE
    /\ posted = 0
    /\ reading = FALSE
    /\ answering = FALSE
    /\ closePC = "idle"
    /\ closeQueued = FALSE /\ afterClose = 0
    /\ opens = 0 /\ fails = 0 /\ closes = 0

-----------------------------------------------------------------------------
(* Timers and terminate.                                                   *)

Armed(t) == [timers EXCEPT ![t] = "armed"]

\* cancel has no effect on a timer whose handler is queued already.
Cancelled(tm, t) ==
    IF t # "none" /\ tm[t] \in {"armed", "late"} THEN [tm EXCEPT ![t] = "off"]
                                                 ELSE tm

\* is_neg(timer->expires_from_now())
Late(t) == timers[t] \in {"late", "expired", "ran"}

TimerPasses(t) ==
    /\ timers[t] \in {"armed", "late"}
    /\ timers' = [timers EXCEPT ![t] = IF @ = "armed" THEN "late" ELSE "expired"]
    /\ UNCHANGED <<state, shut, handshakeTimer, fails, closes, setup, wasClean,
                   writeVars, frameVars, opens>>

\* Mistake: terminate leaves the socket as it is.
SocketKept == shut

SocketShut == TRUE

\* terminate, with handle_terminate, which shutting down a plain socket calls
\* at once; tm is the state of the timers it finds.
Terminate(tm) ==
    /\ timers' = Cancelled(tm, handshakeTimer)
    /\ handshakeTimer' = "none"
    /\ state' = "closed"
    /\ shut' = SocketShut
    /\ fails' = IF state = "connecting" THEN fails + 1 ELSE fails
    /\ closes' = IF state \in {"open", "closing"} THEN closes + 1 ELSE closes

\* The handler of an expired timer; all of them end in terminate.
TimerRuns(t) ==
    /\ timers[t] = "expired"
    /\ Terminate([timers EXCEPT ![t] = "ran"])
    /\ UNCHANGED <<setup, wasClean, writeVars, frameVars, opens>>

\* The handler of a close handshake timer that nothing points to any more, and
\* so nothing can cancel.
AbandonedRuns ==
    /\ abandoned > 0
    /\ abandoned' = abandoned - 1
    /\ Terminate(timers)
    /\ UNCHANGED <<setup, wasClean, writeVars, reading, answering, closePC, opens>>

-----------------------------------------------------------------------------
(* From async_connect to the open handler.                                 *)

\* async_connect: the dns timer and async_resolve.
AsyncConnect ==
    /\ setup = "new"
    /\ setup' = "resolve"
    /\ timers' = Armed("dns")
    /\ UNCHANGED <<state, shut, handshakeTimer, fails, closes, wasClean,
                   writeVars, frameVars, opens>>

\* The handler of the operation op returns without doing anything.
SetupOver(op) ==
    /\ setup = op
    /\ setup' = "none"
    /\ UNCHANGED <<termVars, wasClean, writeVars, frameVars, opens>>

\* handle_resolve: too late, or the resolver, which all attempts of an
\* endpoint share, was cancelled by another attempt's dns timer.
ResolveCancelled == SetupOver("resolve")

HandleResolve ==
    /\ setup = "resolve"
    /\ ~Late("dns")
    /\ setup' = "connect"
    /\ timers' = [Armed("tcp") EXCEPT !["dns"] = "off"]
    /\ UNCHANGED <<state, shut, handshakeTimer, fails, closes, wasClean,
                   writeVars, frameVars, opens>>

\* Resolving or connecting fails before its timer's deadline.
SetupFails(op, t) ==
    /\ setup = op
    /\ ~Late(t)
    /\ setup' = "none"
    /\ Terminate([timers EXCEPT ![t] = "off"])
    /\ UNCHANGED <<wasClean, writeVars, frameVars, opens>>

ConnectCancelled == Late("tcp") /\ SetupOver("connect")

\* Mistake: the handshake gets no timer.
OpenTimerForgotten == [timers EXCEPT !["tcp"] = "off"]

OpenTimerSet == [Armed("open") EXCEPT !["tcp"] = "off"]

\* handle_connect, start, and everything down to send_http_request.
HandleConnect ==
    /\ setup = "connect"
    /\ ~Late("tcp")
    /\ setup' = "write"
    /\ timers' = OpenTimerSet
    /\ handshakeTimer' = "open"
    /\ UNCHANGED <<state, shut, fails, closes, wasClean, writeVars,
                   frameVars, opens>>

\* handle_send_http_request
RequestSent ==
    /\ setup = "write"
    /\ setup' = IF state = "closed" THEN "none" ELSE "read"
    /\ UNCHANGED <<termVars, wasClean, writeVars, frameVars, opens>>

\* The request cannot be written, the response cannot be read, does not
\* parse, or is not the handshake's answer: terminate.
HandshakeFails ==
    /\ setup \in {"write", "read"}
    /\ setup' = "none"
    /\ Terminate(timers)
    /\ UNCHANGED <<wasClean, writeVars, frameVars, opens>>

ResponseIgnored == state = "closed" /\ SetupOver("read")

\* write_push
WritePush(f) ==
    /\ sendQueue' = Append(sendQueue, f)
    /\ closeQueued' = (closeQueued \/ f # "data")
    /\ afterClose' = IF closeQueued /\ f = "data" THEN afterClose + 1 ELSE afterClose

\* Whether write_frame must be posted.
\* Mistake: the queue is looked at before the push.
NeedsWritingBefore(q) == ~writeFlag /\ sendQueue # <<>>

NeedsWriting(q) == ~writeFlag /\ q # <<>>

\* write_push, and write_frame if nobody is writing.
Push(f) ==
    /\ WritePush(f)
    /\ posted' = IF NeedsWriting(sendQueue') THEN posted + 1 ELSE posted
    /\ UNCHANGED <<currentMsgs, writeFlag>>

\* Mistake: the response is taken whatever has happened meanwhile.
AnyState == TRUE

StillConnecting == state = "connecting"

\* handle_read_http_response with a valid response: the open handler, which
\* sends the subscription, and the first read of frames.
Opens ==
    /\ setup = "read"
    /\ StillConnecting
    /\ setup' = "none"
    /\ timers' = Cancelled(timers, handshakeTimer)
    /\ handshakeTimer' = "none"
    /\ state' = "open"
    /\ opens' = opens + 1
    /\ Push("data")
    /\ reading' = TRUE
    /\ UNCHANGED <<shut, fails, closes, wasClean, answering, closePC, abandoned>>

\* The same when the extensions do not parse: the connection is terminated,
\* and the function goes on.
OpensTerminated ==
    /\ BadExtensions
    /\ setup = "read"
    /\ StillConnecting
    /\ setup' = "none"
    /\ timers' = Cancelled(timers, handshakeTimer)
    /\ handshakeTimer' = "none"
    /\ shut' = SocketShut
    /\ fails' = fails + 1
    /\ state' = "open"
    /\ opens' = opens + 1
    /\ Push("data")
    /\ reading' = TRUE
    /\ UNCHANGED <<closes, wasClean, answering, closePC, abandoned>>

-----------------------------------------------------------------------------
(* Frames from the server.                                                 *)

\* main is inside close and holds m_connection_state_lock.
Locked == closePC \notin {"idle", "done"}

\* handle_read_frame with an error: the stream has ended or broke.
FrameEnds ==
    /\ reading
    /\ reading' = FALSE
    /\ Terminate(timers)
    /\ UNCHANGED <<setup, wasClean, writeVars, answering, closePC, abandoned, opens>>

\* Mistake: a ping is answered in any state.
PingInAnyState == state # "connecting"

PingAnswered == state = "open"

\* process_control_frame with a ping, and pong's check of the state.
Ping ==
    /\ reading
    /\ ~Locked
    /\ PingAnswered
    /\ Len(sendQueue) < MaxQueue /\ posted < MaxQueue
    /\ answering' = TRUE
    /\ UNCHANGED <<termVars, setup, wasClean, writeVars, reading, closePC, abandoned,
                   opens>>

\* The rest of pong.
Pong ==
    /\ answering
    /\ answering' = FALSE
    /\ Push("data")
    /\ UNCHANGED <<termVars, setup, wasClean, reading, closePC, abandoned, opens>>

\* Mistake: a close handshake timer that is running is set anew.
CloseTimerRestarted ==
    /\ timers' = Armed("close")
    /\ handshakeTimer' = "close"
    /\ UNCHANGED abandoned

\* The close handshake timer of send_close_frame takes the place of the one
\* before it, which keeps running.
CloseTimerSet ==
    /\ timers' = Armed("close")
    /\ handshakeTimer' = "close"
    /\ abandoned' = IF timers["close"] \in Running THEN abandoned + 1 ELSE abandoned

\* send_close_frame as the websocket thread runs it.
SendCloseFrame(f) ==
    /\ state' = "closing"
    /\ CloseTimerSet
    /\ Push(f)
    /\ UNCHANGED <<shut, fails, closes>>

\* The bound on the close frames answered while closing.
MayAnswer == Len(sendQueue) < MaxQueue /\ posted < MaxQueue /\ abandoned < MaxQueue

\* process_control_frame with a close frame.  Any is acknowledged in state
\* open, and one with a bad code or reason in state closing, too, as often as
\* it comes; another is the server's acknowledgement, or ignored.
CloseFrame ==
    /\ reading
    /\ wasClean' = TRUE
    /\ \/ state = "open" /\ SendCloseFrame("close")
       \/ state = "closing" /\ MayAnswer /\ SendCloseFrame("close")
       \/ /\ state = "closing" /\ ~wasClean
          /\ UNCHANGED <<termVars, writeVars, abandoned>>
    /\ UNCHANGED <<setup, reading, answering, closePC, opens>>

\* Bytes that consume rejects: close, and no further read.
BadFrame ==
    /\ reading
    /\ ~Locked
    /\ reading' = FALSE
    /\ \/ state = "open" /\ SendCloseFrame("end")
       \/ state # "open" /\ Terminate(timers) /\ UNCHANGED <<writeVars, abandoned>>
    /\ UNCHANGED <<setup, wasClean, answering, closePC, opens>>

-----------------------------------------------------------------------------
(* The write queue.                                                        *)

\* write_frame takes the first n frames: all up to a terminal one.
IsBatch(n) ==
    /\ \A i \in 1..(n - 1) : sendQueue[i] # "end"
    /\ n = Len(sendQueue) \/ sendQueue[n] = "end"

\* write_frame
WriteFrame ==
    /\ posted > 0
    /\ posted' = posted - 1
    /\ \/ /\ writeFlag \/ sendQueue = <<>>
          /\ UNCHANGED <<sendQueue, currentMsgs, writeFlag>>
       \/ /\ ~writeFlag
          /\ \E n \in 1..Len(sendQueue) :
               /\ IsBatch(n)
               /\ currentMsgs' = SubSeq(sendQueue, 1, n)
               /\ sendQueue' = SubSeq(sendQueue, n + 1, Len(sendQueue))
          /\ writeFlag' = TRUE
    /\ UNCHANGED <<termVars, setup, wasClean, historyVars, frameVars, opens>>

\* handle_write_frame with an error, or after a terminal frame: the write flag
\* is never released.
WriteEnds ==
    /\ currentMsgs # <<>>
    /\ currentMsgs' = <<>>
    /\ Terminate(timers)
    /\ UNCHANGED <<setup, wasClean, sendQueue, writeFlag, posted, historyVars,
                   frameVars, opens>>

\* handle_write_frame otherwise.
FrameWritten ==
    /\ currentMsgs # <<>>
    /\ currentMsgs[Len(currentMsgs)] # "end"
    /\ currentMsgs' = <<>>
    /\ writeFlag' = FALSE
    /\ posted' = IF sendQueue # <<>> THEN posted + 1 ELSE posted
    /\ UNCHANGED <<termVars, setup, wasClean, sendQueue, historyVars, frameVars, opens>>

-----------------------------------------------------------------------------
(* connection::close, called by main.                                      *)

MainAt(from, to) == closePC = from /\ closePC' = to

CloseCheck ==
    /\ MainCloses
    /\ MainAt("idle", IF state = "open" THEN "mark" ELSE "done")
    /\ UNCHANGED <<termVars, setup, wasClean, writeVars, reading, answering, abandoned,
                   opens>>

\* m_state = session::state::closing
CloseMark ==
    /\ MainAt("mark", "timer")
    /\ state' = "closing"
    /\ UNCHANGED <<shut, timers, handshakeTimer, fails, closes, setup, wasClean,
                   writeVars, reading, answering, abandoned, opens>>

CloseTimer ==
    /\ MainAt("timer", "push")
    /\ CloseTimerSet
    /\ UNCHANGED <<state, shut, fails, closes, setup, wasClean, writeVars, reading,
                   answering, opens>>

\* write_push under m_write_lock, and then dispatch without it.
ClosePush ==
    /\ WritePush("close")
    /\ MainAt("push", IF NeedsWriting(sendQueue') THEN "dispatch" ELSE "done")
    /\ UNCHANGED <<termVars, setup, wasClean, currentMsgs, writeFlag, posted,
                   reading, answering, abandoned, opens>>

CloseDispatch ==
    /\ MainAt("dispatch", "done")
    /\ posted' = posted + 1
    /\ UNCHANGED <<termVars, setup, wasClean, sendQueue, currentMsgs, writeFlag,
                   historyVars, reading, answering, abandoned, opens>>

MainStep == CloseCheck \/ CloseMark \/ CloseTimer \/ ClosePush \/ CloseDispatch

\* One completion handler of the websocket thread.
Handler ==
    /\ ~answering
    /\ \/ HandleResolve \/ ResolveCancelled \/ SetupFails("resolve", "dns")
       \/ HandleConnect \/ ConnectCancelled \/ SetupFails("connect", "tcp")
       \/ RequestSent \/ HandshakeFails \/ ResponseIgnored \/ Opens \/ OpensTerminated
       \/ FrameEnds \/ Ping \/ CloseFrame \/ BadFrame
       \/ WriteFrame \/ WriteEnds \/ FrameWritten
       \/ AbandonedRuns
       \/ \E t \in Timers : TimerRuns(t)

ConnectionNext ==
    \/ AsyncConnect
    \/ Handler
    \/ Pong
    \/ MainStep
    \/ \E t \in Timers : TimerPasses(t)

-----------------------------------------------------------------------------
(* Fairness.                                                               *)

\* An operation in flight ends once its timer has passed or the socket is
\* shut; until then the peer may keep it waiting for as long as it likes.
OperationEnds ==
    \/ Late("dns") /\ ResolveCancelled
    \/ ConnectCancelled
    \/ shut /\ (HandshakeFails \/ ResponseIgnored)

Fairness ==
    /\ \A t \in Timers : /\ WF_connectionVars(TimerPasses(t))
                         /\ WF_connectionVars(~answering /\ TimerRuns(t))
    /\ WF_connectionVars(~answering /\ AbandonedRuns)
    /\ WF_connectionVars(~answering /\ OperationEnds)
    /\ WF_connectionVars(~answering /\ shut /\ FrameEnds)
    /\ WF_connectionVars(~answering /\ shut /\ WriteEnds)
    /\ WF_connectionVars(~answering /\ WriteFrame)
    /\ WF_connectionVars(Pong)
    /\ WF_connectionVars(MainStep /\ closePC # "idle")

ConnectionSpec ==
    /\ ConnectionInit
    /\ [][ConnectionNext]_connectionVars
    /\ Fairness

-----------------------------------------------------------------------------
(* Properties.                                                             *)

\* Type invariant; m_handshake_timer never points to a timer that is not
\* running (asio/connection.hpp set_timer, terminate).
ConnectionTypeOK ==
    /\ state \in States
    /\ setup \in Setups
    /\ timers \in [Timers -> TimerStates]
    /\ handshakeTimer \in {"none", "open", "close"}
    /\ handshakeTimer # "none" => timers[handshakeTimer] # "off"
    /\ sendQueue \in Seq(Frames)
    /\ currentMsgs \in Seq(Frames)
    /\ shut \in BOOLEAN /\ wasClean \in BOOLEAN /\ writeFlag \in BOOLEAN
    /\ reading \in BOOLEAN /\ answering \in BOOLEAN
    /\ posted \in Nat
    /\ closePC \in {"idle", "mark", "timer", "push", "dispatch", "done"}
    /\ abandoned \in Nat
    /\ closeQueued \in BOOLEAN /\ afterClose \in Nat
    /\ opens \in Nat /\ fails \in Nat /\ closes \in Nat

\* The connection queues nothing behind its first close frame but more close
\* frames, however many the server provokes.  There is one exception: when main
\* calls close while pong is past its check of the state, that one answer goes
\* out behind the close frame (pong and send_close_frame, which share only the
\* write queue's lock).
OnlyClosesBehindClose == afterClose <= IF closePC = "idle" THEN 0 ELSE 1

\* As long as the socket is not shut down, a queued frame has someone to write
\* it: the write in flight, a write_frame on its way, or main about to post one.
NoForgottenWrite ==
    (sendQueue # <<>> /\ ~shut) =>
        currentMsgs # <<>> \/ posted > 0 \/ closePC = "dispatch"

\* An attempt ends with one of the user's handlers, however the peer and the
\* timers behave.
AttemptEnds == setup # "new" ~> opens + fails > 0

\* A closing handshake ends, whether or not the peer answers, and however many
\* close frames it goes on sending.
ClosingEnds == state = "closing" ~> state = "closed"

\* A connection that is closed leaves nothing in the io_service, so that
\* m_io_service.run() can return.
Quiescent ==
    /\ setup = "none" /\ ~reading /\ currentMsgs = <<>> /\ posted = 0
    /\ \A t \in Timers : timers[t] \in {"off", "ran"}
    /\ abandoned = 0

ClosedDrains == state = "closed" ~> Quiescent

\* What connection.hpp says of close_handler: it is called exactly once for
\* every connection for which the open handler was called.
ClosedOnce == closes <= opens

\* What connection.hpp says of fail_handler: either it or the open handler is
\* called for each attempt.
OpenOrFail == opens + fails <= 1

\* The connection as its user sees it implements the life cycle.
Lifecycle == INSTANCE WsLifecycle WITH
    life <- IF setup = "new" THEN "made"
            ELSE IF state = "closed" /\ opens = 0 THEN "failed" ELSE state

ImplementsLifecycle == Lifecycle!LifecycleSpec
=============================================================================
