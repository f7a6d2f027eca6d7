----------------------------- MODULE EasyClient -----------------------------
(***************************************************************************)
(* One easy_client as a whole: the link (ClientLink) and the message queue *)
(* (MessageHandoff) run on the same three threads.  The websocket thread   *)
(* runs one handler at a time, onMessage among them; the main thread is    *)
(* either in its rounds or in stop, whose steps touch both parts in the    *)
(* order of the source.                                                    *)
(***************************************************************************)
EXTENDS MessageHandoff, ClientLink

clientAllVars == <<handoffVars, linkVars>>

ClientInit == HandoffInit /\ LinkInit

-----------------------------------------------------------------------------

\* The server publishes p on c: handle_read_frame hands data to the message
\* handler, if the connection carries one, in the open state only.
MessageArrives(c, p) ==
    /\ IoFree
    /\ con[c] = "open"
    /\ c \in subscribed
    /\ handled[c]
    /\ OnMessage(p)
    /\ UNCHANGED linkVars

OnMessageGoesOn ==
    /\ OnMessageLock \/ OnMessagePush
    /\ UNCHANGED linkVars

\* A handler of the link runs while onMessage does not.
LinkHandler ==
    /\ ioPC = "idle"
    /\ HandlerNext
    /\ UNCHANGED handoffVars

\* The websocket thread leaves ClientType::run.
IoThreadEnds ==
    /\ IoExit
    /\ IoRunEnds

Worker ==
    /\ WorkerStep
    /\ UNCHANGED linkVars

WorkerWakes ==
    /\ SpuriousWakeup
    /\ UNCHANGED linkVars

\* A round of main, while isRunning.
Round ==
    /\ mainPC = "running"
    /\ RoundNext
    /\ UNCHANGED handoffVars

\* Mistake: stop does not wait for the websocket thread.
JoinIoSkipped == roundPC = "join"

\* m_thread->join() may return.
JoinIoReturns == roundPC = "join" /\ ioPC = "exited"

\* stop: _isProcessing, stop_perpetual, close, and the two joins.
ClientStop ==
    \/ StopClear /\ roundPC = "loop" /\ UNCHANGED linkVars
    \/ StopPerpetual /\ mainPC = "joinIo" /\ UNCHANGED handoffVars
    \/ StopClose /\ UNCHANGED handoffVars
    \/ /\ JoinIoReturns
       /\ mainPC = "joinIo"
       /\ mainPC' = "joinWorker"
       /\ roundPC' = "joined"
       /\ UNCHANGED <<messages, isProcessing, actionLock, localMsgs, workerPC,
                      ioPC, ioMsg, received, dealt, clientVars, connectVars,
                      con, subscribed, onOpenVars, serviceVars>>
    \/ StopJoinWorker /\ UNCHANGED linkVars

ClientNext ==
    \/ \E c \in Conn, p \in Payload : MessageArrives(c, p)
    \/ OnMessageGoesOn
    \/ LinkHandler
    \/ IoThreadEnds
    \/ Worker
    \/ WorkerWakes
    \/ Round
    \/ ClientStop

ClientSpec == ClientInit /\ [][ClientNext]_clientAllVars

\* As for the two parts: running threads are scheduled, attempts and closing
\* handshakes end by their timers; no message, no stop and no spurious
\* wake-up is assumed.
ClientFairness ==
    /\ WF_clientAllVars(Worker)
    /\ WF_clientAllVars(OnMessageGoesOn)
    /\ WF_clientAllVars(IoThreadEnds)
    /\ WF_clientAllVars(ClientStop /\ mainPC # "running")
    /\ WF_clientAllVars(Round /\ roundPC # "loop")
    /\ WF_clientAllVars(LinkHandler /\ OnOpenNext)
    /\ \A c \in Conn : /\ WF_clientAllVars(LinkHandler /\ (Opens(c) \/ Fails(c)))
                       /\ WF_clientAllVars(LinkHandler /\ CloseCompletes(c))

ClientLiveSpec == ClientSpec /\ ClientFairness

-----------------------------------------------------------------------------
(* Properties.                                                             *)

\* When stop returns, and the client may be destroyed, no thread is left
\* that could touch it: no handler runs or can be called any more, whatever
\* connections the client had made, and process has returned.
NothingRunsAfterStop ==
    mainPC = "stopped" =>
        /\ ioPC = "exited" /\ ~ioRunning
        /\ workerPC = "exited"
        /\ actionLock = "free"
        /\ \A c \in Conn : con[c] \in Ended \cup {"none"}

\* After stop what is missing of the messages received is exactly what came
\* in too late for the worker's last batch: nothing is lost half-way.
StopLosesOnlyTheQueue ==
    mainPC = "stopped" => dealt \o messages = received

\* The websocket thread is joined while a connection is open: stop closes the
\* current one only, and not one that opens afterwards.
HangsOnConnection == mainPC = "joinIo" /\ \E c \in Conn : con[c] = "open"

\* The worker is joined while it sleeps on an empty queue: it went to sleep
\* before stop cleared _isProcessing, or began so late that it set it again.
HangsOnWorker ==
    mainPC = "joinWorker" /\ workerPC = "waiting" /\ messages = <<>>

\* Spurious wake-ups become rare enough for onMessage to get the lock.
WakeUpsEnd == <>[][~WorkerWakes]_clientAllVars

\* Once called, stop returns or hangs for good in one of these two joins and for
\* these two reasons; no other order of stop's steps, handlers, connection
\* attempts and messages, late ones included, keeps it waiting.
StopReturnsOrHangs ==
    WakeUpsEnd =>
        (Stopping ~> [](mainPC = "stopped" \/ HangsOnConnection \/ HangsOnWorker))

\* stop returns if, when it is about to close the connection, no other
\* connection exists and the worker is awake past its first step.  The other
\* cases are the two ways in which stop can wait for ever.
StopReturns ==
    (/\ roundPC = "close"
     /\ opening = NoConn
     /\ \A c \in Conn \ {ppConnection} : con[c] \in Ended \cup {"none"}
     /\ ~isProcessing
     /\ workerPC \notin {"begin", "toWait", "waiting"})
      ~> mainPC = "stopped"

\* The link behaves in the whole as it does alone: where ClientLink has a flag
\* of its own for the websocket thread, stop waits here for the thread that
\* onMessage and the handlers share.
RefinesLink == LinkSpec

\* Where the one main thread and the one websocket thread stand in each of
\* the two parts, and what that says of the connections.
ThreadsAgree ==
    /\ ioPC = "exited" <=> ~ioRunning
    /\ ioPC \in {"acquire", "held"} => opening = NoConn
    /\ ~ioRunning => /\ ~perpetual
                     /\ opening = NoConn
                     /\ \A c \in Conn : con[c] \in Ended \cup {"none"}
    /\ perpetual <=> ~LinkStopping
    /\ mainPC = "running" => perpetual
    /\ mainPC # "running" => roundPC = "loop" \/ LinkStopping
    /\ roundPC = "joined" <=> mainPC \in {"joinWorker", "stopped"}
    /\ roundPC = "joined" => ~ioRunning
    /\ mainPC = "stopped" => workerPC = "exited"

\* What the invariance proof adds to the properties above.
ClientInv == HandoffInv /\ LinkInv /\ ThreadsAgree
=============================================================================
