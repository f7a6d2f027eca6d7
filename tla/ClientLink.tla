----------------------------- MODULE ClientLink -----------------------------
(***************************************************************************)
(* The websocket link of one easy_client (h264_pusher/easy_client.cpp):    *)
(* the main thread's runOnce rounds and stop, the websocket (io) thread's  *)
(* onOpen, onFailed and onClose, and every connection object connect has   *)
(* created.  Connections are numbered in the order of their creation;      *)
(* comparing hdl.lock().get() is comparing numbers, because the handle a   *)
(* handler is given is always alive.                                       *)
(*                                                                         *)
(* connect asks the endpoint for the connection BEFORE it sets the         *)
(* endpoint's handlers, and the endpoint copies its handlers into a        *)
(* connection when it creates it (websocketpp/impl/endpoint_impl.hpp): the *)
(* first connection of a client carries no handler at all.                 *)
(***************************************************************************)
EXTENDS Naturals, FiniteSets

CONSTANT MaxConn        \* bound: how many connections a client may create

ASSUME LinkAssumption == MaxConn \in Nat \ {0}

Conn == 1..MaxConn
NoConn == 0             \* an empty connection_hdl

VARIABLES
    clientStatus,       \* _clientStatus
    ppConnection,       \* _ppConnection
    endpointHandlers,   \* whether the endpoint's default handlers are set
    lastConn,           \* the connection created last
    con,                \* what has become of each connection
    handled,            \* whether the connection carries the handlers
    subscribed,         \* history: the connections _subInfo was sent on
    opening,            \* the connection onOpen is running for
    onOpenPC,           \* where onOpen stands
    roundPC,            \* where the main thread stands in runOnce or stop
    perpetual,          \* the io_service has perpetual work
    ioRunning           \* m_thread is inside ClientType::run

linkVars == <<clientStatus, ppConnection, endpointHandlers, lastConn, con,
              handled, subscribed, opening, onOpenPC, roundPC, perpetual,
              ioRunning>>

\* ConnectState::Waitting exists but nothing ever sets it.
ConnectState == {"Close", "Open"}

ConState == {"none",         \* not created yet
             "made",         \* created by get_connection, not started
             "connecting",   \* resolving, connecting or in the handshake
             "open",
             "closing",      \* stop has sent a close frame on it
             "failed",       \* terminated without having opened
             "closed"}       \* terminated after having opened

Ended == {"failed", "closed"}

RoundPC == {"loop",          \* between rounds, or at the status test
            "create",        \* in connect, at get_connection
            "install",       \* in connect, at set_*_handler
            "start",         \* in connect, at _easy_client.connect
            "pause",         \* in sleep(5)
            "close",         \* in stop, at _easy_client.close
            "join",          \* in stop, at m_thread->join
            "joined"}

OnOpenPC == {"none", "store", "status", "send"}

LinkInit ==
    /\ clientStatus = "Close"
    /\ ppConnection = NoConn
    /\ endpointHandlers = FALSE
    /\ lastConn = 0
    /\ con = [c \in Conn |-> "none"]
    /\ handled = [c \in Conn |-> FALSE]
    /\ subscribed = {}
    /\ opening = NoConn
    /\ onOpenPC = "none"
    /\ roundPC = "loop"
    /\ perpetual = TRUE
    /\ ioRunning = TRUE

-----------------------------------------------------------------------------
(* runOnce and connect, on the main thread.                                *)

\* What the handlers write, what connect writes, what the io_service owns.
clientVars == <<clientStatus, ppConnection>>
connectVars == <<endpointHandlers, lastConn, handled>>
onOpenVars == <<opening, onOpenPC>>
serviceVars == <<perpetual, ioRunning>>

\* runOnce reads a closed status and is going to connect.  The status may
\* change before it does.
RunOnce ==
    /\ roundPC = "loop"
    /\ clientStatus = "Close"
    /\ lastConn < MaxConn
    /\ roundPC' = "create"
    /\ UNCHANGED <<clientVars, connectVars, con, subscribed, onOpenVars,
                   serviceVars>>

\* create_connection copies the endpoint's handlers as they are now.
CopiedHandlers == endpointHandlers

GetConnection ==
    /\ roundPC = "create"
    /\ lastConn' = lastConn + 1
    /\ con' = [con EXCEPT ![lastConn + 1] = "made"]
    /\ handled' = [handled EXCEPT ![lastConn + 1] = CopiedHandlers]
    /\ roundPC' = "install"
    /\ UNCHANGED <<clientVars, endpointHandlers, subscribed, onOpenVars,
                   serviceVars>>

\* get_connection reports an error: connect returns, runOnce sleeps.
GetConnectionFails ==
    /\ roundPC = "create"
    /\ roundPC' = "pause"
    /\ UNCHANGED <<clientVars, connectVars, con, subscribed, onOpenVars,
                   serviceVars>>

SetHandlers ==
    /\ roundPC = "install"
    /\ endpointHandlers' = TRUE
    /\ roundPC' = "start"
    /\ UNCHANGED <<clientVars, lastConn, handled, con, subscribed, onOpenVars,
                   serviceVars>>

StartConnect ==
    /\ roundPC = "start"
    /\ con' = [con EXCEPT ![lastConn] = "connecting"]
    /\ roundPC' = "pause"
    /\ UNCHANGED <<clientVars, connectVars, subscribed, onOpenVars, serviceVars>>

\* sleep(5) returns; an attempt may take three times as long.
WakeUp ==
    /\ roundPC = "pause"
    /\ roundPC' = "loop"
    /\ UNCHANGED <<clientVars, connectVars, con, subscribed, onOpenVars,
                   serviceVars>>

-----------------------------------------------------------------------------
(* The handlers, on the websocket thread, which runs one at a time.        *)

IoFree == ioRunning /\ opening = NoConn

\* The opening handshake on c completes; onOpen is called if c carries it.
Opens(c) ==
    /\ IoFree
    /\ con[c] = "connecting"
    /\ con' = [con EXCEPT ![c] = "open"]
    /\ IF handled[c] THEN opening' = c /\ onOpenPC' = "store"
                     ELSE UNCHANGED onOpenVars
    /\ UNCHANGED <<clientVars, connectVars, subscribed, roundPC, serviceVars>>

\* onOpen: _ppConnection = hdl ...
OnOpenStore ==
    /\ onOpenPC = "store"
    /\ ppConnection' = opening
    /\ onOpenPC' = "status"
    /\ UNCHANGED <<clientStatus, connectVars, con, subscribed, opening, roundPC,
                   serviceVars>>

\* ... _clientStatus = Open ...
OnOpenStatus ==
    /\ onOpenPC = "status"
    /\ clientStatus' = "Open"
    /\ onOpenPC' = "send"
    /\ UNCHANGED <<ppConnection, connectVars, con, subscribed, opening, roundPC,
                   serviceVars>>

\* Mistake: the subscription is sent once per client, not per connection.
SentOnce == IF subscribed = {} THEN {ppConnection} ELSE subscribed

SentOnCurrent ==
    IF con[ppConnection] = "open" THEN subscribed \cup {ppConnection}
                                  ELSE subscribed

\* ... and send(_ppConnection, _subInfo), which fails, and is only logged,
\* unless the connection is still open.
OnOpenSend ==
    /\ onOpenPC = "send"
    /\ subscribed' = SentOnCurrent
    /\ opening' = NoConn
    /\ onOpenPC' = "none"
    /\ UNCHANGED <<clientVars, connectVars, con, roundPC, serviceVars>>

\* hdl.lock().get() == _ppConnection.lock().get()
IsCurrent(c) == c = ppConnection

\* Mistake: the handler forgets _clientStatus.
StatusKept(c) == clientStatus

\* What onFailed and onClose leave in _clientStatus ...
StatusAfterEnd(c) ==
    IF handled[c] /\ IsCurrent(c) THEN "Close" ELSE clientStatus

\* ... and in _ppConnection.
CurrentAfterEnd(c) ==
    IF handled[c] /\ IsCurrent(c) THEN c ELSE ppConnection

\* c is terminated in state "from"; onFailed and onClose have the same body.
Ends(c, from, to) ==
    /\ IoFree
    /\ con[c] = from
    /\ con' = [con EXCEPT ![c] = to]
    /\ clientStatus' = StatusAfterEnd(c)
    /\ ppConnection' = CurrentAfterEnd(c)
    /\ UNCHANGED <<connectVars, subscribed, onOpenVars, roundPC, serviceVars>>

\* The attempt is refused or one of its three timers expires: onFailed.
Fails(c) == Ends(c, "connecting", "failed")

\* The server closes an open connection, or its loss is noticed: onClose.
DropsByPeer(c) == Ends(c, "open", "closed")

\* The close frame stop sent is answered, or its timer expires: onClose.
CloseCompletes(c) == Ends(c, "closing", "closed")

-----------------------------------------------------------------------------
(* stop, on the main thread, once the round loop is left.                  *)

\* stop_perpetual: from now on the io_service may run out of work.
StopPerpetual ==
    /\ roundPC = "loop"
    /\ perpetual' = FALSE
    /\ roundPC' = "close"
    /\ UNCHANGED <<clientVars, connectVars, con, subscribed, onOpenVars,
                   ioRunning>>

\* Mistake: stop does not close the connection.
ClosesNothing == con

\* close(_ppConnection) starts the closing handshake of an open connection;
\* its error code is ignored.
ClosesCurrent ==
    [c \in Conn |-> IF c = ppConnection /\ con[c] = "open" THEN "closing"
                                                         ELSE con[c]]

StopClose ==
    /\ roundPC = "close"
    /\ con' = ClosesCurrent
    /\ roundPC' = "join"
    /\ UNCHANGED <<clientVars, connectVars, subscribed, onOpenVars, serviceVars>>

\* run returns when no connection is left and nothing is perpetual.
IoRunEnds ==
    /\ IoFree
    /\ ~perpetual
    /\ \A c \in Conn : con[c] \in Ended \cup {"none"}
    /\ ioRunning' = FALSE
    /\ UNCHANGED <<clientVars, connectVars, con, subscribed, onOpenVars, roundPC,
                   perpetual>>

StopJoin ==
    /\ roundPC = "join"
    /\ ~ioRunning
    /\ roundPC' = "joined"
    /\ UNCHANGED <<clientVars, connectVars, con, subscribed, onOpenVars,
                   serviceVars>>

-----------------------------------------------------------------------------

RoundNext == RunOnce \/ GetConnection \/ GetConnectionFails \/ SetHandlers
             \/ StartConnect \/ WakeUp

OnOpenNext == OnOpenStore \/ OnOpenStatus \/ OnOpenSend

HandlerNext ==
    \/ OnOpenNext
    \/ \E c \in Conn : Opens(c) \/ Fails(c) \/ DropsByPeer(c)
                                 \/ CloseCompletes(c)

LinkStopNext == StopPerpetual \/ StopClose \/ IoRunEnds \/ StopJoin

LinkNext == RoundNext \/ HandlerNext \/ LinkStopNext

LinkSpec == LinkInit /\ [][LinkNext]_linkVars

\* The main thread goes on with its round or with stop, the websocket thread
\* with onOpen; an attempt ends one way or the other, because each of its
\* phases has a timer, and so does the closing handshake; get_connection,
\* whose url is valid, does not fail for ever.  That the server accepts,
\* keeps or ends a connection is not assumed, nor that stop is ever called.
LinkFairness ==
    /\ WF_linkVars(RunOnce)
    /\ SF_linkVars(GetConnection)
    /\ WF_linkVars(GetConnectionFails \/ SetHandlers \/ StartConnect \/ WakeUp)
    /\ WF_linkVars(StopClose \/ StopJoin)
    /\ WF_linkVars(OnOpenNext)
    /\ WF_linkVars(IoRunEnds)
    /\ \A c \in Conn : /\ WF_linkVars(Opens(c) \/ Fails(c))
                        /\ WF_linkVars(CloseCompletes(c))

LinkLiveSpec == LinkSpec /\ LinkFairness

-----------------------------------------------------------------------------
(* Properties.                                                             *)

LinkTypeOK ==
    /\ clientStatus \in ConnectState
    /\ ppConnection \in Conn \cup {NoConn}
    /\ endpointHandlers \in BOOLEAN
    /\ lastConn \in Conn \cup {0}
    /\ con \in [Conn -> ConState]
    /\ handled \in [Conn -> BOOLEAN]
    /\ subscribed \subseteq Conn
    /\ opening \in Conn \cup {NoConn}
    /\ onOpenPC \in OnOpenPC
    /\ roundPC \in RoundPC
    /\ perpetual \in BOOLEAN
    /\ ioRunning \in BOOLEAN

Alive(c) == con[c] \in {"open", "closing"}

\* _clientStatus says Open exactly while the connection in _ppConnection is
\* alive, but for the moment inside onOpen between its two assignments:
\* whatever the order in which overlapping attempts open, fail and close,
\* the handle comparison never leaves the status behind.
StatusMatchesConnection ==
    /\ clientStatus = "Open" => ppConnection # NoConn /\ Alive(ppConnection)
    /\ clientStatus = "Close" /\ onOpenPC # "status"
          => ppConnection = NoConn \/ ~Alive(ppConnection)

\* The current connection is never one that failed to open: onFailed's
\* assignment to _ppConnection can only store what is there already.
CurrentHasOpened ==
    ppConnection # NoConn =>
        /\ handled[ppConnection]
        /\ con[ppConnection] \in {"open", "closing", "closed"}

\* Every connection that carries the handlers and is open has been sent the
\* subscription, unless onOpen is still at work on it.
OpenIsSubscribed ==
    \A c \in Conn : con[c] = "open" /\ handled[c] =>
                       c \in subscribed \/ c = opening

\* The first connection, and no other, carries no handler: the client hears
\* nothing on it, neither its opening nor its end, and sends nothing.
OnlyFirstIsDeaf ==
    /\ \A c \in 1..lastConn : handled[c] <=> c # 1
    /\ 1 \notin subscribed

\* Only the end of the current connection may turn the status to Close.
OnlyCurrentCloses ==
    [][clientStatus = "Open" /\ clientStatus' = "Close"
         => /\ Alive(ppConnection)
            /\ con'[ppConnection] = "closed"
            /\ ppConnection' = ppConnection]_linkVars

\* What the invariance proof adds to the properties above.
LinkInv ==
    /\ LinkTypeOK
    /\ StatusMatchesConnection
    /\ CurrentHasOpened
    /\ OpenIsSubscribed
    /\ OnlyFirstIsDeaf
    /\ onOpenPC = "none" <=> opening = NoConn
    /\ opening # NoConn => handled[opening] /\ Alive(opening)
    /\ onOpenPC \in {"status", "send"} => ppConnection = opening
    /\ onOpenPC = "send" => clientStatus = "Open"
    /\ \A c \in Conn : con[c] = "none" <=> c > lastConn
    /\ \A c \in Conn : c > lastConn => ~handled[c]
    /\ \A c \in Conn :
          con[c] = "made" <=> c = lastConn /\ roundPC \in {"install", "start"}
    /\ roundPC = "create" => lastConn < MaxConn
    /\ roundPC \in {"install", "start"} => lastConn # 0
    /\ endpointHandlers <=> lastConn > 1 \/ (lastConn = 1 /\ roundPC # "install")

LinkStopping == roundPC \in {"close", "join", "joined"}

Streaming == \E c \in subscribed : con[c] = "open"

\* A client without a subscribed connection gets one in the end, or uses up
\* every attempt it is allowed here; in particular the deaf first connection
\* does not keep it from connecting again.
KeepsTrying ==
    ~Streaming ~> (Streaming \/ LinkStopping \/ lastConn = MaxConn)

\* stop's join of the websocket thread returns if at that moment there is no
\* connection besides the current one.  It is all stop can promise: a deaf
\* or superseded connection is closed by nobody.
StopJoinsWithoutOrphans ==
    (/\ roundPC = "close"
     /\ opening = NoConn
     /\ \A c \in Conn \ {ppConnection} : con[c] \in Ended \cup {"none"})
      ~> roundPC = "joined"
=============================================================================
