------------------------------ MODULE AppMain ------------------------------
(***************************************************************************)
(* main and signalHandler of h264_pusher/easypusher.cpp, with the clients  *)
(* reduced to what main sees of them: runOnce and stop are calls, and stop *)
(* may never return (EasyClient says when it does).  The kernel runs       *)
(* signalHandler on any thread of the process, so it may interrupt main or *)
(* run beside it.  MonibucaMain puts the steps together.                   *)
(***************************************************************************)
EXTENDS Naturals

CONSTANTS MaxStreams,    \* bound: how many streams config.json may name
          RoundMod       \* the history of rounds is kept modulo RoundMod

ASSUME AppAssumption ==
    /\ MaxStreams \in Nat \ {0}
    /\ RoundMod \in Nat /\ RoundMod > 2

VARIABLES
    isRunning,           \* the global flag, false at start-up
    installed,           \* signal(SIGINT, signalHandler) has been called
    streams,             \* nodes.size()
    appPC,               \* where main stands
    at,                  \* the client main's current for loop is at
    client,              \* what main has done with each client
    rounds,              \* history: runOnce calls per client, mod RoundMod
    handlerPC,           \* where signalHandler stands
    handlerOn,           \* the thread it runs on: "main", "other" or "none"
    process              \* "up", or how the process has ended

appVars == <<isRunning, installed, streams, appPC, at, client, rounds,
             handlerPC, handlerOn, process>>

Clients == 1..MaxStreams

AppPC == {"load",        \* in loadJson
          "flag",        \* at isRunning = true
          "install",     \* at signal(...)
          "construct",   \* in the loop that makes the clients
          "test",        \* at while (isRunning)
          "round",       \* in the loop that calls runOnce
          "sleep",
          "stop",        \* in the loop that calls stop
          "return"}      \* at a return 0; the destructors follow

HandlerPC == {"none", "flag", "exit"}

AppInit ==
    /\ isRunning = FALSE
    /\ installed = FALSE
    /\ streams \in 0..MaxStreams
    /\ appPC = "load"
    /\ at = 1
    /\ client = [i \in Clients |-> "none"]
    /\ rounds = [i \in Clients |-> 0]
    /\ handlerPC = "none"
    /\ handlerOn = "none"
    /\ process = "up"

-----------------------------------------------------------------------------
(* main.  A handler on the main thread interrupts it and never returns.    *)

MainRuns == process = "up" /\ handlerOn # "main"

signalVars == <<handlerPC, handlerOn, process>>

\* main moves on without touching a client or the flag.
Goto(from, to) ==
    /\ MainRuns
    /\ appPC = from
    /\ appPC' = to
    /\ UNCHANGED <<isRunning, installed, streams, at, client, rounds, signalVars>>

LoadJson == Goto("load", "flag") \/ Goto("load", "return")

FlagSet == TRUE

SetRunning ==
    /\ MainRuns
    /\ appPC = "flag"
    /\ isRunning' = FlagSet
    /\ appPC' = "install"
    /\ UNCHANGED <<installed, streams, at, client, rounds, signalVars>>

InstallHandler ==
    /\ MainRuns
    /\ appPC = "install"
    /\ installed' = TRUE
    /\ appPC' = "construct"
    /\ UNCHANGED <<isRunning, streams, at, client, rounds, signalVars>>

\* One turn of a for loop over the clients: handle the one at hand, if there
\* is one, else leave the loop.
InLoop(loop) == MainRuns /\ appPC = loop /\ at <= streams

LeaveLoop(loop, to) ==
    /\ MainRuns
    /\ appPC = loop
    /\ at > streams
    /\ appPC' = to
    /\ at' = 1
    /\ UNCHANGED <<isRunning, installed, streams, client, rounds, signalVars>>

Construct ==
    /\ InLoop("construct")
    /\ client' = [client EXCEPT ![at] = "made"]
    /\ at' = at + 1
    /\ UNCHANGED <<isRunning, installed, streams, appPC, rounds, signalVars>>

\* A constructor throws (no thread can be started): main catches and returns.
ConstructThrows == InLoop("construct") /\ Goto("construct", "return")

TestRunning ==
    \/ isRunning /\ Goto("test", "round")
    \/ ~isRunning /\ Goto("test", "stop")

\* Mistake: the iterator is advanced in the loop's body as well.
NextButOne == at + 2

NextClient == at + 1

RunOnceOn ==
    /\ InLoop("round")
    /\ rounds' = [rounds EXCEPT ![at] = (@ + 1) % RoundMod]
    /\ at' = NextClient
    /\ UNCHANGED <<isRunning, installed, streams, appPC, client, signalVars>>

Sleeps == Goto("sleep", "test")

StopOne ==
    /\ InLoop("stop")
    /\ client' = [client EXCEPT ![at] = "stopped"]
    /\ at' = at + 1
    /\ UNCHANGED <<isRunning, installed, streams, appPC, rounds, signalVars>>

\* main returns: ~easy_client calls stop, and the process ends.  For clients
\* that are stopped already this is a second stop, which joins threads that
\* are gone and is not modelled any further.
MainReturns ==
    /\ MainRuns
    /\ appPC = "return"
    /\ process' = "returned"
    /\ client' = [i \in Clients |-> IF client[i] = "made" THEN "stopped"
                                                          ELSE client[i]]
    /\ UNCHANGED <<isRunning, installed, streams, appPC, at, rounds, handlerPC,
                   handlerOn>>

-----------------------------------------------------------------------------
(* SIGINT.                                                                 *)

\* It comes once; with no handler installed it ends the process.
SignalKills ==
    /\ process = "up"
    /\ ~installed
    /\ process' = "killed"
    /\ UNCHANGED <<isRunning, installed, streams, appPC, at, client, rounds,
                   handlerPC, handlerOn>>

\* Other threads than main exist once a client has been made.
SignalArrives(t) ==
    /\ process = "up"
    /\ installed
    /\ handlerPC = "none"
    /\ t = "other" => \E i \in Clients : client[i] = "made"
    /\ handlerPC' = "flag"
    /\ handlerOn' = t
    /\ UNCHANGED <<isRunning, installed, streams, appPC, at, client, rounds,
                   process>>

HandlerClears ==
    /\ process = "up"
    /\ handlerPC = "flag"
    /\ isRunning' = FALSE
    /\ handlerPC' = "exit"
    /\ UNCHANGED <<installed, streams, appPC, at, client, rounds, handlerOn,
                   process>>

\* Mistake: the handler leaves everything to the loop in main.
HandlerReturns ==
    /\ process = "up"
    /\ handlerPC = "exit"
    /\ handlerOn # "none"
    /\ handlerOn' = "none"
    /\ UNCHANGED <<isRunning, installed, streams, appPC, at, client, rounds,
                   handlerPC, process>>

\* exit ends the process; main's clients are not destroyed by it.
HandlerExits ==
    /\ process = "up"
    /\ handlerPC = "exit"
    /\ process' = "exited"
    /\ UNCHANGED <<isRunning, installed, streams, appPC, at, client, rounds,
                   handlerPC, handlerOn>>

-----------------------------------------------------------------------------

Signal == SignalKills \/ (\E t \in {"main", "other"} : SignalArrives(t))

Handler == HandlerClears \/ HandlerExits

-----------------------------------------------------------------------------
(* Properties.                                                             *)

\* Type invariant of main, its clients and the handler.
AppTypeOK ==
    /\ isRunning \in BOOLEAN
    /\ installed \in BOOLEAN
    /\ streams \in 0..MaxStreams
    /\ appPC \in AppPC
    /\ at \in 1..(streams + 1)
    /\ client \in [Clients -> {"none", "made", "stopped"}]
    /\ rounds \in [Clients -> 0..(RoundMod - 1)]
    /\ handlerPC \in HandlerPC
    /\ handlerOn \in {"none", "main", "other"}
    /\ process \in {"up", "returned", "killed", "exited"}

\* The round-robin keeps the clients in step: no client gets a second round
\* before every other has had its first, and those ahead are the first ones
\* of the list.
RoundsInStep ==
    \A i, j \in 1..streams :
        i < j => (rounds[i] + RoundMod - rounds[j]) % RoundMod \in {0, 1}

\* main neither stops a client nor returns, once it has clients at all, but
\* for the interrupt or a failed construction: the zero a global starts with
\* is never mistaken for an interrupt.
StopsForAReason ==
    /\ appPC = "stop" => handlerPC = "exit"
    /\ (\E i \in Clients : client[i] = "stopped") =>
          handlerPC = "exit" \/ appPC = "return"

\* Every client gets rounds for ever, unless the interrupt comes or main
\* returns for want of clients: a client whose runOnce sleeps delays the
\* others, it does not starve them.
EveryClientServed ==
    \A i \in Clients :
        [](appPC = "test" /\ i <= streams
             => <>((appPC = "round" /\ at = i) \/ handlerPC # "none"))

\* Once the interrupt is being handled the process ends, even if main is
\* stuck in the stop of some client.
InterruptEndsProcess == handlerPC # "none" ~> process # "up"

\* The comment in signalHandler, "clean up and close": when the handler has
\* ended the process every client main had made was stopped.
CleanShutdown ==
    process = "exited" => \A i \in Clients : client[i] # "made"
=============================================================================
