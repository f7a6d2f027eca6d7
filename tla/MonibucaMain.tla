--------------------------- MODULE MonibucaMain ---------------------------
(***************************************************************************)
(* The two programs' main functions, AppMain, with what push_monibuca adds *)
(* to it: each client is a push_node, and main calls its initPusher right  *)
(* after its construction, which has started the client's threads already. *)
(* The ZLMWorker of the first client is modelled in full; those of the     *)
(* others behave alike and share nothing with it.                          *)
(***************************************************************************)
EXTENDS AppMain, ZlmWorker

VARIABLES
    program,         \* "easypusher" or "push_monibuca"
    initPC,          \* where main stands in the first client's initPusher
    connected        \* the first client's runOnce has called connect

nodeVars == <<program, initPC, connected>>
monibucaVars == <<appVars, zlmVars, nodeVars>>

InitPC == {"none", "url", "create", "video", "regist", "complete", "done"}

Push == program = "push_monibuca"

MonibucaInit ==
    /\ AppInit
    /\ ZlmInit
    /\ program \in {"easypusher", "push_monibuca"}
    /\ initPC = "none"
    /\ connected = FALSE

-----------------------------------------------------------------------------

\* make_shared<push_node>: threads and all, but the first client is not in
\* main's list before initPusher has returned.
ConstructNode ==
    /\ InLoop("construct")
    /\ Push
    /\ IF at = 1
       THEN /\ initPC = "none"
            /\ initPC' = "url"
            /\ UNCHANGED <<client, at>>
       ELSE /\ client' = [client EXCEPT ![at] = "made"]
            /\ at' = at + 1
            /\ UNCHANGED initPC
    /\ UNCHANGED <<isRunning, installed, streams, appPC, rounds, signalVars,
                   zlmVars, program, connected>>

InitStep(from, to) == MainRuns /\ initPC = from /\ initPC' = to

\* Mistake: main leaves the call out and goes on with an unset worker.
InitPusherSkipped ==
    /\ initPC = "url"
    /\ MainRuns
    /\ initPC' = "done"
    /\ client' = [client EXCEPT ![1] = "made"]
    /\ at' = 2
    /\ UNCHANGED <<isRunning, installed, streams, appPC, rounds, signalVars,
                   zlmVars, program, connected>>

\* push_node::initPusher, then clients.push_back.
InitPusher ==
    /\ \/ InitStep("url", "create") /\ SetPushUrl
       \/ InitStep("create", "video") /\ MediaCreate
       \/ InitStep("video", "regist") /\ MediaStep("created", "video")
       \/ InitStep("regist", "complete") /\ MediaStep("video", "watched")
       \/ InitStep("complete", "done") /\ MediaStep("watched", "complete")
    /\ IF initPC' = "done"
       THEN client' = [client EXCEPT ![1] = "made"] /\ at' = 2
       ELSE UNCHANGED <<client, at>>
    /\ UNCHANGED <<isRunning, installed, streams, appPC, rounds, signalVars,
                   program, connected>>

\* main's steps that are the same in both programs.
CommonStep ==
    /\ \/ LoadJson \/ SetRunning \/ InstallHandler
       \/ LeaveLoop("construct", "test")
       \/ TestRunning \/ LeaveLoop("round", "sleep") \/ Sleeps
       \/ ~Push /\ Construct
       \/ initPC \in {"none", "done"} /\ ConstructThrows
    /\ UNCHANGED <<zlmVars, nodeVars>>

RoundStep ==
    /\ RunOnceOn
    /\ connected' = (connected \/ (Push /\ at = 1))
    /\ UNCHANGED <<zlmVars, program, initPC>>

MonibucaMainStep == CommonStep \/ RoundStep \/ ConstructNode \/ InitPusher

StopStep ==
    /\ StopOne \/ LeaveLoop("stop", "return")
    /\ UNCHANGED <<zlmVars, nodeVars>>

\* main returns; ~push_node stops a client that is not stopped yet and takes
\* its ZLMWorker with it.  What a second stop does is not modelled.
ReturnStep ==
    /\ MainReturns
    /\ IF Push /\ client[1] = "made" THEN Destroy ELSE UNCHANGED zlmVars
    /\ UNCHANGED nodeVars

\* A message with a frame comes in and the worker thread deals with it: the
\* client must have connected, and process and client must be alive.
FrameArrives ==
    /\ process = "up"
    /\ connected
    /\ client[1] = "made"
    /\ ZlmInput
    /\ UNCHANGED <<appVars, nodeVars>>

ZlmStep == process = "up" /\ ZlmNext /\ UNCHANGED <<appVars, nodeVars>>

CallbackStep == process = "up" /\ Callback /\ UNCHANGED <<appVars, nodeVars>>

SignalStep == (Signal \/ Handler) /\ UNCHANGED <<zlmVars, nodeVars>>

HandlerStep == Handler /\ UNCHANGED <<zlmVars, nodeVars>>

MonibucaNext ==
    MonibucaMainStep \/ StopStep \/ ReturnStep \/ FrameArrives \/ ZlmStep
    \/ SignalStep

MonibucaSpec == MonibucaInit /\ [][MonibucaNext]_monibucaVars

\* main and the handler are scheduled: runOnce returns, since it sleeps for
\* five seconds at the most and connects asynchronously; stop need not return
\* and no signal need come.  ZLMediaKit finishes a callback it has begun.
MonibucaFairness ==
    /\ WF_monibucaVars(MonibucaMainStep)
    /\ WF_monibucaVars(HandlerStep)
    /\ WF_monibucaVars(CallbackStep)

-----------------------------------------------------------------------------
(* Properties.                                                             *)

MonibucaTypeOK ==
    /\ AppTypeOK
    /\ ZlmTypeOK
    /\ program \in {"easypusher", "push_monibuca"}
    /\ initPC \in InitPC
    /\ connected \in BOOLEAN

\* A source that appears is pushed in the end, unless the process ends or the
\* handle was born as junk: it cannot be missed because main is still busy
\* with initPusher when it appears.
SourceGetsPushed ==
    [](bornNull /\ sources # {} => <>(publishes > 0 \/ process # "up"))
=============================================================================
