--------------------------- MODULE MonibucaProofs ---------------------------
(***************************************************************************)
(* Proofs about MonibucaMain, for any number of clients, sources and       *)
(* events: type correctness, main's reasons to stop, the clients' turns,   *)
(* one push per ZLMWorker, and frames that reach its medium only.          *)
(***************************************************************************)
EXTENDS MonibucaMain, TLAPS

\* main's loop counter starts from the first client outside the loops.
LoopsStartAtFirst ==
    appPC \in {"load", "flag", "install", "test", "sleep"} => at = 1

\* A cleared flag, once it has been set, is the interrupt's doing.
ClearedByInterrupt ==
    appPC \notin {"load", "flag", "return"} => isRunning \/ handlerPC = "exit"

\* Where main stands in initPusher, what it has done there, and what that
\* means for the first client.
InitProgress ==
    /\ connected \/ initPC # "none" => Push /\ streams >= 1
    /\ appPC \in {"load", "flag", "install"} =>
          initPC = "none" /\ \A i \in Clients : client[i] = "none"
    /\ initPC \notin {"none", "done"} => appPC = "construct" /\ at = 1
    /\ Push /\ streams >= 1 /\ initPC # "done" =>
          /\ appPC \in {"load", "flag", "install", "construct", "return"}
          /\ appPC = "construct" => at = 1
    /\ initPC = "none" /\ Push => client[1] = "none"
    /\ initPC \notin {"none", "done"} => client[1] = "none"
    /\ initPC \notin {"none", "url"} => pushUrl
    /\ initPC \notin {"none", "url", "create"} /\ client[1] # "stopped"
          => mediaHandle = "live"
    /\ media # "none" => pushUrl

\* Where MediasourceRegistCB stands, and what that means for the pusher.
PushProgress ==
    /\ callbackPC # "idle" => pushUrl
    /\ ~bornNull => pusherHandle # "null" /\ callbackPC \notin {"init", "start"}
                    /\ publishes = 0
    /\ bornNull => publishes <= 1
    /\ pusherHandle = "null" \/ callbackPC \in {"init", "start"} => publishes = 0
    /\ callbackPC = "start" => pusherHandle = "live"
    /\ publishes = 1 => pushUrl /\ pusherHandle \in {"live", "released"}

\* The inductive invariant of both programs.
MonibucaInv ==
    /\ MonibucaTypeOK
    /\ LoopsStartAtFirst
    /\ ClearedByInterrupt
    /\ StopsForAReason
    /\ InitProgress
    /\ PushProgress
    /\ FramesReachMedium

-----------------------------------------------------------------------------

LEMMA FirstIsClient == 1 \in Clients
BY AppAssumption DEF Clients

\* An element of a loop's range is a client, and the counter stays in bounds.
LEMMA InBounds ==
    ASSUME AppTypeOK, at <= streams
    PROVE  at \in Clients /\ at + 1 \in 1..(streams + 1) /\ streams >= 1
BY AppAssumption DEF AppTypeOK, Clients

\* A round more, modulo RoundMod.
LEMMA NextRound ==
    ASSUME NEW r \in 0..(RoundMod - 1)
    PROVE  (r + 1) % RoundMod \in 0..(RoundMod - 1)
BY AppAssumption

LEMMA TypeStep ==
    ASSUME MonibucaInv, MonibucaNext
    PROVE  MonibucaTypeOK'
<1> USE DEF MonibucaInv, MonibucaTypeOK
<1>1. 1 \in Clients /\ RoundMod \in Nat /\ RoundMod > 2 /\ MaxStreams \in Nat
  BY FirstIsClient, AppAssumption
<1>2. CASE CommonStep
  <2>1. UNCHANGED <<zlmVars, nodeVars>>
    BY <1>2 DEF CommonStep
  <2>2. ZlmTypeOK' /\ program' \in {"easypusher", "push_monibuca"}
        /\ initPC' \in InitPC /\ connected' \in BOOLEAN
    BY <2>1 DEF ZlmTypeOK, zlmVars, nodeVars
  <2>3. CASE Construct
    <3>1. at \in Clients /\ at + 1 \in 1..(streams + 1)
      BY <2>3, InBounds DEF Construct, InLoop
    <3> QED
      BY <2>2, <2>3, <3>1 DEF Construct, AppTypeOK, signalVars
  <2>4. CASE LoadJson \/ SetRunning \/ InstallHandler
    BY <2>2, <2>4 DEF LoadJson, Goto, SetRunning, FlagSet, InstallHandler,
       AppTypeOK, AppPC, signalVars
  <2>5. CASE LeaveLoop("construct", "test") \/ LeaveLoop("round", "sleep")
    BY <1>1, <2>2, <2>5 DEF LeaveLoop, AppTypeOK, AppPC, signalVars
  <2>6. CASE TestRunning \/ Sleeps \/ ConstructThrows
    BY <2>2, <2>6 DEF TestRunning, Sleeps, ConstructThrows, Goto, AppTypeOK, AppPC,
       signalVars
  <2> QED
    BY <1>2, <2>3, <2>4, <2>5, <2>6 DEF CommonStep
<1>3. CASE RoundStep
  <2>1. /\ InLoop("round")
        /\ rounds' = [rounds EXCEPT ![at] = (@ + 1) % RoundMod]
        /\ at' = at + 1
        /\ UNCHANGED <<isRunning, installed, streams, appPC, client, signalVars,
                       zlmVars, program, initPC>>
        /\ connected' \in BOOLEAN
    BY <1>3 DEF RoundStep, RunOnceOn, NextClient
  <2>2. at \in Clients /\ at' \in 1..(streams + 1)
    BY <2>1, InBounds DEF InLoop
  <2>3. (rounds[at] + 1) % RoundMod \in 0..(RoundMod - 1)
    BY <2>2, NextRound DEF AppTypeOK
  <2>4. rounds' \in [Clients -> 0..(RoundMod - 1)]
    BY <2>1, <2>2, <2>3 DEF AppTypeOK
  <2> QED
    BY <2>1, <2>2, <2>4 DEF AppTypeOK, ZlmTypeOK, signalVars, zlmVars
<1>4. CASE ConstructNode
  BY <1>1, <1>4, InBounds
  DEF ConstructNode, InLoop, AppTypeOK, ZlmTypeOK, InitPC, signalVars, zlmVars
<1>5. CASE InitPusher
  <2>1. /\ initPC' \in InitPC /\ ZlmTypeOK'
    BY <1>5 DEF InitPusher, InitStep, InitPC, SetPushUrl, MediaCreate, MediaStep,
        ZlmTypeOK, Handles, MediaStages, historyVars, handleVars
  <2>2. /\ UNCHANGED <<isRunning, installed, streams, appPC, rounds, signalVars,
                       program, connected>>
        /\ \/ client' = [client EXCEPT ![1] = "made"] /\ at' = 2
           \/ UNCHANGED <<client, at>>
    BY <1>5 DEF InitPusher
  <2>3. streams >= 1
    BY <1>5 DEF InitPusher, InitStep, InitProgress
  <2> QED
    BY <1>1, <2>1, <2>2, <2>3 DEF AppTypeOK, signalVars
<1>6. CASE StopStep
  <2>1. UNCHANGED <<zlmVars, nodeVars>>
    BY <1>6 DEF StopStep
  <2>2. ZlmTypeOK' /\ program' \in {"easypusher", "push_monibuca"}
        /\ initPC' \in InitPC /\ connected' \in BOOLEAN
    BY <2>1 DEF ZlmTypeOK, zlmVars, nodeVars
  <2>3. CASE StopOne
    <3>1. at \in Clients /\ at + 1 \in 1..(streams + 1)
      BY <2>3, InBounds DEF StopOne, InLoop
    <3> QED
      BY <2>2, <2>3, <3>1 DEF StopOne, AppTypeOK, signalVars
  <2>4. CASE LeaveLoop("stop", "return")
    BY <1>1, <2>2, <2>4 DEF LeaveLoop, AppTypeOK, AppPC, signalVars
  <2> QED
    BY <1>6, <2>3, <2>4 DEF StopStep
<1>7. CASE ReturnStep
  <2>1. ZlmTypeOK'
    <3>1. CASE Destroy
      BY <3>1 DEF Destroy, ZlmTypeOK, Handles, MediaStages, PusherStates, historyVars
    <3>2. CASE UNCHANGED zlmVars
      BY <3>2 DEF ZlmTypeOK, zlmVars
    <3> QED
      BY <1>7, <3>1, <3>2 DEF ReturnStep
  <2> QED
    BY <1>7, <2>1 DEF ReturnStep, MainReturns, AppTypeOK, nodeVars
<1>8. CASE FrameArrives
  BY <1>8 DEF FrameArrives, ZlmInput, AppTypeOK, ZlmTypeOK, appVars, nodeVars,
      handleVars
<1>9. CASE ZlmStep
  <2>1. ZlmTypeOK'
    <3>1. CASE \E s \in Schemas : SourceChanges(s)
      BY <3>1, ZlmAssumption DEF SourceChanges, ZlmTypeOK, CallbackPC, handleVars,
         historyVars
    <3>2. CASE \E outcome \in {"pushing", "failed"} : PushResult(outcome)
      BY <3>2 DEF PushResult, ZlmTypeOK, PusherStates, handleVars, historyVars
    <3>3. CASE PushBreaks
      BY <3>3 DEF PushBreaks, ZlmTypeOK, PusherStates, handleVars, historyVars
    <3>4. CASE CallbackTest
      BY <3>4 DEF CallbackTest, ZlmTypeOK, CallbackPC, handleVars, historyVars
    <3>5. CASE PusherInit
      BY <3>5 DEF PusherInit, ZlmTypeOK, PusherStates, CallbackPC, Handles,
         historyVars
    <3>6. CASE PusherStart
      BY <3>6 DEF PusherStart, ZlmTypeOK, PusherStates, CallbackPC, handleVars
    <3> QED
      BY <1>9, <3>1, <3>2, <3>3, <3>4, <3>5, <3>6 DEF ZlmStep, ZlmNext, Callback
  <2> QED
    BY <1>9, <2>1 DEF ZlmStep, AppTypeOK, appVars, nodeVars
<1>10. CASE SignalStep
  BY <1>10 DEF SignalStep, Signal, Handler, SignalKills, SignalArrives,
      HandlerClears, HandlerExits, AppTypeOK, ZlmTypeOK, HandlerPC, zlmVars, nodeVars
<1> QED
  BY <1>2, <1>3, <1>4, <1>5, <1>6, <1>7, <1>8, <1>9, <1>10
  DEF MonibucaNext, MonibucaMainStep

-----------------------------------------------------------------------------

\* main's loops and its reasons to leave them.
LEMMA LoopStep ==
    ASSUME MonibucaInv, MonibucaNext
    PROVE  LoopsStartAtFirst' /\ ClearedByInterrupt' /\ StopsForAReason'
<1>0. /\ LoopsStartAtFirst /\ ClearedByInterrupt /\ StopsForAReason
      /\ isRunning \in BOOLEAN /\ client \in [Clients -> {"none", "made", "stopped"}]
      /\ installed \in BOOLEAN
      /\ initPC \notin {"none", "done"} => appPC = "construct"
  BY DEF MonibucaInv, MonibucaTypeOK, AppTypeOK, InitProgress
<1> USE DEF LoopsStartAtFirst, ClearedByInterrupt, StopsForAReason
<1>1. CASE LoadJson \/ SetRunning \/ InstallHandler
  BY <1>0, <1>1 DEF LoadJson, Goto, SetRunning, FlagSet, InstallHandler, signalVars
<1>2. CASE LeaveLoop("construct", "test") \/ LeaveLoop("round", "sleep")
           \/ LeaveLoop("stop", "return")
  BY <1>0, <1>2 DEF LeaveLoop, signalVars
<1>3. CASE TestRunning \/ Sleeps \/ ConstructThrows
  BY <1>0, <1>3 DEF TestRunning, Sleeps, ConstructThrows, Goto, InLoop, signalVars
<1>4. ASSUME /\ appPC \in {"construct", "round"}
             /\ UNCHANGED <<isRunning, installed, appPC, handlerPC>>
             /\ \A i \in Clients : client'[i] = "stopped" => client[i] = "stopped"
      PROVE  LoopsStartAtFirst' /\ ClearedByInterrupt' /\ StopsForAReason'
  BY <1>0, <1>4
<1>5. CASE Construct \/ RunOnceOn \/ ConstructNode
  BY <1>0, <1>4, <1>5 DEF Construct, RunOnceOn, ConstructNode, InLoop, signalVars
<1>6. CASE InitPusher
  <2>1. appPC = "construct" /\ UNCHANGED <<isRunning, installed, appPC, handlerPC>>
    BY <1>0, <1>6 DEF InitPusher, InitStep, signalVars
  <2>2. \A i \in Clients : client'[i] = "stopped" => client[i] = "stopped"
    BY <1>0, <1>6 DEF InitPusher
  <2> QED
    BY <1>4, <2>1, <2>2
<1>7. CASE StopOne
  BY <1>0, <1>7 DEF StopOne, InLoop, signalVars
<1>8. CASE MainReturns
  BY <1>0, <1>8 DEF MainReturns
<1>9. CASE UNCHANGED appVars
  BY <1>0, <1>9 DEF appVars
<1>10. CASE Signal \/ Handler
  BY <1>0, <1>10 DEF Signal, Handler, SignalKills, SignalArrives, HandlerClears,
      HandlerExits
<1> QED
  BY <1>1, <1>2, <1>3, <1>5, <1>6, <1>7, <1>8, <1>9, <1>10
  DEF MonibucaNext, MonibucaMainStep, CommonStep, RoundStep, StopStep, ReturnStep,
      FrameArrives, ZlmStep, SignalStep

\* initPusher, against everything that goes on beside it.
LEMMA InitPusherStep ==
    ASSUME MonibucaInv, MonibucaNext
    PROVE  InitProgress'
<1>0. /\ InitProgress /\ LoopsStartAtFirst
      /\ client \in [Clients -> {"none", "made", "stopped"}]
      /\ 1 \in Clients /\ initPC \in InitPC
      /\ streams \in Nat /\ at \in 1..(streams + 1)
  BY FirstIsClient DEF MonibucaInv, MonibucaTypeOK, AppTypeOK
<1>1. ASSUME UNCHANGED <<program, streams, initPC, connected, client, pushUrl, media,
                         mediaHandle, appPC, at>>
      PROVE  InitProgress'
  BY <1>0, <1>1 DEF InitProgress, Push
<1>2. ASSUME UNCHANGED <<program, streams, initPC, connected, client, pushUrl, media,
                         mediaHandle>>,
             initPC \in {"none", "done"},
             appPC' \in {"load", "flag", "install"}
                => appPC \in {"load", "flag", "install"},
             Push /\ streams >= 1 /\ initPC # "done" =>
                /\ appPC' \in {"load", "flag", "install", "construct", "return"}
                /\ appPC' = "construct" => at' = 1
      PROVE  InitProgress'
  BY <1>0, <1>2 DEF InitProgress, Push
<1>3. CASE LoadJson /\ UNCHANGED <<zlmVars, nodeVars>>
  <2>1. initPC \in {"none", "done"}
    BY <1>0, <1>3 DEF InitProgress, LoadJson, Goto
  <2> QED
    BY <1>2, <1>3, <2>1 DEF LoadJson, Goto, zlmVars, nodeVars
<1>4. CASE (SetRunning \/ InstallHandler) /\ UNCHANGED <<zlmVars, nodeVars>>
  <2>1. initPC \in {"none", "done"} /\ at = 1
    BY <1>0, <1>4 DEF InitProgress, LoopsStartAtFirst, SetRunning, InstallHandler
  <2> QED
    BY <1>2, <1>4, <2>1 DEF SetRunning, InstallHandler, zlmVars, nodeVars
<1>5. CASE /\ UNCHANGED <<zlmVars, nodeVars>>
           /\ LeaveLoop("construct", "test") \/ LeaveLoop("round", "sleep")
              \/ LeaveLoop("stop", "return")
  <2>1. initPC \in {"none", "done"} /\ (Push /\ streams >= 1 => initPC = "done")
    BY <1>0, <1>5 DEF InitProgress, LeaveLoop
  <2> QED
    BY <1>2, <1>5, <2>1 DEF LeaveLoop, zlmVars, nodeVars
<1>6. CASE /\ UNCHANGED <<zlmVars, nodeVars>>
           /\ \/ TestRunning \/ Sleeps
              \/ initPC \in {"none", "done"} /\ ConstructThrows
  <2>1. initPC \in {"none", "done"}
        /\ (Push /\ streams >= 1 => initPC = "done" \/ appPC = "construct")
    BY <1>0, <1>6 DEF InitProgress, TestRunning, Sleeps, ConstructThrows, Goto
  <2> QED
    BY <1>2, <1>6, <2>1 DEF TestRunning, Sleeps, ConstructThrows, Goto, zlmVars,
       nodeVars
<1>7. CASE ~Push /\ Construct /\ UNCHANGED <<zlmVars, nodeVars>>
  BY <1>0, <1>7 DEF Construct, InLoop, InitProgress, Push, zlmVars, nodeVars
<1>8. CASE RoundStep
  BY <1>0, <1>8 DEF RoundStep, RunOnceOn, InLoop, InitProgress, Push, zlmVars
<1>9. CASE ConstructNode
  <2>1. CASE at = 1
    BY <1>0, <1>9, <2>1 DEF ConstructNode, InLoop, InitProgress, Push, zlmVars
  <2>2. CASE at # 1
    <3>1. initPC = "done" /\ client'[1] = client[1]
      BY <1>0, <1>9, <2>2 DEF ConstructNode, InLoop, InitProgress, Push
    <3> QED
      BY <1>0, <1>9, <2>2, <3>1 DEF ConstructNode, InLoop, InitProgress, Push, zlmVars
  <2> QED
    BY <2>1, <2>2
<1>10. CASE InitPusher
  <2>1. /\ appPC = "construct" /\ at = 1 /\ client[1] = "none" /\ Push /\ streams >= 1
        /\ UNCHANGED <<streams, appPC, program, connected>>
        /\ initPC' \in {"create", "video", "regist", "complete", "done"}
    BY <1>0, <1>10 DEF InitPusher, InitStep, InitProgress
  <2>2. IF initPC' = "done" THEN client' = [client EXCEPT ![1] = "made"] /\ at' = 2
                            ELSE UNCHANGED <<client, at>>
    BY <1>10 DEF InitPusher
  <2>3. /\ pushUrl'
        /\ initPC' # "create" => mediaHandle' = "live"
    BY <1>0, <1>10, <2>1 DEF InitPusher, InitStep, SetPushUrl, MediaCreate, MediaStep,
       InitProgress, handleVars
  <2> QED
    BY <1>0, <2>1, <2>2, <2>3 DEF InitProgress, Push
<1>11. CASE StopOne /\ UNCHANGED <<zlmVars, nodeVars>>
  <2>1. initPC = "done" \/ ~Push
    BY <1>0, <1>11 DEF StopOne, InLoop, InitProgress
  <2> QED
    BY <1>0, <1>11, <2>1 DEF StopOne, InLoop, InitProgress, Push, zlmVars, nodeVars
<1>12. CASE ReturnStep
  <2>1. /\ appPC = "return" /\ UNCHANGED <<appPC, at, streams, program, initPC, connected>>
        /\ client'[1] = IF client[1] = "made" THEN "stopped" ELSE client[1]
        /\ Push /\ client[1] = "made" => Destroy
        /\ ~(Push /\ client[1] = "made") => UNCHANGED zlmVars
    BY <1>0, <1>12 DEF ReturnStep, MainReturns, nodeVars
  <2>2. initPC \in {"none", "done"}
    BY <1>0, <2>1 DEF InitProgress
  <2>3. CASE Push /\ client[1] = "made"
    BY <1>0, <2>1, <2>2, <2>3 DEF Destroy, InitProgress, Push
  <2>4. CASE ~(Push /\ client[1] = "made")
    BY <1>0, <2>1, <2>2, <2>4 DEF InitProgress, Push, zlmVars
  <2> QED
    BY <2>1, <2>3, <2>4
<1>13. CASE FrameArrives \/ ZlmStep
  BY <1>1, <1>13 DEF FrameArrives, ZlmInput, ZlmStep, ZlmNext, SourceChanges, PushResult,
      PushBreaks, Callback, CallbackTest, PusherInit, PusherStart, appVars, nodeVars,
      handleVars
<1>14. CASE SignalStep
  BY <1>1, <1>14 DEF SignalStep, Signal, Handler, SignalKills, SignalArrives,
      HandlerClears, HandlerExits, zlmVars, nodeVars
<1> QED
  BY <1>3, <1>4, <1>5, <1>6, <1>7, <1>8, <1>9, <1>10, <1>11, <1>12, <1>13, <1>14
  DEF MonibucaNext, MonibucaMainStep, CommonStep, StopStep

\* The callback and the pusher, against main and the other sources.
LEMMA PushStep ==
    ASSUME MonibucaInv, MonibucaNext
    PROVE  PushProgress'
<1>0. /\ PushProgress /\ ZlmTypeOK
      /\ media # "none" => pushUrl
  BY DEF MonibucaInv, MonibucaTypeOK, InitProgress
<1>1. ASSUME UNCHANGED <<callbackPC, bornNull, pusherHandle, publishes>>,
             pushUrl => pushUrl'
      PROVE  PushProgress'
  BY <1>0, <1>1 DEF PushProgress
<1>2. CASE UNCHANGED zlmVars
  BY <1>1, <1>2 DEF zlmVars
<1>3. CASE InitPusher \/ FrameArrives
  BY <1>1, <1>3 DEF InitPusher, FrameArrives, SetPushUrl, MediaCreate, MediaStep, ZlmInput,
     handleVars, historyVars
<1>4. CASE Destroy
  BY <1>0, <1>4 DEF Destroy, PushProgress, ZlmTypeOK, Handles, historyVars
<1>5. CASE \E s \in Schemas : SourceChanges(s)
  BY <1>0, <1>5 DEF SourceChanges, PushProgress, handleVars, historyVars
<1>6. CASE (\E outcome \in {"pushing", "failed"} : PushResult(outcome)) \/ PushBreaks
  BY <1>1, <1>6 DEF PushResult, PushBreaks, handleVars, historyVars
<1>7. CASE CallbackTest
  BY <1>0, <1>7 DEF CallbackTest, WantsPusher, PushProgress, handleVars, historyVars
<1>8. CASE PusherInit
  BY <1>0, <1>8 DEF PusherInit, PushProgress, historyVars
<1>9. CASE PusherStart
  BY <1>0, <1>9 DEF PusherStart, PushProgress, ZlmTypeOK, handleVars
<1> QED
  BY <1>2, <1>3, <1>4, <1>5, <1>6, <1>7, <1>8, <1>9
  DEF MonibucaNext, MonibucaMainStep, CommonStep, RoundStep, ConstructNode, StopStep,
      ReturnStep, ZlmStep, ZlmNext, Callback, SignalStep

\* Frames, against initPusher and the end of the client.
LEMMA FrameStep ==
    ASSUME MonibucaInv, MonibucaNext
    PROVE  FramesReachMedium'
<1>0. FramesReachMedium /\ InitProgress /\ ZlmTypeOK /\ initPC \in InitPC
  BY DEF MonibucaInv, MonibucaTypeOK
<1>1. ASSUME UNCHANGED <<fed, fedHandles>>, pushUrl => pushUrl'
      PROVE  FramesReachMedium'
  BY <1>0, <1>1 DEF FramesReachMedium
<1>2. CASE UNCHANGED zlmVars
  BY <1>1, <1>2 DEF zlmVars
<1>3. CASE InitPusher \/ Destroy \/ ZlmStep
  BY <1>1, <1>3 DEF InitPusher, SetPushUrl, MediaCreate, MediaStep, Destroy, ZlmStep,
     ZlmNext, SourceChanges, PushResult, PushBreaks, Callback, CallbackTest, PusherInit,
     PusherStart, handleVars, historyVars
<1>4. CASE FrameArrives
  <2>1. Push /\ client[1] = "made" /\ streams >= 1
    BY <1>0, <1>4 DEF FrameArrives, InitProgress
  <2>2. mediaHandle = "live" /\ pushUrl
    BY <1>0, <2>1 DEF InitProgress
  <2> QED
    BY <1>0, <1>4, <2>2 DEF FrameArrives, ZlmInput, FramesReachMedium, handleVars
<1> QED
  BY <1>2, <1>3, <1>4
  DEF MonibucaNext, MonibucaMainStep, CommonStep, RoundStep, ConstructNode, StopStep,
      ReturnStep, SignalStep

-----------------------------------------------------------------------------
(* Theorems.                                                               *)

\* The invariant of main, initPusher and the ZLMWorker.
THEOREM MonibucaInvariance == MonibucaSpec => []MonibucaInv
<1>1. MonibucaInit => MonibucaInv
  <2> SUFFICES ASSUME MonibucaInit PROVE MonibucaInv
    OBVIOUS
  <2>1. AppTypeOK
    <3>1. AppInit
      BY DEF MonibucaInit
    <3>2. 0 \in 0..(RoundMod - 1) /\ streams \in 0..MaxStreams /\ 1 \in 1..(streams + 1)
      BY <3>1, AppAssumption DEF AppInit
    <3> QED
      BY <3>1, <3>2 DEF AppInit, AppTypeOK, AppPC, HandlerPC
  <2>2. ZlmTypeOK
    <3>1. ZlmInit
      BY DEF MonibucaInit
    <3>2. bornNull \in BOOLEAN /\ 0 \in 0..MaxEvents
      BY <3>1, ZlmAssumption DEF ZlmInit
    <3> QED
      BY <3>1, <3>2 DEF ZlmInit, ZlmTypeOK, Handles, MediaStages, CallbackPC, PusherStates
  <2>3. LoopsStartAtFirst /\ ClearedByInterrupt /\ StopsForAReason
    BY DEF MonibucaInit, AppInit, LoopsStartAtFirst, ClearedByInterrupt, StopsForAReason
  <2>4. InitProgress
    BY FirstIsClient DEF MonibucaInit, AppInit, ZlmInit, InitProgress
  <2>5. PushProgress /\ FramesReachMedium
    <3>1. ZlmInit /\ (bornNull <=> pusherHandle = "null")
      BY DEF MonibucaInit, ZlmInit
    <3> QED
      BY <3>1 DEF ZlmInit, PushProgress, FramesReachMedium
  <2>6. MonibucaTypeOK
    BY <2>1, <2>2 DEF MonibucaInit, MonibucaTypeOK, InitPC
  <2> QED
    BY <2>1, <2>2, <2>3, <2>4, <2>5, <2>6 DEF MonibucaInv
<1>2. MonibucaInv /\ [MonibucaNext]_monibucaVars => MonibucaInv'
  <2> SUFFICES ASSUME MonibucaInv, [MonibucaNext]_monibucaVars
               PROVE  MonibucaInv'
    OBVIOUS
  <2>1. CASE MonibucaNext
    BY <2>1, TypeStep, LoopStep, InitPusherStep, PushStep, FrameStep DEF MonibucaInv
  <2>2. CASE UNCHANGED monibucaVars
    BY <2>2 DEF monibucaVars, appVars, zlmVars, nodeVars, MonibucaInv, MonibucaTypeOK,
       AppTypeOK, ZlmTypeOK, LoopsStartAtFirst, ClearedByInterrupt, StopsForAReason,
       InitProgress, PushProgress, FramesReachMedium, Push
  <2> QED
    BY <2>1, <2>2
<1> QED
  BY <1>1, <1>2, PTL DEF MonibucaSpec

\* Type correctness for any number of clients and sources.
THEOREM MonibucaTypeCorrect == MonibucaSpec => []MonibucaTypeOK
<1>1. MonibucaInv => MonibucaTypeOK
  BY DEF MonibucaInv
<1> QED
  BY <1>1, MonibucaInvariance, PTL

\* main stops and returns for the interrupt or a failed construction only
\* (easypusher.cpp, monibuca_pusher.cpp).
THEOREM MainStopsForAReason == MonibucaSpec => []StopsForAReason
<1>1. MonibucaInv => StopsForAReason
  BY DEF MonibucaInv
<1> QED
  BY <1>1, MonibucaInvariance, PTL

\* A ZLMWorker publishes once at the most, however many sources appear.
THEOREM WorkerPushesOnce == MonibucaSpec => []OnePushPerWorker
<1>1. MonibucaInv => OnePushPerWorker
  BY DEF MonibucaInv, MonibucaTypeOK, ZlmTypeOK, PushProgress, OnePushPerWorker
<1> QED
  BY <1>1, MonibucaInvariance, PTL

\* Frames go to the medium initPusher has made, never to an unset handle.
THEOREM WorkerFeedsItsMedium == MonibucaSpec => []FramesReachMedium
<1>1. MonibucaInv => FramesReachMedium
  BY DEF MonibucaInv
<1> QED
  BY <1>1, MonibucaInvariance, PTL

-----------------------------------------------------------------------------
(* The clients' turns.                                                     *)

\* Those in front of main's loop are one round ahead of the others.
TurnsFrom(base) ==
    \A i \in 1..streams :
        rounds[i] = IF appPC = "round" /\ i < at THEN (base + 1) % RoundMod ELSE base

TurnsInv == \E base \in 0..(RoundMod - 1) : TurnsFrom(base)

\* One round ahead is told from none by the remainders.
LEMMA RoundArithmetic ==
    ASSUME NEW r \in 0..(RoundMod - 1)
    PROVE  /\ (r + RoundMod - r) % RoundMod = 0
           /\ (((r + 1) % RoundMod) + RoundMod - r) % RoundMod = 1
           /\ (((r + 1) % RoundMod) + RoundMod - ((r + 1) % RoundMod)) % RoundMod = 0
<1>1. RoundMod \in Nat /\ RoundMod > 2 /\ r \in Nat /\ r < RoundMod
  BY AppAssumption
<1>2. (r + 1) % RoundMod = IF r + 1 = RoundMod THEN 0 ELSE r + 1
  BY <1>1
<1>3. RoundMod % RoundMod = 0 /\ (RoundMod + 1) % RoundMod = 1 /\ 1 % RoundMod = 1
  BY <1>1
<1>4. r + RoundMod - r = RoundMod
  BY <1>1
<1>5. CASE r + 1 = RoundMod
  <2>1. 0 + RoundMod - r = 1 /\ 0 + RoundMod - 0 = RoundMod
    BY <1>1, <1>5
  <2> QED
    BY <1>2, <1>3, <1>4, <1>5, <2>1
<1>6. CASE r + 1 # RoundMod
  <2> DEFINE s == (r + 1) % RoundMod
  <2>1. s = r + 1
    BY <1>2, <1>6
  <2>2. s + RoundMod - r = RoundMod + 1 /\ s + RoundMod - s = RoundMod
    BY <1>1, <2>1
  <2> QED
    BY <1>3, <1>4, <2>2, Zenon
<1> QED
  BY <1>5, <1>6

LEMMA TurnsStep ==
    ASSUME MonibucaInv, MonibucaNext, TurnsInv
    PROVE  TurnsInv'
<1>0. PICK base \in 0..(RoundMod - 1) : TurnsFrom(base)
  BY DEF TurnsInv
<1>1. /\ streams \in 0..MaxStreams /\ at \in 1..(streams + 1) /\ MaxStreams \in Nat
      /\ rounds \in [Clients -> 0..(RoundMod - 1)]
      /\ 1..streams \subseteq Clients
      /\ initPC \notin {"none", "done"} => appPC = "construct"
      /\ LoopsStartAtFirst
  BY AppAssumption DEF MonibucaInv, MonibucaTypeOK, AppTypeOK, InitProgress, Clients
<1>2. ASSUME UNCHANGED <<streams, rounds>>, appPC # "round",
             appPC' = "round" => at' = 1
      PROVE  TurnsInv'
  BY <1>0, <1>1, <1>2 DEF TurnsInv, TurnsFrom
<1>3. CASE LoadJson \/ SetRunning \/ InstallHandler \/ Construct \/ TestRunning \/ Sleeps
           \/ ConstructThrows
  BY <1>1, <1>2, <1>3 DEF LoadJson, Goto, SetRunning, InstallHandler, Construct, InLoop,
     TestRunning, Sleeps, ConstructThrows, LoopsStartAtFirst
<1>4. CASE LeaveLoop("construct", "test") \/ LeaveLoop("stop", "return") \/ StopOne
           \/ ConstructNode \/ MainReturns
  BY <1>2, <1>4 DEF LeaveLoop, StopOne, InLoop, ConstructNode, MainReturns
<1>5. CASE InitPusher
  <2>1. appPC = "construct" /\ UNCHANGED <<appPC, streams, rounds>>
    BY <1>1, <1>5 DEF InitPusher, InitStep
  <2> QED
    BY <1>2, <2>1
<1>6. CASE LeaveLoop("round", "sleep")
  <2>1. /\ appPC = "round" /\ at > streams /\ UNCHANGED <<streams, rounds>>
        /\ appPC' = "sleep"
    BY <1>6 DEF LeaveLoop
  <2>2. \A i \in 1..streams : i < at
    BY <1>1, <2>1
  <2>3. TurnsFrom((base + 1) % RoundMod)'
    BY <1>0, <2>1, <2>2 DEF TurnsFrom
  <2> QED
    BY <2>3, NextRound DEF TurnsInv
<1>7. CASE RunOnceOn
  <2>1. /\ appPC = "round" /\ at <= streams /\ UNCHANGED <<streams, appPC>>
        /\ rounds' = [rounds EXCEPT ![at] = (@ + 1) % RoundMod]
        /\ at' = at + 1
    BY <1>7 DEF RunOnceOn, InLoop, NextClient
  <2>2. at \in 1..streams /\ rounds[at] = base
    BY <1>0, <1>1, <2>1 DEF TurnsFrom
  <2>3. ASSUME NEW i \in 1..streams
        PROVE  rounds'[i] = IF appPC' = "round" /\ i < at' THEN (base + 1) % RoundMod
                                                           ELSE base
    <3>1. rounds'[i] = IF i = at THEN (base + 1) % RoundMod ELSE rounds[i]
      BY <1>1, <2>1, <2>2
    <3>2. i < at' <=> i < at \/ i = at
      BY <1>1, <2>1
    <3> QED
      BY <1>0, <2>1, <3>1, <3>2 DEF TurnsFrom
  <2>4. TurnsFrom(base)'
    BY <2>1, <2>3 DEF TurnsFrom
  <2> QED
    BY <2>4 DEF TurnsInv
<1>8. CASE UNCHANGED <<streams, rounds, appPC, at>>
  BY <1>0, <1>8 DEF TurnsInv, TurnsFrom
<1>9. CASE Signal \/ Handler
  BY <1>8, <1>9 DEF Signal, Handler, SignalKills, SignalArrives, HandlerClears,
     HandlerExits
<1>10. CASE UNCHANGED appVars
  BY <1>8, <1>10 DEF appVars
<1> QED
  BY <1>3, <1>4, <1>5, <1>6, <1>7, <1>9, <1>10
  DEF MonibucaNext, MonibucaMainStep, CommonStep, RoundStep, StopStep, ReturnStep,
      FrameArrives, ZlmStep, SignalStep

\* The loop over the clients gives each its turn before any gets a second one,
\* for any number of clients (easypusher.cpp, monibuca_pusher.cpp).
THEOREM ClientsTakeTurns == MonibucaSpec => []RoundsInStep
<1>1. MonibucaInit => TurnsInv
  <2> SUFFICES ASSUME MonibucaInit PROVE TurnsFrom(0) /\ 0 \in 0..(RoundMod - 1)
    BY DEF TurnsInv
  <2>1. /\ rounds = [i \in Clients |-> 0] /\ appPC = "load"
        /\ 1..streams \subseteq Clients
    BY AppAssumption DEF MonibucaInit, AppInit, Clients
  <2> QED
    BY <2>1, AppAssumption DEF TurnsFrom
<1>2. MonibucaInv /\ TurnsInv /\ [MonibucaNext]_monibucaVars => TurnsInv'
  <2> SUFFICES ASSUME MonibucaInv, TurnsInv, [MonibucaNext]_monibucaVars
               PROVE  TurnsInv'
    OBVIOUS
  <2>1. CASE UNCHANGED monibucaVars
    BY <2>1 DEF monibucaVars, appVars, TurnsInv, TurnsFrom
  <2> QED
    BY <2>1, TurnsStep
<1>3. MonibucaInv /\ TurnsInv => RoundsInStep
  <2> SUFFICES ASSUME MonibucaInv, TurnsInv, NEW i \in 1..streams, NEW j \in 1..streams,
                      i < j
               PROVE  (rounds[i] + RoundMod - rounds[j]) % RoundMod \in {0, 1}
    BY DEF RoundsInStep
  <2>1. PICK base \in 0..(RoundMod - 1) : TurnsFrom(base)
    BY DEF TurnsInv
  <2>2. \/ rounds[i] = base /\ rounds[j] = base
        \/ rounds[i] = (base + 1) % RoundMod /\ rounds[j] = base
        \/ rounds[i] = (base + 1) % RoundMod /\ rounds[j] = (base + 1) % RoundMod
    <3>1. i \in Nat /\ j \in Nat /\ at \in Nat
      BY DEF MonibucaInv, MonibucaTypeOK, AppTypeOK
    <3> QED
      BY <2>1, <3>1 DEF TurnsFrom
  <2>3. /\ (base + RoundMod - base) % RoundMod = 0
        /\ (((base + 1) % RoundMod) + RoundMod - base) % RoundMod = 1
        /\ (((base + 1) % RoundMod) + RoundMod - ((base + 1) % RoundMod)) % RoundMod = 0
    BY RoundArithmetic
  <2> QED
    BY <2>2, <2>3, Zenon
<1> QED
  BY <1>1, <1>2, <1>3, MonibucaInvariance, PTL DEF MonibucaSpec
=============================================================================
