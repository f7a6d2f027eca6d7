----------------------------- MODULE ZlmWorker -----------------------------
(***************************************************************************)
(* One ZLMWorker of push_monibuca (zlapi_worker.cpp): a medium it feeds    *)
(* with frames and a pusher that sends the medium's RTSP source on.  Three *)
(* threads use it: main sets it up (push_node::initPusher), the client's   *)
(* worker thread feeds it (push_node::pusher), and ZLMediaKit (external)   *)
(* calls MediasourceRegistCB when one of the medium's sources appears or   *)
(* goes, one call at a time, and PushResultCB when a push has an outcome.  *)
(*                                                                         *)
(* The constructor of ZLMWorker sets neither handle, so each starts as     *)
(* null or as whatever the memory held ("junk").                           *)
(***************************************************************************)
EXTENDS Naturals

CONSTANTS Schemas,       \* the sources ZLMediaKit makes of one medium
          MaxEvents      \* bound: how often sources appear or go

ASSUME ZlmAssumption == MaxEvents \in Nat

VARIABLES
    mediaHandle,     \* _mk_MediaHandle
    pusherHandle,    \* _mk_PusherHandle
    pushUrl,         \* _strPushUrl has been set
    media,           \* external: how far the medium has been set up
    fed,             \* external: the medium has been given a frame
    sources,         \* external: the medium's registered sources
    callbackPC,      \* where MediasourceRegistCB stands
    events,          \* how often it was called for a source
    pusher,          \* external: the pusher created last
    publishes,       \* history: calls of mk_pusher_publish
    fedHandles,      \* history: the handles frames were given to
    bornNull         \* history: _mk_PusherHandle happened to start as null

zlmVars == <<mediaHandle, pusherHandle, pushUrl, media, fed, sources,
             callbackPC, events, pusher, publishes, fedHandles, bornNull>>
handleVars == <<mediaHandle, pusherHandle, pushUrl>>
historyVars == <<publishes, fedHandles, bornNull>>

Handles == {"null", "junk", "live", "released"}
MediaStages == {"none", "created", "video", "watched", "complete"}
CallbackPC == {"idle", "test", "init", "start"}
PusherStates == {"none", "created", "connecting", "pushing", "failed"}

ZlmInit ==
    /\ mediaHandle \in {"null", "junk"}
    /\ pusherHandle \in {"null", "junk"}
    /\ pushUrl = FALSE
    /\ media = "none"
    /\ fed = FALSE
    /\ sources = {}
    /\ callbackPC = "idle"
    /\ events = 0
    /\ pusher = "none"
    /\ publishes = 0
    /\ fedHandles = {}
    /\ bornNull = (pusherHandle = "null")

-----------------------------------------------------------------------------
(* Main: push_node::initPusher, one call a step.                           *)

SetPushUrl ==
    /\ pushUrl' = TRUE
    /\ UNCHANGED <<mediaHandle, pusherHandle, media, fed, sources, callbackPC,
                   events, pusher, historyVars>>

MediaCreate ==
    /\ mediaHandle' = "live"
    /\ media' = "created"
    /\ UNCHANGED <<pusherHandle, pushUrl, fed, sources, callbackPC, events,
                   pusher, historyVars>>

\* init_video, set_on_regist and init_complete, each on the medium created.
MediaStep(from, to) ==
    /\ media = from
    /\ media' = to
    /\ UNCHANGED <<handleVars, fed, sources, callbackPC, events, pusher,
                   historyVars>>

\* ~ZLMWorker tests both handles and releases what they hold; a handle that
\* was never set is released as well if it is not null.
Destroy ==
    /\ callbackPC = "idle"
    /\ mediaHandle' = IF mediaHandle = "null" THEN "null" ELSE "released"
    /\ pusherHandle' = IF pusherHandle = "null" THEN "null" ELSE "released"
    /\ media' = "none"
    /\ sources' = {}
    /\ pusher' = "none"
    /\ UNCHANGED <<pushUrl, fed, callbackPC, events, historyVars>>

-----------------------------------------------------------------------------
(* The worker thread: push_node::pusher with a frame of more than five     *)
(* bytes, and ZLM_Input.                                                   *)

ZlmInput ==
    /\ IF mediaHandle = "null"
       THEN UNCHANGED <<fed, fedHandles>>
       ELSE /\ fedHandles' = fedHandles \cup {mediaHandle}
            /\ fed' = (fed \/ mediaHandle = "live")
    /\ UNCHANGED <<handleVars, media, sources, callbackPC, events, pusher,
                   publishes, bornNull>>

-----------------------------------------------------------------------------
(* ZLMediaKit.                                                             *)

\* A source appears once the medium has frames, or goes; the callback is
\* called if it has been set.
SourceChanges(s) ==
    /\ callbackPC = "idle"
    /\ events < MaxEvents
    /\ s \in sources \/ (fed /\ media # "none")
    /\ events' = events + 1
    /\ sources' = IF s \in sources THEN sources \ {s} ELSE sources \cup {s}
    /\ callbackPC' = IF s \notin sources /\ media \in {"watched", "complete"}
                     THEN "test" ELSE "idle"
    /\ UNCHANGED <<handleVars, media, fed, pusher, historyVars>>

\* The push reaches its outcome; PushResultCB prints it.
PushResult(outcome) ==
    /\ pusher = "connecting"
    /\ pusher' = outcome
    /\ UNCHANGED <<handleVars, media, fed, sources, callbackPC, events,
                   historyVars>>

\* A running push is interrupted: no callback is set for that.
PushBreaks ==
    /\ pusher = "pushing"
    /\ pusher' = "failed"
    /\ UNCHANGED <<handleVars, media, fed, sources, callbackPC, events,
                   historyVars>>

\* Mistake: the handle is not looked at, every source gets a pusher.
WantsPusherAlways == TRUE

\* Mistake: the test is the wrong way round.
WantsPusherWhenSet == pusherHandle # "null"

\* !ZLM_GetPushHandle(): any handle that is not null counts as a pusher.
WantsPusher == pusherHandle = "null"

\* MediasourceRegistCB for a source that appears; for one that goes it does
\* nothing (SourceChanges).
CallbackTest ==
    /\ callbackPC = "test"
    /\ callbackPC' = IF WantsPusher THEN "init" ELSE "idle"
    /\ UNCHANGED <<handleVars, media, fed, sources, events, pusher, historyVars>>

PusherInit ==
    /\ callbackPC = "init"
    /\ pusherHandle' = "live"
    /\ pusher' = "created"
    /\ callbackPC' = "start"
    /\ UNCHANGED <<mediaHandle, pushUrl, media, fed, sources, events,
                   historyVars>>

PusherStart ==
    /\ callbackPC = "start"
    /\ pusher' = "connecting"
    /\ publishes' = publishes + 1
    /\ callbackPC' = "idle"
    /\ UNCHANGED <<handleVars, media, fed, sources, events, fedHandles,
                   bornNull>>

Callback == CallbackTest \/ PusherInit \/ PusherStart

ZlmNext ==
    \/ \E s \in Schemas : SourceChanges(s)
    \/ \E outcome \in {"pushing", "failed"} : PushResult(outcome)
    \/ PushBreaks
    \/ Callback

-----------------------------------------------------------------------------
(* Properties of the worker, whoever calls it.                             *)

ZlmTypeOK ==
    /\ mediaHandle \in Handles /\ pusherHandle \in Handles
    /\ pushUrl \in BOOLEAN
    /\ media \in MediaStages
    /\ fed \in BOOLEAN
    /\ sources \subseteq Schemas
    /\ callbackPC \in CallbackPC
    /\ events \in 0..MaxEvents
    /\ pusher \in PusherStates
    /\ publishes \in Nat
    /\ fedHandles \subseteq Handles
    /\ bornNull \in BOOLEAN

\* A worker pushes its medium at most once, however many sources appear, go
\* and appear again and whatever becomes of the push; it does so only if the
\* unset handle happened to be null, and never before it has its url.
OnePushPerWorker ==
    /\ publishes <= IF bornNull THEN 1 ELSE 0
    /\ publishes = 1 => pushUrl /\ pusherHandle \in {"live", "released"}

\* Frames reach the medium initPusher made and nothing else, although the
\* handle starts as junk and the thread that feeds it is started before
\* initPusher is called.
FramesReachMedium == fedHandles \subseteq {"live"} /\ (fed => pushUrl)
=============================================================================
