---------------------------- MODULE PushSession ----------------------------
(***************************************************************************)
(* What one easy_client does with the messages it takes from its queue     *)
(* (easy_client::dealMsg and easy_client::pusher): it waits for the first  *)
(* message that carries the stream's parameter sets, starts one EasyPusher *)
(* stream with them, and from then on pushes one frame per message.  All   *)
(* of it runs on the worker thread, one message at a time; the EasyPusher  *)
(* library (external) may refuse to create a pusher.                       *)
(*                                                                         *)
(* A message is what dealMsg can tell apart: whether it parses, whether it *)
(* has a "msg", what that one's "encoding" and "data" members are.  A      *)
(* member that is looked up and not there fails an assertion of rapidjson, *)
(* which ends the process: the builds of this repository leave assertions  *)
(* on.                                                                     *)
(***************************************************************************)
EXTENDS Naturals, Sequences

CONSTANTS ParamSets,     \* what get_sps_pps_nalu can extract, see NaluScan;
                         \* the pair of empty vectors may be among them
          MaxDealt       \* bound: how many messages are dealt with

ASSUME SessionAssumption == MaxDealt \in Nat

VARIABLES
    initNal,         \* init_nal
    mediainfo,       \* the parameter sets in mediainfo
    fPusherHandle,   \* fPusherHandle # 0
    aborted,         \* an assertion has ended the process
    startedWith,     \* history: mediainfo as EasyPusher_StartStream got it
    startedAt,       \* history: the message fPusherHandle was created in
    dealtMsgs,       \* history: the messages dealt with
    pushed           \* history: the frames given to EasyPusher_PushFrame

sessionVars == <<initNal, mediainfo, fPusherHandle, aborted, startedWith,
                 startedAt, dealtMsgs, pushed>>

Unset == "unset"     \* no parameter sets copied yet

Encodings == [kind : {"sets"}, sets : ParamSets]
             \cup [kind : {"absent", "notString", "short", "throws"}]

\* "tiny": at most five bytes once decoded.
DataKinds == {"absent", "notString", "tiny", "key", "delta"}

Messages == [json : {"object"}, encoding : Encodings, data : DataKinds]
            \cup [json : {"error", "notObject", "noMsg"}]

Frames == [msg : Nat, key : BOOLEAN, sets : ParamSets \cup {Unset}]

SessionInit ==
    /\ initNal = FALSE
    /\ mediainfo = Unset
    /\ fPusherHandle = FALSE
    /\ aborted = FALSE
    /\ startedWith = Unset
    /\ startedAt = 0
    /\ dealtMsgs = <<>>
    /\ pushed = <<>>

-----------------------------------------------------------------------------

\* Mistake: parameter sets are taken from every message that has some.
TakesAlways(m) == m.encoding.kind \notin {"absent", "notString"}

\* "encoding" is looked at until parameter sets have been found once.
LooksForSets(m) == ~initNal /\ m.encoding.kind \notin {"absent", "notString"}

\* dealMsg returns early, or catches what get_sps_pps_nalu threw.
GivesUp(m) ==
    \/ m.json \in {"error", "notObject"}
    \/ /\ m.json = "object"
       /\ LooksForSets(m)
       /\ m.encoding.kind \in {"short", "throws"}

\* document["msg"], or v["encoding"] while that is looked at, is not there.
Lacks(m) ==
    \/ m.json = "noMsg"
    \/ m.json = "object" /\ ~initNal /\ m.encoding.kind = "absent"

HasSets(m) == initNal \/ LooksForSets(m)

\* mediainfo after the "encoding" part.
SetsAfter(m) == IF LooksForSets(m) THEN m.encoding.sets ELSE mediainfo

\* pusher: a frame that starts a picture is preceded by the parameter sets;
\* anything of five bytes or less is left out.
FrameOf(m, n, sets) ==
    CASE m.data = "key"   -> <<[msg |-> n, key |-> TRUE, sets |-> sets]>>
      [] m.data = "delta" -> <<[msg |-> n, key |-> FALSE, sets |-> Unset]>>
      [] OTHER            -> <<>>

\* Mistake: the frame of the message that started the stream is left out.
HandleChecked(created) == fPusherHandle

\* Whether dealMsg gets past if(fPusherHandle==0).
HandleThen(created) == fPusherHandle \/ created

\* Mistake: "data" is looked up before the test of fPusherHandle.
LacksDataAlways(m, created) == m.data = "absent"

\* v["data"], once that is looked at, is not there.
LacksData(m, created) == HandleThen(created) /\ m.data = "absent"

\* One call of dealMsg.
Deals(m) == ~aborted /\ Len(dealtMsgs) < MaxDealt /\ dealtMsgs' = Append(dealtMsgs, m)

\* dealMsg gives the message up; only the count of messages changes.
DealNothing(m) ==
    /\ Deals(m)
    /\ GivesUp(m)
    /\ UNCHANGED <<initNal, mediainfo, fPusherHandle, aborted, startedWith,
                   startedAt, pushed>>

\* The process ends in front of the part that looks for parameter sets.
DealAborts(m) ==
    /\ Deals(m)
    /\ Lacks(m)
    /\ aborted' = TRUE
    /\ UNCHANGED <<initNal, mediainfo, fPusherHandle, startedWith, startedAt,
                   pushed>>

\* dealMsg runs to its end, to the test of fPusherHandle, or to the lookup of
\* a "data" that is not there.  "created" is what EasyPusher_Create answers,
\* if it is asked; EasyPusher_StartStream follows even if it refused, with
\* the null handle.
DealMsg(m, created) ==
    /\ Deals(m)
    /\ ~GivesUp(m) /\ ~Lacks(m)
    /\ created => HasSets(m) /\ ~fPusherHandle
    /\ initNal' = HasSets(m)
    /\ mediainfo' = SetsAfter(m)
    /\ fPusherHandle' = (fPusherHandle \/ created)
    /\ aborted' = LacksData(m, created)
    /\ startedWith' = IF created THEN SetsAfter(m) ELSE startedWith
    /\ startedAt' = IF created THEN Len(dealtMsgs) + 1 ELSE startedAt
    /\ pushed' = IF HandleThen(created)
                 THEN pushed \o FrameOf(m, Len(dealtMsgs) + 1, SetsAfter(m))
                 ELSE pushed

SessionNext ==
    \E m \in Messages :
        \/ DealNothing(m) \/ DealAborts(m)
        \/ \E created \in BOOLEAN : DealMsg(m, created)

SessionSpec == SessionInit /\ [][SessionNext]_sessionVars

-----------------------------------------------------------------------------
(* Properties.                                                             *)

SessionTypeOK ==
    /\ initNal \in BOOLEAN
    /\ mediainfo \in ParamSets \cup {Unset}
    /\ fPusherHandle \in BOOLEAN
    /\ aborted \in BOOLEAN
    /\ startedWith \in ParamSets \cup {Unset}
    /\ startedAt \in Nat
    /\ dealtMsgs \in Seq(Messages)
    /\ pushed \in Seq(Frames)

\* Every key frame carries the very parameter sets the stream was started
\* with, however often EasyPusher_Create was refused in between and whatever
\* later messages say; and no frame is pushed before the stream is started.
KeyFramesMatchStream ==
    /\ pushed # <<>> => fPusherHandle /\ initNal
    /\ fPusherHandle => startedWith = mediainfo /\ mediainfo \in ParamSets
    /\ \A i \in DOMAIN pushed : pushed[i].key => pushed[i].sets = startedWith

\* A message with a frame that is worth pushing.
HasFrame(m) == m.json = "object" /\ m.data \in {"key", "delta"}

\* From the message that started the stream on, that one included, every
\* frame is pushed exactly once and in the order of the messages: no early
\* return of dealMsg can swallow one any more.
EveryFramePushed ==
    LET due == {n \in DOMAIN dealtMsgs :
                  fPusherHandle /\ n >= startedAt /\ HasFrame(dealtMsgs[n])}
    IN /\ {pushed[i].msg : i \in DOMAIN pushed} = due
       /\ \A i, j \in DOMAIN pushed : i < j => pushed[i].msg < pushed[j].msg

\* What ends the process, which no catch in dealMsg can keep up: a message
\* without "msg" at any time, one without "encoding" before there are
\* parameter sets, one without "data" once there is a stream; a server that
\* leaves out what is not needed yet, or no longer, does no harm.
AbortsForLackOnly ==
    LET last == dealtMsgs[Len(dealtMsgs)]
    IN aborted <=>
         /\ dealtMsgs # <<>>
         /\ \/ last.json = "noMsg"
            \/ /\ last.json = "object"
               /\ \/ last.encoding.kind = "absent" /\ ~initNal
                  \/ last.data = "absent" /\ fPusherHandle
=============================================================================
