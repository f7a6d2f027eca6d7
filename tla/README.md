# Verification of easy_pusher

TLA+ models of the repository's programs, the TLC runs that check them on small
instances, and theorems proved with TLAPS. Paths are relative to the
repository's root; `easy_client.cpp:97` and the like are under
`src/h264_pusher/` unless another directory is named.

`PROJECT.json` lists, in machine-readable form, the components, the runs with
their properties, a mutant for every property (a plausible mistake in the code
that the property catches), the source lines every definition models, the
hazards and the theorems.

## 1. The system

Two programs, `easypusher` (`src/h264_pusher`) and `monibuca_pusher`
(`src/push_monibuca`), read a list of camera streams from a json file. For each
stream a client object subscribes on a websocket server, takes H.264 frames
(json, base64) from it and pushes them on to a media server, through the
EasyPusher library in the first program and through ZLMediaKit in the second.
`src/rtsp_player` is a demonstration. `src/websocketpp`, `src/rapidjson` and
`src/ZLM/include` are vendored.

Every client has three threads in it:

| thread | runs | touches |
|---|---|---|
| main, shared by all clients | `runOnce` about once a second; `connect` and a sleep of 5 s in it when the status is Close; at the end `stop` | `_clientStatus` (reads), the endpoint, `_isProcessing`, the threads |
| `m_thread`, the websocket thread | `ClientType::run`: all handlers, one at a time | `_clientStatus`, `_ppConnection`, `_messages` |
| `_thread`, the worker | `process`, `dealMsg`, `pusher` | `_messages`, `_isProcessing`, the session's state |

Only `_messages` has a lock (`_actionLock`). `_clientStatus`, `_ppConnection`
and `_isProcessing` are plain variables used by two threads. The server, the
network, the two media libraries and the kernel (signals, scheduling) are the
environment.

### Inventory

| component | state | operations | what is hard | what makes it correct |
|---|---|---|---|---|
| message hand-over (`easy_client.cpp` 83-109, 221-231) | `_messages`, `_isProcessing`, `_actionLock`, the batch | `onMessage`, `process`, `stop` | three threads; wake-ups; a stop without lock or notify | no message lost, repeated or reordered; no sleep on work; exit for stop only |
| websocket link (43-82, 221-252) | `_clientStatus`, `_ppConnection`, endpoint's handlers, connections | `runOnce`, `connect`, `onOpen`, `onFailed`, `onClose`, `stop` | attempts longer than the sleep overlap; late events of old connections; the first connection has no handlers | status and handle tell the truth; every open connection is subscribed; the client keeps trying |
| push session (111-219, 283-336) | `init_nal`, `mediainfo`, `fPusherHandle` | `dealMsg`, `pusher` | early returns, swallowed exceptions, lookups whose assertions end the process, a refused `EasyPusher_Create` | key frames carry the started stream's parameter sets; no frame of a started stream dropped; nothing but a missing member ends the process |
| `get_sps_pps_nalu` (`nalu.hpp`) | two pointers | the scan | look-ahead past the end, backward steps, cuts | finds what a start code definition says; ends |
| main of both programs (`easypusher.cpp`, `monibuca_pusher.cpp`) | `isRunning`, clients | `loadJson`; construct, round, stop loops; `signalHandler` | a handler on any thread at any moment; lookups that assert | clients take turns; the interrupt ends the process; a node for every station |
| `base64.hpp` | none | encode, decode | groups, padding, foreign characters | decode is the inverse of encode |
| `push_node` | as `easy_client`, without a session state | the same code, line for line, in link and queue; `initPusher` | its threads run before `initPusher` is called | frames reach the medium it made |
| `ZLMWorker` | media and pusher handles | `ZLM_MediaInit`, `ZLM_Input`, callbacks, destruction | callbacks of other threads; handles no constructor sets | one pusher per medium; a source that appears is pushed |
| rapidjson `reader.h`, `document.h` | stream position, stack of values | both parsers, lookups | counts on the stack, number overflow, surrogates, zeros in strings | the document is what the text says; both parsers agree |
| websocketpp endpoint, connection, asio transport | sessions, timers, write queue | connect, handshakes, frames, terminate | timers against completions; main and websocket thread in one connection | each connection opens or fails once, and closes once if it opened |
| websocketpp hybi13, frames, http response, utf8 | buffer, parser states, message under way | `consume`, `prepare_*`, `process_control_frame` | reads that end anywhere; control frames between fragments; limits | frames are dealt with as if they came whole, one after the other |
| server role, TLS, other transports, `rtsp_player` | | | unused, or without state of its own | |

## 2. Modules

```
FifoDelivery  <-- implements --  MessageHandoff --+
                                                  +--> EasyClient
                                 ClientLink ------+
WsLifecycle   <-- implements --  WsConnection
FrameSession  <-- implements --  WireRead
Utf8 --> Hybi13; Hybi13, HttpResponse --> WireRead
AppMain, ZlmWorker --> MonibucaMain
JsonText --> JsonReader, Base64 --> MessagePath --> JsonSamples
PushSession, NaluScan, JsonSamples --> MCDealMsg
CodecProofs --> DealMsgProofs, WireProofs; WireProofs --> FrameProofs --> FrameSessionProofs
EasyClientProofs, MonibucaProofs, WsConnectionProofs
*Proofs: the theorems
MC*: the instances TLC checks
```

(`A --> B`: B is built on A, by EXTENDS or by INSTANCE.)

**FifoDelivery** is the abstract promise of the queue: what was received is
dealt with in order, each message once, with any delay.

**MessageHandoff** models `onMessage`, `process` and `stop` as far as they share
`_messages` and `_isProcessing`. `workerPC`, `ioPC` and `mainPC` say where each
thread stands. Since `stop` writes `_isProcessing` without the lock, every read
of it is a step of its own: `ProcessTest` is `while (_isProcessing)`,
`ProcessFindEmpty` the evaluation of the wait condition and `ProcessWait` the
wait itself. A wake-up is either `notify_one` (`Notified`) or spurious. The
constructor leaves `_isProcessing` unset, so `HandoffInit` allows both values.
A thread's effects are seen by the others in program order; that is what the
compilers and machines in question give for a plain `bool` read in a loop that
takes a lock, and it is the model's one assumption about memory.

**ClientLink** models the link. A connection is a number, in the order of
creation; `con` says what has become of each. `connect` is three steps
(`GetConnection`, `SetHandlers`, `StartConnect`) because the websocket thread
runs in between and because their order matters: the endpoint copies its
handlers into a connection when it creates it
(`src/websocketpp/impl/endpoint_impl.hpp` 58-68), so the first connection, which is created
before any handler is set, has none. `onOpen` is three steps for the same
reason. `onFailed` and `onClose` do nothing that the main thread could see in
parts (two assignments, of which the first stores the value that is there), so
they are one step, together with the end of the connection that calls them.
`sleep(5)` is a step without a duration: an attempt may take longer (5 s each
for name resolution, connecting and the handshake) or be quicker.

**EasyClient** composes the two: the websocket thread runs one handler at a
time, `onMessage` among them, and `stop`'s steps touch both parts in the order
of the source.

**PushSession** is `dealMsg` and `pusher` on the worker thread, one message a
step. A message is what `dealMsg` distinguishes: whether it parses, is an object
and has a `msg`, whether `encoding` is missing, no string, too short, yields
parameter sets or makes the scan throw, and whether `data` is missing, no
string, five bytes or less, a key frame or another frame. A member that is looked
up with `operator[]` and is not there fails `RAPIDJSON_ASSERT`
(`src/rapidjson/document.h:1053`), which is `assert` (`rapidjson.h:402`): no build
file defines `NDEBUG` or a release build, so it ends the process (`aborted`).

**NaluScan** is `get_sps_pps_nalu`, one turn of its loop a step, on bytes.
`find_next_nal` looks at four bytes from every offset up to and including the
end, so the model has the terminating zero of the `std::string` and four bytes
of whatever lies behind it (`junk`).

**Base64** is `base64.hpp` byte by byte, with the bits kept as numbers: the
shifts are products and quotients.

**JsonText** has the lexical half of `reader.h`: strings with their escapes and
surrogates, and numbers, with the widths of the integer types as constants
(`IntHalf`, `LongHalf`, `Mantissa`, `DoubleMax`, `MaxExp`), so that TLC reaches
every limit with few digits. **JsonReader** has the two parsers, the recursive
one both programs use and the one with a table of states, and the handler that
builds the document on a stack of values. Rounding of doubles is left out: a
number is a mantissa and a power of ten. **MessagePath** is the way from the
text of a message to the two payloads `dealMsg` works on, and `loadJson` of both
programs from the text of the file to the nodes, byte order mark included.
**JsonSamples** has the texts and, independently of the parsers, what each is.

**AppMain** is the two `main` functions with the signal handler, which the
kernel runs on any thread: on main it interrupts it for good (it ends in
`exit`), on another it runs beside main. Clients are reduced to the calls.

**ZlmWorker** is the worker of one `push_node`: main sets it up, the client's
worker thread feeds it, ZLMediaKit calls back. Neither handle is set by the
constructor, so each starts as null or as `junk`; which, decides whether the
worker ever pushes (`zlapi_worker.cpp:21`). **MonibucaMain** composes it with
`AppMain`: `initPusher` is one call a step, because the client's threads run
since its construction. The first client's worker is modelled in full; those of
the others share nothing with it. What is assumed of ZLMediaKit: it calls back
for one source at a time, and not after the medium is released. The push node's
queue and link are `easy_client`'s code line for line, so `MessageHandoff` and
`ClientLink` stand for them.

**WsConnection** is one client connection of websocketpp from `async_connect` to
`handle_terminate`. A step is a completion handler with everything it calls;
`setup`, `reading`, `currentMsgs` and `posted` are the operations and posted
calls the io_service holds. A timer goes from `armed` to `late` (its deadline
has passed; `is_neg(expires_from_now())` is true, and `cancel` still works) to
`expired` (its handler is queued and cannot be cancelled) to `ran`. `terminate`
includes `handle_terminate`, because shutting down a plain socket calls back at
once. `connection::close` on the main thread is five steps (check, mark, timer,
push, dispatch): it holds `m_connection_state_lock`, which `pong`, `close` and the
handshake handlers take and `terminate` does not. `pong` is two steps for the
same reason. A bad close frame is answered in state closing too
(`connection_impl.hpp:1981-2018`), as often as one comes: each answer queues a
further close frame and sets a new close handshake timer, while the one it takes
the place of runs on where nothing can cancel it (`:2131-2141`; `abandoned` counts
these). `closeQueued` and `afterClose` are history variables: they record what
was queued and no step reads them to decide anything. Without TLS the post-init and shutdown timers guard calls that
complete inside the call that sets them, so they are left out; a close frame
prepared by the client is always valid; the open handler's `send` is part of the
step that opens; unsynchronised accesses to the timer pointer and to `m_state`
are taken to be whole.

**WsLifecycle** is what a user of a connection is promised: open or fail, and
close after open, once each. Its steps are those `ClientLink` takes for each of
its connections, so `ImplementsLifecycle` is what `ClientLink`'s events rest on.

**WireRead** is what that connection does with bytes: reads cut the input
anywhere (`Read`), `ReadResponse` takes the answer to the handshake line by line
(**HttpResponse**), `FrameTurn` is one turn of `hybi13::consume` (**Hybi13**,
with the incremental validator of **Utf8**), `Dispatch` what follows for a whole
message, and `Send` and `Close` are calls of another thread between them. What it
writes is kept in bytes. Lengths of 2^30 and more are not told apart, and the
check of the message size is done on numbers without a width; timers and the
write queue are `WsConnection`'s, as are extensions that do not parse. `WireInit`
allows any answer, any frames behind it and any calls of the program. `Orderly`
says which of these `FrameSession` speaks of: each frame's size is one that can be
written in its bits and agrees with its payload (`FramesFit`; the payload of the
last may still be on its way, and since reads may stop anywhere, so may the end of
any other), no body stands between answer and frames, and the program sends what
fits in 32 bits and closes with codes it may send (`ProgramFits`).

**FrameSession** is the same conversation with no bytes in it: one whole frame a
step, faults found by looking at the frames as records. `ImplementsFrameSession`
decodes what the client wrote the way a server does and compares.

## 3. Runs

| run | instance | what it shows |
|---|---|---|
| `handoff` | 2 payloads, 4 messages | `NothingLost`, `NeverSleepsOnWork` in every interleaving of the three threads; every message is dealt with unless stop comes; a worker that is awake obeys stop; `ImplementsFifo` |
| `link` | 5 connections | status, handle and subscription agree under every order of events; `KeepsTrying`; `StopJoinsWithoutOrphans` |
| `client` | 3 connections, 2 messages | nothing runs after stop; only messages too late for the last batch are missing; the link behaves as alone; `StopReturns`, and, from any state, `StopReturnsOrHangs` |
| `deal_msg` | 3 messages; 554 buffers; some 35 000 texts | session: key frames match the stream, every frame is pushed once and in order, only a lack ends the process; scan: what it finds, that it ends; text: documents, strings, numbers, base64, messages and configurations are read as what they say, by both parsers alike |
| `app_main` | up to 3 clients (`push_monibuca` 2), 2 sources, 5 events | no starvation, the interrupt ends the process; one push per worker, frames reach its medium only, a source that appears is pushed |
| `ws_contract` | websocket thread only, 2 frames queued behind the one in flight | the connection implements the life cycle; nothing stays in the io_service after the end, abandoned timers included |
| `ws_races` | main inside `close`, bad extensions | every queued frame has someone to write it; behind a close frame only close frames are queued, and one pong if main calls close; attempts and closing handshakes end, however many bad close frames come |
| `wire` | 19 kinds of answer, up to 3 frames, limits 40 and 127 | every answer is taken or refused as a whole; nothing is held back; the bytes implement `FrameSession` |
| `app_shutdown`, `ws_close_twice`, `ws_open_and_fail`, `wire_text` | | violations: see section 6 |

**Bounds.** Four messages are two batches of two with the queue filled behind
the first; nothing in the hand-over depends on a message's number. Three
connections are the smallest number at which a deaf, a superseded and a current
connection exist together; the link's own run has five, so that a superseded
connection's end can meet two newer ones. `MaxQueue` lets frames and calls of
`write_frame` pile up behind a write and be taken in one batch. It bounds the pings
and the close frames that are answered while others wait, and the abandoned
timers; the first close frame a thread queues is not bounded by it.

In `deal_msg` a behaviour is about one of the three layers while the others stand
still. Three messages of a session are a refusal, a start and a frame after it.
The buffers of the scan hold up to three units of all relevant types with zeros
wherever a start code could be mistaken. The texts are all sequences of up to
four tokens, the documents a grammar generates of five to nine tokens, and the
shorter of these with one token dropped, doubled or replaced; numbers have up to
five digits in each part, against limits of two to four digits, so that every
comparison of the parser is met from both sides.

In `app_main` two sources and five events let both appear, go and appear again;
`RoundMod = 3` tells one round ahead from one behind. In `wire` a read may end
behind every byte of an answer, and behind every byte of the frames; the texts
are all that the validator's table can tell apart; 40 and 127 put answers and
messages on both sides of the limits and a length on both sides of its coding.

**Fairness.** A thread that can run is scheduled (weak fairness of each thread's
steps). A connection attempt and a closing handshake end, because each of their
phases has a timer of 5 s (`src/websocketpp/config/core_client.hpp` 139-160);
strong fairness of `GetConnection` says that creating a connection does not fail
for ever, as its only error is an invalid url. In `WsConnection` that assumption
is a result: time passes, an expired timer's handler runs, also that of an
abandoned one, posted calls run, and
an operation ends once the timer that guards it has passed or its socket is shut
(`OperationEnds`); the peer may keep everything else waiting for ever. In
`MonibucaFairness` main and a begun handler are scheduled and ZLMediaKit finishes
a callback it has begun. The scan's loop goes on. Nothing is assumed of the
server (that it accepts, publishes or closes), of signals,
of frames or sources appearing, or of `stop` being called; in `AppMain`, not even
that a client's `stop` returns. Spurious wake-ups are not assumed either: where
they keep occurring the worker could go round its wait for ever, and
`StopReturnsOrHangs` speaks of the behaviours in which they end (`WakeUpsEnd`).

**What stop can promise.** `StopReturns` and `StopEndsAwakeWorker` have long
preconditions because `stop` does not return in general, for two reasons the
model shows: it clears `_isProcessing` without notifying, so a worker asleep in
`wait` stays asleep (`easy_client.cpp:223`, `:229`); and a connection that is
open but not in `_ppConnection` (the deaf first one, or one superseded by an
overlapping attempt) is closed by nobody, so the io_service never runs out of
work (`:226`, `:227`). The preconditions name states without these.
`StopReturnsOrHangs` asks nothing of the state:
whatever has happened before, from a call of `stop` on either it returns or main
stays in one of its two joins for one of exactly these reasons, at the first
while a connection is open (also one that opens behind `stop`'s close), at the
second while the worker sleeps on an empty queue (also one that `begin` started
after `_isProcessing` was cleared). TLC refutes it with either reason left out.

**What the scan does at the edges.** `ScanFindsSets` describes, among the rest,
`nalu.hpp:55`: an SPS without a start code behind it loses four bytes (the PPS
has a case of its own for this, `:58-63`), and one of less than four bytes makes
`assign` throw. `ScanTerminates` has the precondition that the memory behind the
buffer does not complete a start code begun in it.

**What the text layer shows.** The two parsers differ only in the error for
texts that start with `]`, `}`, `,` or `:`. A low surrogate that stands alone is
accepted and becomes bytes that are not UTF-8. Of two members with one name the
lookups take the first, while `loadJson`, which walks over the members, keeps the
last.

**What the bytes show.** The limit on the header of the answer counts three bytes
for every read that does not complete it, so it depends on how the answer is cut
(`HandshakeDecided` states the count). A length that could be written in fewer
bits closes the connection with 1011, since only the other faults have a code of
their own. A bad close frame that comes while the client is closing gets a second
close frame. In `WsConnection` that is one close frame and one new timer for each,
without end; that the old timers run on is what makes `ClosingEnds` hold. Were the
running timer set anew instead, a server could put off the end of the connection
for as long as it sends such frames.

## 4. Proofs

Eight modules prove, for every value of the constants, what follows
(`EasyClientProofs` has the hand-over, the link and the whole client,
`DealMsgProofs` the session and the scan). TLC evaluates
the assumptions on the constants in the runs; they are bounds being natural
numbers (messages of less than 2^30 bytes, `MaxMessageAssumption`: the programs'
configuration allows 32 000 000), at least one connection (`LinkAssumption`), at
least one stream and rounds counted modulo more than two (`AppAssumption`), and
masking keys of four bytes (`KeysAssumption`).

*Hand-over.* The invariant `HandoffInv` adds to the four properties: who holds
the lock is where the threads stand (`LockDiscipline`), needed because
`NothingLost` and `NeverSleepsOnWork` hold across a wait only if nobody pushes
while the worker has the lock; the batch is empty outside `dealing`; a cleared
`_isProcessing` after `begin` means stop was called, needed for
`ExitsOnlyOnStop`; and `onMessage` holds one payload. The last theorem shows
each step to be a `FifoDelivery` step or a stutter. Its facts on sequences
(`SequenceTheorems`) are stated as lemmas first.

*Link.* `LinkInv` adds where `onOpen` stands (`opening`, `onOpenPC`) and what it
has stored so far, which connections exist, and that the endpoint has its
handlers from the first `SetHandlers` on. `StatusMatchesConnection` is not
inductive without them: a failing attempt leaves the status alone only because
the current connection is one that has opened (`CurrentHasOpened`).

*Whole client.* Each step of `EasyClient` is a step of `MessageHandoff` or a
stutter, and likewise of `ClientLink`, also where `stop` touches both
(`ClientRefinesLink`). For the hand-over that follows at once from how the steps
are composed, and is a lemma only. The parts' invariants, and with them
`ImplementsFifo` and `OnlyCurrentCloses`, therefore hold in the whole. What the
parts cannot say is how their threads fit together; that is `ThreadsAgree`: the
websocket thread has ended exactly when the io_service has run out of work, and
then no connection is alive and none is being opened; the reconnect thread and
main agree on where `stop` is, so that the io_service may run out only after
`stop_perpetual`. With it, both `join`s mean what they should:
`NothingRunsAfterStop` and, since the batch is empty whenever the worker has
left, `StopLosesOnlyTheQueue`.

*Session.* `SessionInv` is the type, the three properties of `deal_msg` and
`StartedBySets`: sets found stay, and a stream was started in one of the
messages dealt with. From these the frames that are due after a step are those
due before and at most the one of the message at hand, which is the whole of
`EveryFramePushed`; `FrameOfMessage` says when there is one.

*Both mains and ZLMWorker.* `MonibucaInv` ties main's place to the rest:
`LoopsStartAtFirst` and the ranges of the loops, `ClearedByInterrupt` (a cleared
`isRunning` after start-up means the handler has run, hence `StopsForAReason`),
`InitProgress` (where main stands in `initPusher` says what it has done there,
and no client is in main's list, nor has connected, before it has returned,
hence `FramesReachMedium` although the handle starts as junk) and `PushProgress`
(`publishes`, the pusher handle and the callback's place, hence
`OnePushPerWorker`). `TurnsInv` gives
`RoundsInStep`: with main at client `at` those before it are one round ahead and
all others are equal; its lemmas are the arithmetic modulo `RoundMod`.

*Connection.* `WriteInv` is the type, `WriteDiscipline` (the write flag is set
exactly while frames are in flight, but that a connection that a write has ended
never clears it) and `NoForgottenWrite`. `CloseInv` gives
`OnlyClosesBehindClose` for every value of the constants: once a close frame is
queued the state is closing or closed for good, and an answer still on its way in
`pong` can then only be one that passed its check before main's close, so the
count is accounted for by that single answer. `LifeInv` (the open handler comes
before the close handler and not before the state is open) holds under
`~MainCloses` and `~BadExtensions`; these conditions are exactly those of the
findings, without which the theorem is false.

*Recursion.* What a recursive function computes for every input needs an
induction, and the induction theorems of the library take an operator, which the
provers do not instantiate. `SetInduction` states it without one: a set of
numbers that has 0 and with each number the next has every number. It is proved
from cardinalities: were `n` missing, the successor would map the members up to
`n` one to one into those but 0, which are fewer. The three parts below use it with
the set of lengths, or of offsets, for which the claim holds; where a definition
folds over a string, a lemma first unfolds the fold into a recursive function.

*Scan.* `FindsNextCode`: `find_next_nal` returns the first start code at or
behind its argument, or the end, although it moves on by two where a zero is
followed by another byte; the induction is over the distance to the end. `ScanInv`
says that what has been assigned so far is the last set of its kind in front of
the pointer, cut the way the source cuts it; from that and the place where the
loop leaves follows `ScanFindsSets`. It needs `JunkHarmless` (the memory behind
the buffer completes no start code) where the properties do. Under the same
condition every turn moves the pointer forward (`ScanAlwaysAdvances`), which is
the safety half of `ScanTerminates`.

*Codecs.* `EncodeIsExact` and `DecodeIsExact` compare base64, which works on
groups of three bytes and four characters, with the definition by single bits:
groups do not depend on each other, so it is the arithmetic of one group and of
the short one at the end. Decoding stops at the first foreign character whatever
the text is. `DecodeInvertsEncode` puts them together. For UTF-8,
`ValidatorIsExact` says that the two tables of `utf8_validator.hpp` accept
exactly the strings whose characters are well-formed by code point (no overlong
forms, no surrogates, nothing above U+10FFFF). What makes the induction go
through is `Ahead`: for each state, what must still come in front of the next
character. `PiecesAddUp` is why the processor may validate frame by frame,
`RejectsWhenHopeless` that it neither gives up too early nor too late, and
`CompletableIsExact` that three bytes more are enough to tell, which is how
`FrameSession` says it.

*Handshake.* `HandshakeDecided` looks at two moments, the opening of the
connection and its end without a frame sent, and says nothing of the reads in
between; what makes it inductive is what the parser knows after each of them.
`LinesTaken`: the lines taken are the first ones of the answer, each of the kind
that belongs in its place, and `m_header_bytes` is four for each of them (a line
is one symbol and the delimiter counts three) and three for every read that has
ended, so that it depends on the cuts through their number alone.
`AnswerComes` says where the lines are in the input, from which `NextLineEnd`
finds the next one; `RefusedForLimit` that an exception on a valid answer is one
of the limit; `LinkFollowsAnswer` what the link's state says of all this,
through frames, pings, close frames and the other thread's calls; and
`ProcTypeOK` that the processor asks for the bytes its header is short of, so
that no turn goes back behind the answer. Frames of any content may follow the
answer. `JudgesAnswer` compares the handshake's judgement with `AnswerValid`, a
definition that looks at the answer alone. A `Content-Length` that is no number
is refused only where no good one is in front of it, since the values of a
header that comes twice are joined and the first number is read.

*Frames.* `NothingHeldBack` looks at the moments at which the client waits for the
socket, `ImplementsFrameSession` at those at which a frame is complete. Between
them the socket may cut anywhere, and what the processor holds then is `FrameInv`:
some number `i` of frames has been dealt with (`StandsBehind`), and the processor is
`InHeader` (the first two bytes behind frame `i`, as far as they have come),
`InExtendedHeader` (those two were in order; the bytes behind them, and as many
needed as the frame's header is short of) or `InPayload` (the message under way is
the pieces before this frame and what has come of its payload, with the
validator's state for exactly these bytes), unless it has found the very fault
`FrameSession` finds in the frame (`HasFailed`). `FrameInvariance` shows every step
to keep this. The two descriptions meet in the lemmas on one header: the fields
read from its bytes are the frame's (`HeaderReads`), and it is refused in the code's
order of checks exactly when the frame is `Malformed`, `Wasteful` or `TooLong`. For
text, `PiecesAddUp` carries the validator's state over frames and cuts,
`CompletableIsExact` turns its rejection into the abstract fault.

From `FrameInv` follows `NothingIsHeldBack`: when no byte is left and no turn is
due, the number of whole frames read is the number dealt with; one whose payload
never comes but which its header condemns has been refused. `FramesAreHandledWhole`
takes the refinement step by step: `Dispatch` is a frame handled, as is the turn
that ends a piece which does not end its message; `ConsumeFails` is a fault
answered, `Opens` and `ResponseFails` are `Open` and `Refused`, `Send` and `Close`
are what the program says (or nothing, if its text is refused), and all other steps
change nothing the session shows. Since the session shows what a server decodes, the
proof also says that what is written reads back: masking twice is the identity
(`XorTwice`, bit by bit), and the length, in the form its size calls for,
is the length (`PreparedDecoded`).

Both theorems have the hypothesis `Orderly`, as the runs have (TLC evaluates it in
`MCInit`). Without it they are false: behind a frame that announces another size
than it has, the next begins elsewhere, and of a body that the answer announces
the client takes only what comes in the read that ends the answer. `HandshakeIsDecided` needs none of it.

Proved though no run checks them: the type invariants, `ExitsOnlyOnStop`,
`CurrentHasOpened`, `OnlyFirstIsDeaf`, `OnlyCurrentCloses`, `StopsForAReason`,
`RoundsInStep`, `FindsNextCode`, `ScanAlwaysAdvances`, the invariant `FrameInv`, and
the theorems on base64 and UTF-8. (That the definitions on both sides of these agree on samples is part
of `deal_msg`, `wire` and `wire_text`.)

Left to TLC: liveness under fairness and `ENABLED` (`StopReturns`, `StopReturnsOrHangs`,
`ScanTerminates`, the liveness half of `ImplementsLifecycle`), and the parsers, which
are RECURSIVE operators because they call each other the way the source does, and
with them the properties of `deal_msg` on texts. (`Base64Exact`, which is stated
there beside the parsers, is what *Codecs* proves of any string.) The violations of section 6 are
counterexamples, not theorems.

## 5. Not modelled, and the plan

Not modelled: wording of logs, timestamps, and the count of messages, which is
only printed; memory (the frame buffers of `pusher` are freed by nobody in the
repository, `_messages` has no bound, the parameter sets are copied into arrays
of a fixed size, the parser calls itself for every level of nesting); what
follows a second `stop` (the destructor calls it again, joining and deleting what
is gone); what releasing a handle that was never set does; which of its sources
ZLMediaKit registers first, while the pusher is bound to the one named `rtsp`;
`rtsp_player`, which passes its argument to the library and waits for a key.

Most of the tree is vendored code the programs never run: of rapidjson the
schemas, pointers, writers, in-situ parsing and other encodings; of websocketpp
the server role with its older processors and request parser, TLS, the iostream
and debug transports, compression, the loggers, the request for proxies and the
synchronised random devices. The definitions cover the lines that run, about a
tenth of all lines of the tree.

Order of the further work:

1. `ClientLink` over several `WsConnection`s: the shared resolver, and the two
   divergences of section 6 as events the client has to live with.
2. The session behind the hand-over, and clients under `MonibucaMain`.

## 6. Findings

*`easypusher.cpp:26`.* The comment in `signalHandler` announces "clean up and
close" (清理并关闭). The handler clears `isRunning` and calls `exit`, so the loop
that stops the clients (180-183) is not reached: run `app_shutdown` shows the
process ended with every client unstopped. (Only when another thread runs the
handler can main, between the two statements, get to stop anything.)

*`connection_impl.hpp:2124`.* `connection::close` looks at `m_state` and then, in
`send_close_frame`, sets it to closing, under a lock that `terminate` does not
take. If the websocket thread ends the connection in between, the state goes
from closed back to closing and the next `terminate`, at the latest that of the
close handshake timer, calls the close handler a second time; `connection.hpp:66`
promises exactly once. Run `ws_close_twice`. In these programs `stop` calls
`close` from the main thread, and a second `onClose` does no harm: it stores the
status that is there.

*`connection_impl.hpp:1629`.* When the server's `Sec-WebSocket-Extensions` does not
parse, the connection is terminated (fail handler) and, for want of a return,
opened all the same (open handler); `connection.hpp:74` says either the one or the
other. Run `ws_open_and_fail`. The connection is then lost at its first read or
write, and `close` is reported; the client's status goes through Closed and Open
to Closed.

*`hybi13.hpp:537`.* `finalize_message` checks that a text is complete only if the
frame at hand is a text frame; at the end of a message of several frames that is
a continuation. The comment at `:536` wants text messages to "end on a valid UTF8
code point". Run `wire_text`: a text cut off inside its last character is
delivered when it comes in two frames, and refused when it comes in one. In
these programs the text goes to the json parser, which takes it as it is.
