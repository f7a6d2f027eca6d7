--------------------------- MODULE MessageHandoff ---------------------------
(***************************************************************************)
(* The message queue of one easy_client (h264_pusher/easy_client.cpp) and  *)
(* the three threads that touch it:                                        *)
(*   - the websocket (io) thread runs onMessage, the producer;             *)
(*   - the worker thread runs process, the consumer;                       *)
(*   - the main thread runs stop.                                          *)
(* _messages is guarded by _actionLock; _isProcessing is a plain bool that *)
(* stop writes without the lock, so every read and write of it is a step   *)
(* of its own here.                                                        *)
(***************************************************************************)
EXTENDS Naturals, Sequences

CONSTANTS Payload,       \* the message bodies the server can publish
          MaxReceived    \* bound: how many messages arrive in all

ASSUME HandoffAssumption == MaxReceived \in Nat

VARIABLES
    messages,        \* _messages
    isProcessing,    \* _isProcessing (the constructor leaves it unset)
    actionLock,      \* who holds _actionLock: "free", "io" or "worker"
    localMsgs,       \* process: the rest of the batch swapped out
    workerPC,        \* where process stands
    ioPC,            \* where the websocket thread stands
    ioMsg,           \* onMessage: the payload it was called with
    mainPC,          \* where the main thread stands in stop
    received,        \* history: payloads pushed by onMessage
    dealt            \* history: payloads given to dealMsg

handoffVars == <<messages, isProcessing, actionLock, localMsgs, workerPC,
                 ioPC, ioMsg, mainPC, received, dealt>>

WorkerPC == {"begin",      \* thread created, process not entered
             "test",       \* at while (_isProcessing)
             "acquire",    \* wants _actionLock
             "held",       \* has the lock, about to test the wait condition
             "toWait",     \* found it empty, about to enter wait
             "waiting",    \* asleep in _actionCondition.wait
             "dealing",    \* lock released, walking localMsgs
             "exited"}     \* process has returned

IoPC == {"idle", "acquire", "held", "exited"}

MainPC == {"running",      \* in the runOnce loop
           "joinIo",       \* stop: _isProcessing cleared, joining m_thread
           "joinWorker",   \* stop: joining _thread
           "stopped"}      \* stop has returned

NoMsg == <<>>        \* onMessage is not running

HandoffInit ==
    /\ messages = <<>>
    /\ isProcessing \in BOOLEAN
    /\ actionLock = "free"
    /\ localMsgs = <<>>
    /\ workerPC = "begin"
    /\ ioPC = "idle"
    /\ ioMsg = NoMsg
    /\ mainPC = "running"
    /\ received = <<>>
    /\ dealt = <<>>

-----------------------------------------------------------------------------
(* onMessage, on the websocket thread.                                     *)

\* A data frame is complete: onMessage is called and asks for the lock.
OnMessage(p) ==
    /\ ioPC = "idle"
    /\ Len(received) < MaxReceived
    /\ ioPC' = "acquire"
    /\ ioMsg' = <<p>>
    /\ UNCHANGED <<messages, isProcessing, actionLock, localMsgs, workerPC,
                   mainPC, received, dealt>>

OnMessageLock ==
    /\ ioPC = "acquire"
    /\ actionLock = "free"
    /\ actionLock' = "io"
    /\ ioPC' = "held"
    /\ UNCHANGED <<messages, isProcessing, localMsgs, workerPC, ioMsg, mainPC,
                   received, dealt>>

\* Mistake: push without notify_one.
NotifyForgotten == workerPC

\* notify_one: a sleeping worker goes back to asking for the lock.
Notified == IF workerPC = "waiting" THEN "acquire" ELSE workerPC

\* Mistake: the new message goes to the front.
PushFront == ioMsg \o messages

PushBack == messages \o ioMsg

\* push_back, notify_one, and the lock's release at the end of the scope.
OnMessagePush ==
    /\ ioPC = "held"
    /\ messages' = PushBack
    /\ received' = received \o ioMsg
    /\ workerPC' = Notified
    /\ actionLock' = "free"
    /\ ioPC' = "idle"
    /\ ioMsg' = NoMsg
    /\ UNCHANGED <<isProcessing, localMsgs, mainPC, dealt>>

\* The io_service runs out of work, which it can only do once stop has
\* cleared the endpoint's perpetual flag; m_thread ends.
IoExit ==
    /\ ioPC = "idle"
    /\ mainPC = "joinIo"
    /\ ioPC' = "exited"
    /\ UNCHANGED <<messages, isProcessing, actionLock, localMsgs, workerPC,
                   ioMsg, mainPC, received, dealt>>

-----------------------------------------------------------------------------
(* process, on the worker thread.                                          *)

ProcessBegin ==
    /\ workerPC = "begin"
    /\ isProcessing' = TRUE
    /\ workerPC' = "test"
    /\ UNCHANGED <<messages, actionLock, localMsgs, ioPC, ioMsg, mainPC,
                   received, dealt>>

ProcessTest ==
    /\ workerPC = "test"
    /\ workerPC' = IF isProcessing THEN "acquire" ELSE "exited"
    /\ UNCHANGED <<messages, isProcessing, actionLock, localMsgs, ioPC, ioMsg,
                   mainPC, received, dealt>>

\* The lock is taken: by the unique_lock's constructor or inside wait.
ProcessLock ==
    /\ workerPC = "acquire"
    /\ actionLock = "free"
    /\ actionLock' = "worker"
    /\ workerPC' = "held"
    /\ UNCHANGED <<messages, isProcessing, localMsgs, ioPC, ioMsg, mainPC,
                   received, dealt>>

\* Mistake: the wait condition looks at the queue only.
WaitIgnoresStop == messages = <<>>

MustWait == messages = <<>> /\ isProcessing

\* while (_messages.empty() && _isProcessing) finds the condition true ...
ProcessFindEmpty ==
    /\ workerPC = "held"
    /\ MustWait
    /\ workerPC' = "toWait"
    /\ UNCHANGED <<messages, isProcessing, actionLock, localMsgs, ioPC, ioMsg,
                   mainPC, received, dealt>>

\* ... and wait gives the lock up and sleeps, in one step.
ProcessWait ==
    /\ workerPC = "toWait"
    /\ actionLock' = "free"
    /\ workerPC' = "waiting"
    /\ UNCHANGED <<messages, isProcessing, localMsgs, ioPC, ioMsg, mainPC,
                   received, dealt>>

\* A condition variable may wake without a notification.
SpuriousWakeup ==
    /\ workerPC = "waiting"
    /\ workerPC' = "acquire"
    /\ UNCHANGED <<messages, isProcessing, actionLock, localMsgs, ioPC, ioMsg,
                   mainPC, received, dealt>>

\* Mistake: the batch is copied, the queue not emptied.
CopiedQueue == messages

\* swap leaves the (empty) new vector behind.
SwappedQueue == <<>>

\* The wait condition is false: swap the queue out and unlock.
ProcessSwap ==
    /\ workerPC = "held"
    /\ ~MustWait
    /\ localMsgs' = messages
    /\ messages' = SwappedQueue
    /\ actionLock' = "free"
    /\ workerPC' = "dealing"
    /\ UNCHANGED <<isProcessing, ioPC, ioMsg, mainPC, received, dealt>>

\* One turn of the for loop: dealMsg, which lets no exception out.
ProcessDeal ==
    /\ workerPC = "dealing"
    /\ localMsgs # <<>>
    /\ dealt' = Append(dealt, Head(localMsgs))
    /\ localMsgs' = Tail(localMsgs)
    /\ UNCHANGED <<messages, isProcessing, actionLock, workerPC, ioPC, ioMsg,
                   mainPC, received>>

\* Mistake: the for loop looks at _isProcessing and leaves the batch.
BatchAbandoned ==
    /\ workerPC = "dealing"
    /\ localMsgs = <<>> \/ ~isProcessing
    /\ workerPC' = "test"
    /\ localMsgs' = <<>>
    /\ UNCHANGED <<messages, isProcessing, actionLock, ioPC, ioMsg, mainPC,
                   received, dealt>>

ProcessBatchDone ==
    /\ workerPC = "dealing"
    /\ localMsgs = <<>>
    /\ workerPC' = "test"
    /\ UNCHANGED <<messages, isProcessing, actionLock, localMsgs, ioPC, ioMsg,
                   mainPC, received, dealt>>

-----------------------------------------------------------------------------
(* stop, on the main thread: it takes no lock and notifies nobody.         *)

StopClear ==
    /\ mainPC = "running"
    /\ isProcessing' = FALSE
    /\ mainPC' = "joinIo"
    /\ UNCHANGED <<messages, actionLock, localMsgs, workerPC, ioPC, ioMsg,
                   received, dealt>>

StopJoinIo ==
    /\ mainPC = "joinIo"
    /\ ioPC = "exited"
    /\ mainPC' = "joinWorker"
    /\ UNCHANGED <<messages, isProcessing, actionLock, localMsgs, workerPC,
                   ioPC, ioMsg, received, dealt>>

StopJoinWorker ==
    /\ mainPC = "joinWorker"
    /\ workerPC = "exited"
    /\ mainPC' = "stopped"
    /\ UNCHANGED <<messages, isProcessing, actionLock, localMsgs, workerPC,
                   ioPC, ioMsg, received, dealt>>

-----------------------------------------------------------------------------

IoNext == (\E p \in Payload : OnMessage(p)) \/ OnMessageLock \/ OnMessagePush
          \/ IoExit

\* Every step of process but the spurious wake-ups, which nothing promises.
WorkerStep == ProcessBegin \/ ProcessTest \/ ProcessLock \/ ProcessFindEmpty
              \/ ProcessWait \/ ProcessSwap \/ ProcessDeal \/ ProcessBatchDone

StopNext == StopClear \/ StopJoinIo \/ StopJoinWorker

HandoffNext == IoNext \/ WorkerStep \/ SpuriousWakeup \/ StopNext

HandoffSpec == HandoffInit /\ [][HandoffNext]_handoffVars

\* A thread that can run is scheduled in the end.  Nothing is assumed of
\* the server (no message need come), of main (stop need not be called) or
\* of the condition variable (it need not wake by itself).
HandoffFairness ==
    /\ WF_handoffVars(WorkerStep)
    /\ WF_handoffVars(OnMessageLock)
    /\ WF_handoffVars(OnMessagePush)

HandoffLiveSpec == HandoffSpec /\ HandoffFairness

-----------------------------------------------------------------------------
(* Properties.                                                             *)

Stopping == mainPC # "running"

\* Type invariant of the queue and of the three threads.
HandoffTypeOK ==
    /\ messages \in Seq(Payload)
    /\ isProcessing \in BOOLEAN
    /\ actionLock \in {"free", "io", "worker"}
    /\ localMsgs \in Seq(Payload)
    /\ workerPC \in WorkerPC
    /\ ioPC \in IoPC
    /\ ioMsg \in Seq(Payload)
    /\ mainPC \in MainPC
    /\ received \in Seq(Payload)
    /\ dealt \in Seq(Payload)

\* The batch being dealt with and the queue behind it hold exactly what was
\* received and not dealt with, in order: the swap in process and the push
\* in onMessage neither drop, repeat nor reorder a message.
NothingLost == dealt \o localMsgs \o messages = received

\* The worker never sleeps, nor goes to sleep, on a queue that has messages:
\* what onMessage pushes before the wait is seen, what it pushes after is
\* notified.
NeverSleepsOnWork ==
    workerPC \in {"toWait", "waiting"} => messages = <<>>

\* process returns for no other reason than stop, whatever the value the
\* constructor left in _isProcessing, and never in the middle of a batch.
ExitsOnlyOnStop ==
    workerPC = "exited" => Stopping /\ localMsgs = <<>>

\* Until stop is called every message received is dealt with in the end.
EveryMessageDealt ==
    \A n \in 1..MaxReceived :
        Len(received) >= n ~> (Len(dealt) >= n \/ Stopping)

\* Once stop has cleared _isProcessing for good, a worker that is not asleep
\* (nor past its last look at the flag) does return, and so does a sleeping
\* one that a late message wakes.  This is as much as stop, which notifies
\* nobody, can count on.
StopEndsAwakeWorker ==
    (/\ Stopping
     /\ ~isProcessing
     /\ workerPC \notin {"begin", "toWait", "waiting"})
      ~> workerPC = "exited"

\* Who holds _actionLock is where the two threads stand, so the queue is
\* never touched by both: process gives the lock up for every wait and every
\* batch, and onMessage for every return.
LockDiscipline ==
    /\ actionLock = "io" <=> ioPC = "held"
    /\ actionLock = "worker" <=> workerPC \in {"held", "toWait"}

\* What the invariance proof adds to the properties above.
HandoffInv ==
    /\ HandoffTypeOK
    /\ NothingLost
    /\ NeverSleepsOnWork
    /\ ExitsOnlyOnStop
    /\ LockDiscipline
    /\ workerPC # "dealing" => localMsgs = <<>>
    /\ workerPC # "begin" /\ ~isProcessing => Stopping
    /\ ioPC \in {"acquire", "held"} => \E p \in Payload : ioMsg = <<p>>

\* The hand-over implements the abstract first-in first-out delivery.
Fifo == INSTANCE FifoDelivery
ImplementsFifo == Fifo!FifoSpec
=============================================================================
