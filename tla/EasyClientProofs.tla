-------------------------- MODULE EasyClientProofs --------------------------
(***************************************************************************)
(* Proofs about the two parts of a client and about the whole of it, for   *)
(* every set of payloads and every number of messages and connections: the *)
(* inductive invariants of the message hand-over and of the link, the      *)
(* safety properties they imply, and the refinement of FifoDelivery;       *)
(* the composition refines both of its parts, so it has their invariants;  *)
(* with ClientInv, stop ends every thread.                                 *)
(***************************************************************************)
EXTENDS EasyClient, SequenceTheorems, TLAPS

-----------------------------------------------------------------------------
(* The hand-over (MessageHandoff).                                         *)

\* Moving the head of the middle batch to the end of the dealt messages
\* leaves the concatenation of the three sequences as it was (ProcessDeal).
LEMMA MoveHead ==
    ASSUME NEW S, NEW a \in Seq(S), NEW b \in Seq(S), NEW c \in Seq(S),
           b # <<>>
    PROVE  /\ Append(a, Head(b)) \in Seq(S)
           /\ Tail(b) \in Seq(S)
           /\ Append(a, Head(b)) \o Tail(b) \o c = a \o b \o c
<1>1. Head(b) \in S /\ Tail(b) \in Seq(S)
  BY HeadTailProperties
<1>2. Append(a, Head(b)) \in Seq(S)
  BY <1>1, AppendProperties
<1>3. Append(a, Head(b)) \o Tail(b) = a \o b
  <2>1. /\ Append(a, Head(b)) \o Tail(b) \in Seq(S)
        /\ a \o b \in Seq(S)
    BY <1>1, <1>2, ConcatProperties
  <2>2. Len(Append(a, Head(b)) \o Tail(b)) = Len(a \o b)
    BY <1>1, <1>2, ConcatProperties, AppendProperties, HeadTailProperties,
       LenProperties
  <2>3. ASSUME NEW i \in 1..Len(a \o b)
        PROVE  (Append(a, Head(b)) \o Tail(b))[i] = (a \o b)[i]
    <3> DEFINE n == Len(a)
    <3>1. /\ n \in Nat /\ Len(b) \in Nat \ {0} /\ i \in 1..(n + Len(b))
          /\ Len(Append(a, Head(b))) = n + 1 /\ Len(Tail(b)) = Len(b) - 1
      BY <1>1, ConcatProperties, AppendProperties, HeadTailProperties,
         LenProperties, EmptySeq
    <3>2. (a \o b)[i] = IF i <= n THEN a[i] ELSE b[i - n]
      BY <3>1, ConcatProperties
    <3>3. (Append(a, Head(b)) \o Tail(b))[i]
             = IF i <= n + 1 THEN Append(a, Head(b))[i]
                             ELSE Tail(b)[i - (n + 1)]
      BY <1>1, <1>2, <3>1, ConcatProperties
    <3>4. CASE i <= n
      BY <1>1, <3>1, <3>2, <3>3, <3>4, AppendProperties
    <3>5. CASE i = n + 1
      <4>1. b[1] = Head(b)
        OBVIOUS
      <4> QED
        BY <1>1, <3>1, <3>2, <3>3, <3>5, <4>1, AppendProperties
    <3>6. CASE i > n + 1
      <4>1. i - (n + 1) \in 1..Len(Tail(b))
        BY <3>1, <3>6
      <4>2. Tail(b)[i - (n + 1)] = b[(i - (n + 1)) + 1]
        BY <4>1, HeadTailProperties
      <4> QED
        BY <3>1, <3>2, <3>3, <3>6, <4>2
    <3> QED
      BY <3>1, <3>4, <3>5, <3>6
  <2> QED
    BY <2>1, <2>2, <2>3, SeqEqual
<1> QED
  BY <1>1, <1>2, <1>3

\* The element just behind a prefix is the head of what follows it.
LEMMA HeadAfterPrefix ==
    ASSUME NEW S, NEW a \in Seq(S), NEW b \in Seq(S), NEW c \in Seq(S),
           b # <<>>
    PROVE  /\ Len(a) < Len(a \o b \o c)
           /\ (a \o b \o c)[Len(a) + 1] = Head(b)
<1> DEFINE n == Len(a)
<1>1. /\ n \in Nat /\ Len(b) \in Nat \ {0} /\ Len(c) \in Nat
      /\ a \o b \in Seq(S)
      /\ Len(a \o b) = n + Len(b)
      /\ Len(a \o b \o c) = n + Len(b) + Len(c)
  BY ConcatProperties, LenProperties, EmptySeq
<1>2. (a \o b \o c)[n + 1] = (a \o b)[n + 1]
  BY <1>1, ConcatProperties
<1>3. (a \o b)[n + 1] = b[1]
  <2>1. n + 1 \in 1..(Len(a) + Len(b))
    BY <1>1
  <2> QED
    BY <1>1, <2>1, ConcatProperties
<1>4. b[1] = Head(b)
  OBVIOUS
<1> QED
  BY <1>1, <1>2, <1>3, <1>4

-----------------------------------------------------------------------------

\* OnMessagePush keeps the order of arrival.
LEMMA PushKeepsOrder ==
    HandoffTypeOK /\ NothingLost /\ OnMessagePush => NothingLost'
<1> SUFFICES ASSUME HandoffTypeOK, NothingLost, OnMessagePush
             PROVE  dealt' \o localMsgs' \o messages' = received'
  BY DEF NothingLost
<1>1. dealt \o localMsgs \o (messages \o ioMsg)
         = (dealt \o localMsgs \o messages) \o ioMsg
  <2>1. /\ dealt \o localMsgs \in Seq(Payload)
        /\ messages \in Seq(Payload)
        /\ ioMsg \in Seq(Payload)
    BY ConcatProperties DEF HandoffTypeOK
  <2>2. \A s, t, u \in Seq(Payload) : (s \o t) \o u = s \o (t \o u)
    BY ConcatAssociative
  <2>3. (dealt \o localMsgs \o messages) \o ioMsg
           = dealt \o localMsgs \o (messages \o ioMsg)
    BY ONLY <2>1, <2>2, Zenon
  <2> QED
    BY <2>3
<1>2. /\ messages' = messages \o ioMsg
      /\ received' = received \o ioMsg
      /\ dealt' = dealt
      /\ localMsgs' = localMsgs
  BY DEF OnMessagePush, PushBack
<1>3. dealt \o localMsgs \o messages = received
  BY DEF NothingLost
<1> QED
  BY <1>1, <1>2, <1>3

\* ProcessSwap, which only follows a finished batch, keeps it too.
LEMMA SwapKeepsOrder ==
    HandoffTypeOK /\ NothingLost /\ localMsgs = <<>> /\ ProcessSwap
      => NothingLost'
<1> SUFFICES ASSUME HandoffTypeOK, NothingLost, localMsgs = <<>>, ProcessSwap
             PROVE  dealt' \o localMsgs' \o messages' = received'
  BY DEF NothingLost
<1>1. dealt \o <<>> \o messages = dealt \o messages \o <<>>
  <2>1. /\ dealt \o messages \in Seq(Payload)
        /\ dealt \in Seq(Payload)
    BY ConcatProperties DEF HandoffTypeOK
  <2> QED
    BY <2>1, ConcatEmptySeq
<1>2. /\ localMsgs' = messages
      /\ messages' = <<>>
      /\ dealt' = dealt
      /\ received' = received
  BY DEF ProcessSwap, SwappedQueue
<1>3. dealt \o <<>> \o messages = received
  BY DEF NothingLost
<1> QED
  BY <1>1, <1>2, <1>3

\* ProcessDeal moves one message from the batch to the dealt ones.
LEMMA DealKeepsOrder ==
    HandoffTypeOK /\ NothingLost /\ ProcessDeal
      => /\ dealt' \in Seq(Payload)
         /\ localMsgs' \in Seq(Payload)
         /\ NothingLost'
<1> SUFFICES ASSUME HandoffTypeOK, NothingLost, ProcessDeal
             PROVE  /\ dealt' \in Seq(Payload)
                    /\ localMsgs' \in Seq(Payload)
                    /\ dealt' \o localMsgs' \o messages' = received'
  BY DEF NothingLost
<1>1. /\ dealt \in Seq(Payload)
      /\ localMsgs \in Seq(Payload)
      /\ messages \in Seq(Payload)
      /\ localMsgs # <<>>
  BY DEF HandoffTypeOK, ProcessDeal
<1>2. /\ Append(dealt, Head(localMsgs)) \in Seq(Payload)
      /\ Tail(localMsgs) \in Seq(Payload)
      /\ Append(dealt, Head(localMsgs)) \o Tail(localMsgs) \o messages
            = dealt \o localMsgs \o messages
  <2>1. PICK a, b, c \in Seq(Payload) : a = dealt /\ b = localMsgs /\ c = messages
    BY <1>1
  <2>2. b # <<>>
    BY <1>1, <2>1
  <2>3. /\ Append(a, Head(b)) \in Seq(Payload)
        /\ Tail(b) \in Seq(Payload)
        /\ Append(a, Head(b)) \o Tail(b) \o c = a \o b \o c
    BY <2>2, MoveHead
  <2> QED
    BY <2>1, <2>3, Zenon
<1>3. /\ dealt' = Append(dealt, Head(localMsgs))
      /\ localMsgs' = Tail(localMsgs)
      /\ messages' = messages
      /\ received' = received
  BY DEF ProcessDeal
<1>4. dealt \o localMsgs \o messages = received
  BY DEF NothingLost
<1> QED
  BY <1>1, <1>2, <1>3, <1>4

\* HandoffInv holds at the start, whatever the constructor left in
\* _isProcessing.
LEMMA HandoffInitInv == HandoffInit => HandoffInv
<1> SUFFICES ASSUME HandoffInit PROVE HandoffInv
  OBVIOUS
<1>1. <<>> \in Seq(Payload) /\ <<>> \o <<>> \o <<>> = <<>>
  BY EmptySeq, ConcatEmptySeq
<1> QED
  BY <1>1 DEF HandoffInit, HandoffInv, HandoffTypeOK, NothingLost,
     NeverSleepsOnWork, ExitsOnlyOnStop, LockDiscipline, Stopping, WorkerPC,
     IoPC, MainPC, NoMsg

\* The websocket thread keeps HandoffInv.
LEMMA IoKeepsInv == HandoffInv /\ IoNext => HandoffInv'
<1> SUFFICES ASSUME HandoffInv, IoNext PROVE HandoffInv'
  OBVIOUS
<1> USE DEF HandoffInv, HandoffTypeOK, NothingLost, NeverSleepsOnWork,
            ExitsOnlyOnStop, LockDiscipline, Stopping, WorkerPC, IoPC, MainPC
<1>1. CASE \E p \in Payload : OnMessage(p)
  BY <1>1 DEF OnMessage
<1>2. CASE OnMessageLock
  BY <1>2 DEF OnMessageLock
<1>3. CASE OnMessagePush
  <2>1. ioMsg \in Seq(Payload) /\ NoMsg \in Seq(Payload)
    BY EmptySeq DEF NoMsg
  <2>2. messages' \in Seq(Payload) /\ received' \in Seq(Payload)
    BY <1>3, <2>1, ConcatProperties DEF OnMessagePush, PushBack
  <2>3. NothingLost'
    BY <1>3, PushKeepsOrder
  <2>4. NeverSleepsOnWork' /\ ExitsOnlyOnStop' /\ LockDiscipline'
    BY <1>3 DEF OnMessagePush, Notified
  <2>5. HandoffTypeOK'
    BY <1>3, <2>1, <2>2 DEF OnMessagePush, Notified
  <2> QED
    BY <1>3, <2>3, <2>4, <2>5 DEF OnMessagePush, Notified
<1>4. CASE IoExit
  BY <1>4 DEF IoExit
<1> QED
  BY <1>1, <1>2, <1>3, <1>4 DEF IoNext

\* The worker thread keeps HandoffInv.
LEMMA WorkerKeepsInv ==
    HandoffInv /\ (WorkerStep \/ SpuriousWakeup) => HandoffInv'
<1> SUFFICES ASSUME HandoffInv, WorkerStep \/ SpuriousWakeup PROVE HandoffInv'
  OBVIOUS
<1> USE DEF HandoffInv, HandoffTypeOK, NothingLost, NeverSleepsOnWork,
            ExitsOnlyOnStop, LockDiscipline, Stopping, WorkerPC, IoPC, MainPC
<1>1. CASE ProcessBegin
  BY <1>1 DEF ProcessBegin
<1>2. CASE ProcessTest
  BY <1>2 DEF ProcessTest
<1>3. CASE ProcessLock
  BY <1>3 DEF ProcessLock
<1>4. CASE ProcessFindEmpty
  BY <1>4 DEF ProcessFindEmpty, MustWait
<1>5. CASE ProcessWait
  BY <1>5 DEF ProcessWait
<1>6. CASE SpuriousWakeup
  BY <1>6 DEF SpuriousWakeup
<1>7. CASE ProcessSwap
  <2>1. localMsgs = <<>> /\ <<>> \in Seq(Payload)
    BY <1>7, EmptySeq DEF ProcessSwap
  <2>2. NothingLost'
    BY <1>7, <2>1, SwapKeepsOrder
  <2> QED
    BY <1>7, <2>1, <2>2 DEF ProcessSwap, SwappedQueue
<1>8. CASE ProcessDeal
  <2>1. /\ dealt' \in Seq(Payload)
        /\ localMsgs' \in Seq(Payload)
        /\ NothingLost'
    BY <1>8, DealKeepsOrder DEF ProcessDeal
  <2> QED
    BY <1>8, <2>1 DEF ProcessDeal
<1>9. CASE ProcessBatchDone
  BY <1>9 DEF ProcessBatchDone
<1> QED
  BY <1>1, <1>2, <1>3, <1>4, <1>5, <1>6, <1>7, <1>8, <1>9 DEF WorkerStep

\* stop keeps HandoffInv, at whatever moment it is called.
LEMMA StopKeepsInv == HandoffInv /\ StopNext => HandoffInv'
<1> SUFFICES ASSUME HandoffInv, StopNext PROVE HandoffInv'
  OBVIOUS
<1> USE DEF HandoffInv, HandoffTypeOK, NothingLost, NeverSleepsOnWork,
            ExitsOnlyOnStop, LockDiscipline, Stopping, MainPC
<1>1. CASE StopClear
  BY <1>1 DEF StopClear
<1>2. CASE StopJoinIo
  BY <1>2 DEF StopJoinIo
<1>3. CASE StopJoinWorker
  BY <1>3 DEF StopJoinWorker
<1> QED
  BY <1>1, <1>2, <1>3 DEF StopNext

LEMMA StutterKeepsInv == HandoffInv /\ UNCHANGED handoffVars => HandoffInv'
BY DEF HandoffInv, HandoffTypeOK, NothingLost, NeverSleepsOnWork,
       ExitsOnlyOnStop, LockDiscipline, Stopping, handoffVars

\* HandoffInv is an invariant of the three threads' interleaving.
THEOREM HandoffInvariance == HandoffSpec => []HandoffInv
<1>1. HandoffInv /\ [HandoffNext]_handoffVars => HandoffInv'
  BY IoKeepsInv, WorkerKeepsInv, StopKeepsInv, StutterKeepsInv DEF HandoffNext
<1> QED
  BY HandoffInitInv, <1>1, PTL DEF HandoffSpec

\* The queue, the batch and the threads' positions always have their types.
THEOREM HandoffTypeCorrect == HandoffSpec => []HandoffTypeOK
<1>1. HandoffInv => HandoffTypeOK
  BY DEF HandoffInv
<1> QED
  BY HandoffInvariance, <1>1, PTL

\* No message is lost, repeated or reordered between onMessage and dealMsg.
THEOREM HandoffLosesNothing == HandoffSpec => []NothingLost
<1>1. HandoffInv => NothingLost
  BY DEF HandoffInv
<1> QED
  BY HandoffInvariance, <1>1, PTL

\* The worker never sleeps while there are messages: no wake-up is lost
\* between process and onMessage.
THEOREM HandoffNoLostWakeup == HandoffSpec => []NeverSleepsOnWork
<1>1. HandoffInv => NeverSleepsOnWork
  BY DEF HandoffInv
<1> QED
  BY HandoffInvariance, <1>1, PTL

\* process returns for stop only, and at a batch boundary.
THEOREM HandoffExitsOnlyOnStop == HandoffSpec => []ExitsOnlyOnStop
<1>1. HandoffInv => ExitsOnlyOnStop
  BY DEF HandoffInv
<1> QED
  BY HandoffInvariance, <1>1, PTL

-----------------------------------------------------------------------------

\* Each step of the three threads is a Receive, a DealNext or invisible.
LEMMA HandoffStepRefines ==
    HandoffInv /\ [HandoffNext]_handoffVars => [Fifo!FifoNext]_Fifo!fifoVars
<1> SUFFICES ASSUME HandoffInv, [HandoffNext]_handoffVars
             PROVE  [Fifo!FifoNext]_Fifo!fifoVars
  OBVIOUS
<1> USE DEF HandoffInv, HandoffTypeOK, NothingLost
<1>1. CASE OnMessagePush
  <2>1. PICK p \in Payload : ioMsg = <<p>>
    BY <1>1 DEF OnMessagePush
  <2>2. received' = Append(received, p)
    BY <1>1, <2>1, AppendIsConcat DEF OnMessagePush
  <2>3. Fifo!Receive
    BY <1>1, <2>2 DEF OnMessagePush, Fifo!Receive
  <2> QED
    BY <2>3 DEF Fifo!FifoNext
<1>2. CASE ProcessDeal
  <2>1. /\ Len(dealt) < Len(received)
        /\ received[Len(dealt) + 1] = Head(localMsgs)
    BY <1>2, HeadAfterPrefix DEF ProcessDeal
  <2>2. Fifo!DealNext
    BY <1>2, <2>1 DEF ProcessDeal, Fifo!DealNext
  <2> QED
    BY <2>2 DEF Fifo!FifoNext
<1>3. CASE \/ (\E p \in Payload : OnMessage(p)) \/ OnMessageLock \/ IoExit
           \/ ProcessBegin \/ ProcessTest \/ ProcessLock
           \/ ProcessFindEmpty \/ ProcessWait \/ SpuriousWakeup
           \/ ProcessSwap \/ ProcessBatchDone
           \/ StopNext \/ UNCHANGED handoffVars
  <2>1. UNCHANGED <<received, dealt>>
    BY <1>3 DEF OnMessage, OnMessageLock, IoExit, ProcessBegin, ProcessTest,
       ProcessLock, ProcessFindEmpty, ProcessWait, SpuriousWakeup,
       ProcessSwap, ProcessBatchDone, StopNext, StopClear, StopJoinIo,
       StopJoinWorker, handoffVars
  <2> QED
    BY <2>1 DEF Fifo!fifoVars
<1> QED
  BY <1>1, <1>2, <1>3 DEF HandoffNext, IoNext, WorkerStep

\* The hand-over implements FifoDelivery.
THEOREM HandoffImplementsFifo == HandoffSpec => ImplementsFifo
<1>1. HandoffInit => Fifo!FifoInit
  BY DEF HandoffInit, Fifo!FifoInit
<1> QED
  BY <1>1, HandoffInvariance, HandoffStepRefines, PTL
     DEF HandoffSpec, ImplementsFifo, Fifo!FifoSpec

-----------------------------------------------------------------------------
(* The link (ClientLink).                                                  *)

USE LinkAssumption DEF Conn, NoConn

\* A client starts without connections and with the invariant.
LEMMA LinkInitInv == LinkInit => LinkInv
<1> SUFFICES ASSUME LinkInit PROVE LinkInv
  OBVIOUS
<1>1. LinkTypeOK
  BY DEF LinkInit, LinkTypeOK, ConnectState, ConState, OnOpenPC, RoundPC
<1>2. \A c \in Conn : con[c] = "none" /\ c > lastConn /\ ~handled[c]
  BY DEF LinkInit
<1>3. /\ StatusMatchesConnection
      /\ CurrentHasOpened
      /\ OpenIsSubscribed
      /\ OnlyFirstIsDeaf
  BY <1>2 DEF LinkInit, StatusMatchesConnection, CurrentHasOpened,
     OpenIsSubscribed, OnlyFirstIsDeaf, Alive
<1> QED
  BY <1>1, <1>2, <1>3 DEF LinkInit, LinkInv

\* The main thread's rounds keep the invariant.
LEMMA RoundKeepsInv == LinkInv /\ RoundNext => LinkInv'
<1> SUFFICES ASSUME LinkInv, RoundNext PROVE LinkInv'
  OBVIOUS
<1> USE DEF LinkInv, LinkTypeOK, StatusMatchesConnection, CurrentHasOpened,
            OpenIsSubscribed, OnlyFirstIsDeaf, Alive, ConnectState, ConState,
            OnOpenPC, RoundPC, Ended, clientVars, connectVars, onOpenVars,
            serviceVars
<1>1. CASE RunOnce
  BY <1>1 DEF RunOnce
<1>2. CASE GetConnection
  BY <1>2 DEF GetConnection, CopiedHandlers
<1>3. CASE GetConnectionFails
  BY <1>3 DEF GetConnectionFails
<1>4. CASE SetHandlers
  BY <1>4 DEF SetHandlers
<1>5. CASE StartConnect
  BY <1>5 DEF StartConnect
<1>6. CASE WakeUp
  BY <1>6 DEF WakeUp
<1> QED
  BY <1>1, <1>2, <1>3, <1>4, <1>5, <1>6 DEF RoundNext

\* onOpen, whatever the main thread does between its assignments, keeps it.
LEMMA OnOpenKeepsInv == LinkInv /\ OnOpenNext => LinkInv'
<1> SUFFICES ASSUME LinkInv, OnOpenNext PROVE LinkInv'
  OBVIOUS
<1> USE DEF LinkInv, LinkTypeOK, StatusMatchesConnection, CurrentHasOpened,
            OpenIsSubscribed, OnlyFirstIsDeaf, Alive, ConnectState, ConState,
            OnOpenPC, RoundPC, Ended, clientVars, connectVars, onOpenVars,
            serviceVars
<1>1. CASE OnOpenStore
  BY <1>1 DEF OnOpenStore
<1>2. CASE OnOpenStatus
  BY <1>2 DEF OnOpenStatus
<1>3. CASE OnOpenSend
  BY <1>3 DEF OnOpenSend, SentOnCurrent
<1> QED
  BY <1>1, <1>2, <1>3 DEF OnOpenNext

\* A connection that opens keeps it.
LEMMA OpensKeepsInv ==
    ASSUME NEW c \in Conn, LinkInv, Opens(c) PROVE LinkInv'
BY DEF LinkInv, LinkTypeOK, StatusMatchesConnection, CurrentHasOpened,
       OpenIsSubscribed, OnlyFirstIsDeaf, Alive, ConnectState, ConState,
       OnOpenPC, RoundPC, Ended, clientVars, connectVars, onOpenVars,
       serviceVars, Opens, IoFree

\* A connection that ends, by onFailed or onClose, keeps it.
LEMMA EndsKeepsInv ==
    ASSUME NEW c \in Conn, LinkInv,
           NEW from \in {"connecting", "open", "closing"},
           NEW to \in Ended, from = "connecting" <=> to = "failed",
           Ends(c, from, to)
    PROVE  LinkInv'
<1> USE DEF LinkInv
<1>1. /\ opening = NoConn
      /\ con[c] = from
      /\ con' = [con EXCEPT ![c] = to]
      /\ UNCHANGED <<connectVars, subscribed, onOpenVars, roundPC, serviceVars>>
  BY DEF Ends, IoFree
<1>2. /\ ppConnection' = ppConnection
      /\ clientStatus' = IF c = ppConnection THEN "Close" ELSE clientStatus
  BY DEF Ends, StatusAfterEnd, CurrentAfterEnd, IsCurrent, CurrentHasOpened
<1>3. c = ppConnection => from # "connecting"
  BY <1>1 DEF CurrentHasOpened
<1>4. LinkTypeOK'
  BY <1>1, <1>2 DEF LinkTypeOK, ConnectState, ConState, Ended, connectVars,
     onOpenVars, serviceVars
<1>5. StatusMatchesConnection'
  BY <1>1, <1>2 DEF StatusMatchesConnection, Alive, LinkTypeOK, Ended,
     onOpenVars
<1>6. CurrentHasOpened'
  BY <1>1, <1>2, <1>3 DEF CurrentHasOpened, LinkTypeOK, Ended, connectVars
<1>7. OpenIsSubscribed' /\ OnlyFirstIsDeaf'
  BY <1>1 DEF OpenIsSubscribed, OnlyFirstIsDeaf, LinkTypeOK, Ended,
     connectVars, onOpenVars
<1> QED
  BY <1>1, <1>2, <1>4, <1>5, <1>6, <1>7 DEF LinkTypeOK, Alive, Ended,
     connectVars, onOpenVars, serviceVars

\* stop keeps it, in the middle of onOpen too.
LEMMA LinkStopKeepsInv == LinkInv /\ LinkStopNext => LinkInv'
<1> SUFFICES ASSUME LinkInv, LinkStopNext PROVE LinkInv'
  OBVIOUS
<1> USE DEF LinkInv, LinkTypeOK, StatusMatchesConnection, CurrentHasOpened,
            OpenIsSubscribed, OnlyFirstIsDeaf, Alive, ConnectState, ConState,
            OnOpenPC, RoundPC, Ended, clientVars, connectVars, onOpenVars,
            serviceVars
<1>1. CASE StopPerpetual
  <2>1. LinkTypeOK'
    BY <1>1 DEF StopPerpetual
  <2>2. /\ StatusMatchesConnection' /\ CurrentHasOpened'
        /\ OpenIsSubscribed' /\ OnlyFirstIsDeaf'
    BY <1>1 DEF StopPerpetual
  <2>3. /\ roundPC = "loop" /\ roundPC' = "close"
        /\ UNCHANGED <<clientVars, connectVars, con, onOpenVars>>
    BY <1>1 DEF StopPerpetual
  <2> QED
    BY <2>1, <2>2, <2>3
<1>2. CASE StopClose
  BY <1>2 DEF StopClose, ClosesCurrent
<1>3. CASE IoRunEnds
  BY <1>3 DEF IoRunEnds
<1>4. CASE StopJoin
  BY <1>4 DEF StopJoin
<1> QED
  BY <1>1, <1>2, <1>3, <1>4 DEF LinkStopNext

LEMMA LinkStutterKeepsInv == LinkInv /\ UNCHANGED linkVars => LinkInv'
BY DEF LinkInv, LinkTypeOK, StatusMatchesConnection, CurrentHasOpened,
       OpenIsSubscribed, OnlyFirstIsDeaf, Alive, linkVars

\* LinkInv is an invariant of a client's link.
THEOREM LinkInvariance == LinkSpec => []LinkInv
<1>1. LinkInv /\ HandlerNext => LinkInv'
  <2> SUFFICES ASSUME LinkInv, HandlerNext PROVE LinkInv'
    OBVIOUS
  <2>1. CASE OnOpenNext
    BY <2>1, OnOpenKeepsInv
  <2>2. ASSUME NEW c \in Conn, Opens(c) PROVE LinkInv'
    BY <2>2, OpensKeepsInv
  <2>3. ASSUME NEW c \in Conn, Fails(c) PROVE LinkInv'
    BY <2>3, EndsKeepsInv DEF Fails, Ended
  <2>4. ASSUME NEW c \in Conn, DropsByPeer(c) PROVE LinkInv'
    BY <2>4, EndsKeepsInv DEF DropsByPeer, Ended
  <2>5. ASSUME NEW c \in Conn, CloseCompletes(c) PROVE LinkInv'
    BY <2>5, EndsKeepsInv DEF CloseCompletes, Ended
  <2> QED
    BY <2>1, <2>2, <2>3, <2>4, <2>5 DEF HandlerNext
<1>2. LinkInv /\ [LinkNext]_linkVars => LinkInv'
  BY RoundKeepsInv, <1>1, LinkStopKeepsInv, LinkStutterKeepsInv DEF LinkNext
<1> QED
  BY LinkInitInv, <1>2, PTL DEF LinkSpec

\* The link's variables always have their types.
THEOREM LinkTypeCorrect == LinkSpec => []LinkTypeOK
<1>1. LinkInv => LinkTypeOK
  BY DEF LinkInv
<1> QED
  BY LinkInvariance, <1>1, PTL

\* _clientStatus never disagrees with the connection _ppConnection names.
THEOREM LinkStatusTruthful == LinkSpec => []StatusMatchesConnection
<1>1. LinkInv => StatusMatchesConnection
  BY DEF LinkInv
<1> QED
  BY LinkInvariance, <1>1, PTL

\* _ppConnection never names a connection that failed to open.
THEOREM LinkCurrentHasOpened == LinkSpec => []CurrentHasOpened
<1>1. LinkInv => CurrentHasOpened
  BY DEF LinkInv
<1> QED
  BY LinkInvariance, <1>1, PTL

\* Every connection that reports its opening is subscribed on.
THEOREM LinkResubscribes == LinkSpec => []OpenIsSubscribed
<1>1. LinkInv => OpenIsSubscribed
  BY DEF LinkInv
<1> QED
  BY LinkInvariance, <1>1, PTL

\* The first connection is deaf and it is the only one.
THEOREM LinkOnlyFirstIsDeaf == LinkSpec => []OnlyFirstIsDeaf
<1>1. LinkInv => OnlyFirstIsDeaf
  BY DEF LinkInv
<1> QED
  BY LinkInvariance, <1>1, PTL

-----------------------------------------------------------------------------

\* Only the end of the connection in _ppConnection turns the status to Close.
THEOREM LinkOnlyCurrentCloses == LinkSpec => OnlyCurrentCloses
<1> DEFINE Step == clientStatus = "Open" /\ clientStatus' = "Close"
                     => /\ Alive(ppConnection)
                        /\ con'[ppConnection] = "closed"
                        /\ ppConnection' = ppConnection
<1>1. LinkInv /\ [LinkNext]_linkVars => [Step]_linkVars
  <2> SUFFICES ASSUME LinkInv, LinkNext, clientStatus = "Open",
                      clientStatus' = "Close"
               PROVE  Step
    BY DEF linkVars
  <2>1. PICK c \in Conn, from \in {"connecting", "open", "closing"},
             to \in Ended :
           /\ Ends(c, from, to)
           /\ from = "connecting" <=> to = "failed"
    BY DEF LinkNext, RoundNext, RunOnce, GetConnection, GetConnectionFails,
       SetHandlers, StartConnect, WakeUp, HandlerNext, OnOpenNext,
       OnOpenStore, OnOpenStatus, OnOpenSend, Opens, Fails, DropsByPeer,
       CloseCompletes, LinkStopNext, StopPerpetual, StopClose, IoRunEnds,
       StopJoin, clientVars, Ended
  <2>2. /\ c = ppConnection
        /\ ppConnection' = ppConnection
        /\ con[c] = from
        /\ con' = [con EXCEPT ![c] = to]
    BY <2>1 DEF Ends, StatusAfterEnd, CurrentAfterEnd, IsCurrent
  <2>3. from # "connecting"
    BY <2>2 DEF LinkInv, CurrentHasOpened
  <2> QED
    BY <2>1, <2>2, <2>3 DEF LinkInv, LinkTypeOK, Alive, Ended
<1>2. [][Step]_linkVars => OnlyCurrentCloses
  BY DEF OnlyCurrentCloses
<1> QED
  BY LinkInvariance, <1>1, <1>2, PTL DEF LinkSpec

HIDE LinkAssumption DEF Conn, NoConn

-----------------------------------------------------------------------------
(* The whole client.                                                       *)

\* The two threads that both parts know: the websocket thread has left run
\* exactly when it is "exited" as a producer.
IoAgrees == ioPC = "exited" <=> ~ioRunning

LEMMA InitAgrees == ClientInit => IoAgrees
BY DEF ClientInit, HandoffInit, LinkInit, IoAgrees

LEMMA StepAgrees == IoAgrees /\ [ClientNext]_clientAllVars => IoAgrees'
<1> SUFFICES ASSUME IoAgrees, [ClientNext]_clientAllVars PROVE IoAgrees'
  OBVIOUS
<1> USE DEF IoAgrees, serviceVars, linkVars, handoffVars
<1>1. ASSUME NEW c \in Conn, NEW p \in Payload, MessageArrives(c, p)
      PROVE  IoAgrees'
  BY <1>1 DEF MessageArrives, OnMessage
<1>2. CASE OnMessageGoesOn
  BY <1>2 DEF OnMessageGoesOn, OnMessageLock, OnMessagePush
<1>3. CASE LinkHandler
  BY <1>3 DEF LinkHandler, HandlerNext, OnOpenNext, OnOpenStore, OnOpenStatus,
     OnOpenSend, Opens, Fails, DropsByPeer, CloseCompletes, Ends
<1>4. CASE IoThreadEnds
  BY <1>4 DEF IoThreadEnds, IoExit, IoRunEnds
<1>5. CASE Worker
  BY <1>5 DEF Worker, WorkerStep, ProcessBegin, ProcessTest, ProcessLock,
     ProcessFindEmpty, ProcessWait, ProcessSwap, ProcessDeal, ProcessBatchDone
<1>6. CASE WorkerWakes
  BY <1>6 DEF WorkerWakes, SpuriousWakeup
<1>7. CASE Round
  BY <1>7 DEF Round, RoundNext, RunOnce, GetConnection, GetConnectionFails,
     SetHandlers, StartConnect, WakeUp
<1>8. CASE ClientStop
  BY <1>8 DEF ClientStop, StopClear, StopPerpetual, StopClose, JoinIoReturns,
     StopJoinWorker
<1>9. CASE UNCHANGED clientAllVars
  BY <1>9 DEF clientAllVars
<1> QED
  BY <1>1, <1>2, <1>3, <1>4, <1>5, <1>6, <1>7, <1>8, <1>9 DEF ClientNext

-----------------------------------------------------------------------------
(* The refinement of the two parts.                                        *)

\* Every step of the client is a step of the hand-over or invisible to it.
LEMMA ClientStepIsHandoff ==
    [ClientNext]_clientAllVars => [HandoffNext]_handoffVars
<1> SUFFICES ASSUME [ClientNext]_clientAllVars
             PROVE  HandoffNext \/ UNCHANGED handoffVars
  OBVIOUS
<1>1. ASSUME NEW c \in Conn, NEW p \in Payload, MessageArrives(c, p)
      PROVE  HandoffNext
  BY <1>1 DEF MessageArrives, HandoffNext, IoNext
<1>2. CASE OnMessageGoesOn
  BY <1>2 DEF OnMessageGoesOn, HandoffNext, IoNext
<1>3. CASE LinkHandler \/ Round
  BY <1>3 DEF LinkHandler, Round
<1>4. CASE IoThreadEnds
  BY <1>4 DEF IoThreadEnds, HandoffNext, IoNext
<1>5. CASE Worker \/ WorkerWakes
  BY <1>5 DEF Worker, WorkerWakes, HandoffNext
<1>6. CASE ClientStop
  <2>1. CASE StopClear \/ StopJoinWorker
    BY <2>1 DEF HandoffNext, StopNext
  <2>2. CASE UNCHANGED handoffVars
    BY <2>2
  <2>3. CASE JoinIoReturns /\ mainPC = "joinIo" /\ mainPC' = "joinWorker"
             /\ UNCHANGED <<messages, isProcessing, actionLock, localMsgs,
                            workerPC, ioPC, ioMsg, received, dealt>>
    BY <2>3 DEF JoinIoReturns, StopJoinIo, HandoffNext, StopNext
  <2> QED
    BY <1>6, <2>1, <2>2, <2>3 DEF ClientStop
<1>7. CASE UNCHANGED clientAllVars
  BY <1>7 DEF clientAllVars
<1> QED
  BY <1>1, <1>2, <1>3, <1>4, <1>5, <1>6, <1>7 DEF ClientNext

\* Every step of the client is a step of the link or invisible to it; the
\* join of the websocket thread is one because the thread has left run.
LEMMA ClientStepIsLink ==
    IoAgrees /\ [ClientNext]_clientAllVars => [LinkNext]_linkVars
<1> SUFFICES ASSUME IoAgrees, [ClientNext]_clientAllVars
             PROVE  LinkNext \/ UNCHANGED linkVars
  OBVIOUS
<1>1. ASSUME NEW c \in Conn, NEW p \in Payload, MessageArrives(c, p)
      PROVE  UNCHANGED linkVars
  BY <1>1 DEF MessageArrives
<1>2. CASE OnMessageGoesOn \/ Worker \/ WorkerWakes
  BY <1>2 DEF OnMessageGoesOn, Worker, WorkerWakes
<1>3. CASE LinkHandler \/ Round
  BY <1>3 DEF LinkHandler, Round, LinkNext
<1>4. CASE IoThreadEnds
  BY <1>4 DEF IoThreadEnds, LinkNext, LinkStopNext
<1>5. CASE ClientStop
  <2>1. CASE UNCHANGED linkVars
    BY <2>1
  <2>2. CASE StopPerpetual \/ StopClose
    BY <2>2 DEF LinkNext, LinkStopNext
  <2>3. CASE JoinIoReturns /\ roundPC' = "joined"
             /\ UNCHANGED <<clientVars, connectVars, con, subscribed,
                            onOpenVars, serviceVars>>
    BY <2>3 DEF JoinIoReturns, IoAgrees, StopJoin, LinkNext, LinkStopNext
  <2> QED
    BY <1>5, <2>1, <2>2, <2>3 DEF ClientStop
<1>6. CASE UNCHANGED clientAllVars
  BY <1>6 DEF clientAllVars
<1> QED
  BY <1>1, <1>2, <1>3, <1>4, <1>5, <1>6 DEF ClientNext

\* The queue and the worker behave in the client as MessageHandoff says,
\* whatever the link does around them.
LEMMA ClientHandsOff == ClientSpec => HandoffSpec
<1>1. ClientInit => HandoffInit
  BY DEF ClientInit
<1> QED
  BY <1>1, ClientStepIsHandoff, PTL DEF ClientSpec, HandoffSpec

\* The link behaves in the client as ClientLink says, whatever the queue and
\* the worker do beside it.
THEOREM ClientRefinesLink == ClientSpec => RefinesLink
<1>1. ClientInit => LinkInit
  BY DEF ClientInit
<1>2. ClientSpec => []IoAgrees
  BY InitAgrees, StepAgrees, PTL DEF ClientSpec
<1> QED
  BY <1>1, <1>2, ClientStepIsLink, PTL DEF ClientSpec, RefinesLink, LinkSpec

-----------------------------------------------------------------------------
(* The invariant of the whole.                                             *)

LEMMA InitThreadsAgree == ClientInit => ThreadsAgree
BY LinkInitInv DEF ClientInit, HandoffInit, LinkInit, ThreadsAgree,
   LinkStopping

\* The websocket thread keeps it: while onMessage runs no handler of the
\* link does, and run returns with every connection ended.
LEMMA IoKeepsThreads ==
    ASSUME ThreadsAgree, LinkTypeOK,
           \/ \E c \in Conn, p \in Payload : MessageArrives(c, p)
           \/ OnMessageGoesOn \/ LinkHandler \/ IoThreadEnds
    PROVE  ThreadsAgree'
<1> USE DEF ThreadsAgree, LinkStopping, linkVars, handoffVars, clientVars,
            connectVars, onOpenVars, serviceVars, LinkTypeOK
<1>1. ASSUME NEW c \in Conn, NEW p \in Payload, MessageArrives(c, p)
      PROVE  ThreadsAgree'
  BY <1>1 DEF MessageArrives, OnMessage, IoFree
<1>2. CASE OnMessageGoesOn
  BY <1>2 DEF OnMessageGoesOn, OnMessageLock, OnMessagePush, Notified
<1>3. CASE LinkHandler
  <2>1. ioRunning
    BY <1>3 DEF LinkHandler
  <2>2. /\ UNCHANGED <<roundPC, perpetual, ioRunning>>
        /\ UNCHANGED handoffVars
        /\ ioPC = "idle"
    BY <1>3 DEF LinkHandler, HandlerNext, OnOpenNext, OnOpenStore,
       OnOpenStatus, OnOpenSend, Opens, Fails, DropsByPeer, CloseCompletes,
       Ends
  <2> QED
    BY <2>1, <2>2
<1>4. CASE IoThreadEnds
  BY <1>4 DEF IoThreadEnds, IoExit, IoRunEnds, IoFree
<1> QED
  BY <1>1, <1>2, <1>3, <1>4

\* So does the worker, whose end nobody but the last step of stop reads.
LEMMA WorkerKeepsThreads ==
    ASSUME ThreadsAgree, Worker \/ WorkerWakes
    PROVE  ThreadsAgree'
BY DEF ThreadsAgree, LinkStopping, linkVars, Worker, WorkerWakes, WorkerStep,
   ProcessBegin, ProcessTest, ProcessLock, ProcessFindEmpty, ProcessWait,
   ProcessSwap, ProcessDeal, ProcessBatchDone, SpuriousWakeup

\* So do main's rounds, which only go on while the work is perpetual ...
LEMMA RoundKeepsThreads ==
    ASSUME ThreadsAgree, Round
    PROVE  ThreadsAgree'
BY DEF ThreadsAgree, LinkStopping, handoffVars, connectVars, onOpenVars,
   serviceVars, Round, RoundNext, RunOnce, GetConnection, GetConnectionFails,
   SetHandlers, StartConnect, WakeUp

\* ... and the steps of stop, in their order.
LEMMA StopKeepsThreads ==
    ASSUME ThreadsAgree, ClientStop
    PROVE  ThreadsAgree'
<1> USE DEF ThreadsAgree, LinkStopping, linkVars, handoffVars, clientVars,
            connectVars, onOpenVars, serviceVars
<1>1. CASE StopClear /\ roundPC = "loop" /\ UNCHANGED linkVars
  BY <1>1 DEF StopClear
<1>2. CASE StopPerpetual /\ mainPC = "joinIo" /\ UNCHANGED handoffVars
  BY <1>2 DEF StopPerpetual
<1>3. CASE StopClose /\ UNCHANGED handoffVars
  BY <1>3 DEF StopClose, ClosesCurrent, Ended
<1>4. CASE /\ JoinIoReturns
           /\ mainPC = "joinIo"
           /\ mainPC' = "joinWorker"
           /\ roundPC' = "joined"
           /\ UNCHANGED <<messages, isProcessing, actionLock, localMsgs,
                          workerPC, ioPC, ioMsg, received, dealt, clientVars,
                          connectVars, con, subscribed, onOpenVars,
                          serviceVars>>
  BY <1>4 DEF JoinIoReturns
<1>5. CASE StopJoinWorker /\ UNCHANGED linkVars
  BY <1>5 DEF StopJoinWorker
<1> QED
  BY <1>1, <1>2, <1>3, <1>4, <1>5 DEF ClientStop

LEMMA StepKeepsThreads ==
    ThreadsAgree /\ LinkTypeOK /\ [ClientNext]_clientAllVars => ThreadsAgree'
<1>1. ThreadsAgree /\ UNCHANGED clientAllVars => ThreadsAgree'
  BY DEF clientAllVars, linkVars, handoffVars, ThreadsAgree, LinkStopping
<1> QED
  BY <1>1, IoKeepsThreads, WorkerKeepsThreads, RoundKeepsThreads,
     StopKeepsThreads DEF ClientNext

\* ClientInv is an invariant of the client: the two parts' invariants carry
\* over by the refinements, and the rest is kept by every step.
THEOREM ClientInvariance == ClientSpec => []ClientInv
<1>1. ClientSpec => []HandoffInv
  BY ClientHandsOff, HandoffInvariance, PTL
<1>2. ClientSpec => []LinkInv
  BY ClientRefinesLink, LinkInvariance, PTL DEF RefinesLink
<1>3. LinkInv => LinkTypeOK
  BY DEF LinkInv
<1>4. ClientSpec => []ThreadsAgree
  BY <1>2, <1>3, InitThreadsAgree, StepKeepsThreads, PTL DEF ClientSpec
<1> QED
  BY <1>1, <1>2, <1>4, PTL DEF ClientInv

\* When stop has returned no thread of the client is left, no connection is
\* alive and nobody holds the lock: the client may be destroyed.
THEOREM ClientStopsEverything == ClientSpec => []NothingRunsAfterStop
<1>1. ClientInv => NothingRunsAfterStop
  BY DEF ClientInv, ThreadsAgree, HandoffInv, HandoffTypeOK, LockDiscipline,
     NothingRunsAfterStop
<1> QED
  BY <1>1, ClientInvariance, PTL

\* When stop has returned the messages not dealt with are those still in the
\* queue: the worker has not left a batch half-way.
THEOREM ClientLosesOnlyTheQueue == ClientSpec => []StopLosesOnlyTheQueue
<1>1. ClientInv => StopLosesOnlyTheQueue
  <2> SUFFICES ASSUME ClientInv, mainPC = "stopped"
               PROVE  dealt \o messages = received
    BY DEF StopLosesOnlyTheQueue
  <2>1. localMsgs = <<>> /\ dealt \o localMsgs \o messages = received
    BY DEF ClientInv, ThreadsAgree, HandoffInv, NothingLost, ExitsOnlyOnStop
  <2>2. dealt \o <<>> = dealt
    BY ConcatEmptySeq DEF ClientInv, HandoffInv, HandoffTypeOK
  <2> QED
    BY <2>1, <2>2
<1> QED
  BY <1>1, ClientInvariance, PTL

\* In the whole client, too, what onMessage receives is dealt with first in,
\* first out: the client implements the abstract queue its hand-over does.
THEOREM ClientImplementsFifo == ClientSpec => ImplementsFifo
BY ClientHandsOff, HandoffImplementsFifo, PTL

\* In the whole client, too, only the end of the current connection closes the
\* status, whichever other connections end.
THEOREM ClientOnlyCurrentCloses == ClientSpec => OnlyCurrentCloses
BY ClientRefinesLink, LinkOnlyCurrentCloses, PTL DEF RefinesLink
=============================================================================
