---------------------------- MODULE FifoDelivery ----------------------------
(***************************************************************************)
(* What the hand-over between the websocket thread and the worker thread   *)
(* of an easy_client promises: the messages dealt with are, in order and   *)
(* without loss or repetition, the messages received so far.               *)
(***************************************************************************)
EXTENDS Naturals, Sequences

CONSTANT Payload        \* the message bodies the server can publish

VARIABLES received,     \* every payload handed to onMessage, oldest first
          dealt         \* every payload dealMsg was called with, oldest first

fifoVars == <<received, dealt>>

FifoInit ==
    /\ received = <<>>
    /\ dealt = <<>>

\* The websocket thread takes one more message.
Receive ==
    /\ \E p \in Payload : received' = Append(received, p)
    /\ UNCHANGED dealt

\* The worker deals with the oldest message not dealt with yet.
DealNext ==
    /\ Len(dealt) < Len(received)
    /\ dealt' = Append(dealt, received[Len(dealt) + 1])
    /\ UNCHANGED received

FifoNext == Receive \/ DealNext

FifoSpec == FifoInit /\ [][FifoNext]_fifoVars
=============================================================================
