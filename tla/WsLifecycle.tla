---------------------------- MODULE WsLifecycle ----------------------------
(***************************************************************************)
(* What websocketpp promises of one outgoing connection                    *)
(* (src/websocketpp/connection.hpp, open_handler, close_handler and        *)
(* fail_handler): an attempt ends with the open handler or the fail        *)
(* handler, and what has opened ends with the close handler, once.  These  *)
(* are the steps ClientLink takes for each of its connections.             *)
(***************************************************************************)
EXTENDS Naturals

VARIABLES life,                    \* as the values of con in ClientLink
          opens, fails, closes     \* how often each handler was called

lifecycleVars == <<life, opens, fails, closes>>

LifecycleInit ==
    /\ life = "made"
    /\ opens = 0 /\ fails = 0 /\ closes = 0

Start ==
    /\ life = "made"
    /\ life' = "connecting"
    /\ UNCHANGED <<opens, fails, closes>>

Open ==
    /\ life = "connecting"
    /\ life' = "open"
    /\ opens' = opens + 1
    /\ UNCHANGED <<fails, closes>>

Fail ==
    /\ life = "connecting"
    /\ life' = "failed"
    /\ fails' = fails + 1
    /\ UNCHANGED <<opens, closes>>

BeginClose ==
    /\ life = "open"
    /\ life' = "closing"
    /\ UNCHANGED <<opens, fails, closes>>

Close ==
    /\ life \in {"open", "closing"}
    /\ life' = "closed"
    /\ closes' = closes + 1
    /\ UNCHANGED <<opens, fails>>

LifecycleNext == Start \/ Open \/ Fail \/ BeginClose \/ Close

LifecycleSafety == LifecycleInit /\ [][LifecycleNext]_lifecycleVars

\* An attempt ends, and so does a closing handshake.
LifecycleSpec ==
    /\ LifecycleSafety
    /\ WF_lifecycleVars(Open \/ Fail)
    /\ WF_lifecycleVars(life = "closing" /\ Close)
=============================================================================
