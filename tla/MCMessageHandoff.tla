-------------------------- MODULE MCMessageHandoff --------------------------
(* MessageHandoff on a small instance: two payloads, four messages.  Payloads
   are interchangeable, but symmetry is not sound for the liveness properties. *)
EXTENDS MessageHandoff
=============================================================================
