---------------------------- MODULE MCEasyClient ----------------------------
(* EasyClient with three connections, of which the first is deaf, and two
   messages, which may differ. *)
EXTENDS EasyClient
=============================================================================
