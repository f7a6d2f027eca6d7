--------------------------- MODULE MCWsConnection ---------------------------
(***************************************************************************)
(* WsConnection for TLC: one connection; pings, and bad close frames while *)
(* closing, are answered while fewer than MCMaxQueue frames are queued.    *)
(***************************************************************************)
EXTENDS WsConnection

MCMaxQueue == 2
=============================================================================
