---------------------------- MODULE MCClientLink ----------------------------
(* ClientLink with five connections: a deaf one and four to overlap.  The
   numbers are ordered by creation, so there is no symmetry to use. *)
EXTENDS ClientLink
=============================================================================
