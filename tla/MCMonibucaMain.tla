--------------------------- MODULE MCMonibucaMain ---------------------------
(* Both programs with up to three clients (push_monibuca: up to two), two
   sources per medium and five changes of them: both appear, go and one
   appears again.  Rounds modulo three, which tells a client that is one
   round ahead from one that is one or more behind. *)
EXTENDS MonibucaMain

MCInit == MonibucaInit /\ (Push => streams <= 2)

MCSpec == MCInit /\ [][MonibucaNext]_monibucaVars /\ MonibucaFairness
=============================================================================
