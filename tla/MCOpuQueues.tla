----------------------------- MODULE MCOpuQueues -----------------------------
(***************************************************************************)
(* Instances of OpuQueues for TLC.  The processes are not symmetric in all *)
(* of them (one is debugged), and no symmetry is used.                     *)
(***************************************************************************)
EXTENDS OpuQueues, TLC
=============================================================================
