----------------------------- MODULE MCOpuEvents -----------------------------
(***************************************************************************)
(* Instances of OpuEvents.  Ids 0 and 1 are signal slots, 8 is an id of    *)
(* the non-signal range.  Two threads that wait for a signal event and an  *)
(* exception event meet every race between waiting, signalling and         *)
(* destroying; the runs about GPU slots and liveness use one thread.  The  *)
(* system may stop: nobody is obliged to signal an event.                  *)
(***************************************************************************)
EXTENDS OpuEvents, TLC
CONSTANTS t1, t2
OneThread  == {t1}
TwoThreads == {t1, t2}
Symmetry   == Permutations(TwoThreads)
FirstTwo   == {<<0>>, <<0, 1>>}
WithFault  == {<<0, 8>>}
=============================================================================
