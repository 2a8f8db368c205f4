--------------------------- MODULE MCOpuInterrupt ---------------------------
(***************************************************************************)
(* Two CPUs that race for interrupt_lock, a fifo of two entries (so that   *)
(* it overflows) and four interrupts (so that the fifo refills after the   *)
(* worker has drained it).  The system may stop: nothing obliges the       *)
(* hardware to raise an interrupt, and after device exit nothing happens.  *)
(***************************************************************************)
EXTENDS OpuInterrupt
CONSTANTS c1, c2
MCCpus == {c1, c2}
=============================================================================
