----------------------------- MODULE MCSvmEvict -----------------------------
(***************************************************************************)
(* Instance of SvmEvict: two ranges and two contexts that invalidate them, *)
(* so that two invalidations of one range and of two overlap with each     *)
(* other and with the restore worker.  No symmetry: liveness is checked.   *)
(***************************************************************************)
EXTENDS SvmEvict, TLC
CONSTANTS r1, r2, n1, n2
TwoRanges == {r1, r2}
TwoNotifiers == {n1, n2}
=============================================================================
