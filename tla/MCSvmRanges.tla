----------------------------- MODULE MCSvmRanges -----------------------------
(***************************************************************************)
(* Instance of SvmRanges: three pages, each a block of its own, so that a  *)
(* range can be cut at its head, tail and middle, its children again, and  *)
(* the second of two splits can fail.                                      *)
(***************************************************************************)
EXTENDS SvmRanges, TLC
=============================================================================
