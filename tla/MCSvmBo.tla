------------------------------- MODULE MCSvmBo -------------------------------
(***************************************************************************)
(* Instance of SvmBo: a range of two pages that can be split once, two     *)
(* GPUs between which it moves, and two buffer objects.                    *)
(***************************************************************************)
EXTENDS SvmBo, TLC
=============================================================================
