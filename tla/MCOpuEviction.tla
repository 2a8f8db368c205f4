---------------------------- MODULE MCOpuEviction ----------------------------
(***************************************************************************)
(* Instance of OpuEviction.  Two devices are what it takes for a loop to   *)
(* be half done, two suspensions for them to nest, three fences for two    *)
(* rounds of eviction and restoration.                                     *)
(***************************************************************************)
EXTENDS OpuEviction, TLC
=============================================================================
