------------------------------- MODULE SvmGate -------------------------------
(***************************************************************************)
(* What eviction and restoration of shared virtual memory promise, free of *)
(* counters, locks and work items (opu_svm.c: svm_range_evict and          *)
(* svm_range_restore_work).  The gate stands between the GPU and the       *)
(* process's memory.  The first invalidation begins to close it, further   *)
(* ones find it closing or closed.  Pages change only behind a gate that   *)
(* is not open, and it opens only when no mapping is stale.  Opening is    *)
(* decided in one step and carried out (the queues are resumed) in a later *)
(* one, so that a new invalidation can begin to close the gate meanwhile.  *)
(***************************************************************************)
CONSTANT Ranges
VARIABLES
  gate,      \* "open", "closing" (an invalidation is stopping the queues) or "closed"
  stale,     \* ranges whose GPU mapping leads to pages the CPU has taken away
  lifting    \* the gate was opened and the queues are not resumed yet

gateVars == <<gate, stale, lifting>>

Init == gate = "open" /\ stale = {} /\ lifting = FALSE

\* The first invalidation of an open gate.
Close == gate = "open" /\ gate' = "closing" /\ UNCHANGED <<stale, lifting>>

\* It has stopped the queues.
Closed == gate = "closing" /\ gate' = "closed" /\ UNCHANGED <<stale, lifting>>

\* The CPU changes the pages of a range the GPU has mapped.
Change(r) == gate # "open" /\ stale' = stale \cup {r} /\ UNCHANGED <<gate, lifting>>

\* A range is mapped again.
Remap(r) == stale' = stale \ {r} /\ UNCHANGED <<gate, lifting>>

\* Every range is mapped: the restoration is complete.
Open ==
  /\ gate = "closed" /\ stale = {} /\ ~lifting
  /\ gate' = "open" /\ lifting' = TRUE
  /\ UNCHANGED stale

\* The queues are resumed.
Lift == lifting /\ lifting' = FALSE /\ UNCHANGED <<gate, stale>>

Next ==
  \/ Close \/ Closed \/ Open \/ Lift
  \/ \E r \in Ranges : Change(r) \/ Remap(r)

Spec == Init /\ [][Next]_gateVars
=============================================================================
