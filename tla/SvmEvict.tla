------------------------------ MODULE SvmEvict ------------------------------
(***************************************************************************)
(* Eviction and restoration of shared virtual memory (opu_svm.c).          *)
(*                                                                         *)
(* An MMU notifier calls svm_range_evict before the CPU changes pages the  *)
(* GPU has mapped.  Without retry faults (xnack) the range is counted as   *)
(* invalid, and the first invalidation stops the queues of the process and *)
(* schedules svm_range_restore_work, which maps every invalid range again  *)
(* and resumes the queues.  There is no lock between them: the worker      *)
(* notices a concurrent invalidation by compare-and-exchange on the two    *)
(* counters.  With xnack the range is unmapped from the GPU, and the GPU's *)
(* retry fault brings it back.                                             *)
(*                                                                         *)
(* A range is one of svms->list; child ranges become such ranges before    *)
(* the worker walks the list.  The lock of a range is held by the notifier *)
(* between taking it and returning.  What stopping the queues does on each *)
(* device is the subject of OpuEviction.                                   *)
(***************************************************************************)
EXTENDS Integers, FiniteSets
CONSTANTS
  Ranges,        \* the ranges of the process
  Notifiers,     \* contexts in which the kernel invalidates CPU mappings
  XnackModes,    \* the modes a process may have: a subset of BOOLEAN
  Releases,      \* whether the process may exit
  LateNotifiers, \* whether pages are reclaimed between the exit of a process and the
                 \* removal of its ranges
  QuiesceFails,  \* whether kgd2opu_quiesce_mm may fail
  MaxInvalid     \* bound: invalidations counted between two restorations
ASSUME RangesAssumption == Ranges # {}
ASSUME MaxInvalidAssumption == MaxInvalid \in Nat
ASSUME ModeAssumption ==
  XnackModes \subseteq BOOLEAN /\ Releases \in BOOLEAN /\ LateNotifiers \in BOOLEAN
ASSUME QuiesceAssumption == QuiesceFails \in BOOLEAN
VARIABLES
  xnack_enabled,
  invalid,         \* prange->invalid
  evicted_ranges,  \* svms->evicted_ranges
  pending,         \* svms->restore_work is scheduled
  stops,           \* evictions of the queues by kgd2opu_quiesce_mm not yet undone
  gpu,             \* GPU mapping of a range: "none", "fresh" or "stale" (the CPU has
                   \* changed the pages since)
  ev,              \* the notifiers: pc and range
  wk,              \* svm_range_restore_work
  ft,              \* svm_range_restore_pages, a retry fault
  proc             \* the process: "alive", "unhashed", "cancelled" (restore_work is),
                   \* "nomm" (p->mm is NULL), "freed"

vars == <<xnack_enabled, invalid, evicted_ranges, pending, stops, gpu, ev, wk, ft, proc>>
counters == <<invalid, evicted_ranges>>

IdleWorker  == [pc |-> "idle", seen |-> 0, todo |-> {}, range |-> CHOOSE r \in Ranges : TRUE,
                inv |-> 0, pages |-> FALSE]
IdleFault   == [pc |-> "idle", range |-> CHOOSE r \in Ranges : TRUE, pages |-> FALSE]
IdleNotifier == [pc |-> "idle", range |-> CHOOSE r \in Ranges : TRUE]

Init ==
  /\ xnack_enabled \in XnackModes
  /\ invalid = [r \in Ranges |-> 0]
  /\ evicted_ranges = 0
  /\ pending = FALSE
  /\ stops = 0
  /\ gpu \in [Ranges -> {"none", "fresh"}]
  /\ ev = [t \in Notifiers |-> IdleNotifier]
  /\ wk = IdleWorker
  /\ ft = IdleFault
  /\ proc = "alive"
-----------------------------------------------------------------------------
\* prange->lock is held by a notifier until its callback returns.
Locked(r) == \E t \in Notifiers : ev[t].range = r /\ ev[t].pc \in {"count", "quiesce", "sched"}

\* From its callback on an invalidation is in progress until the CPU has changed its
\* page table; hmm_range_fault waits for that (mmu_interval_read_begin).
Invalidating(r) == \E t \in Notifiers : ev[t].range = r /\ ev[t].pc # "idle"

\* mmu_interval_set_seq: pages that were looked up for the range are out of date.
SetSeq(r) ==
  /\ wk' = IF wk.range = r THEN [wk EXCEPT !.pages = FALSE] ELSE wk
  /\ ft' = IF ft.range = r THEN [ft EXCEPT !.pages = FALSE] ELSE ft

Uncounted == Cardinality({t \in Notifiers : ev[t].pc = "count"})

\* svm_range_cpu_invalidate_pagetables up to the first counter.  With xnack the range is
\* unmapped from the GPU and the callback returns.
evict_begin(t, r) ==
  /\ ev[t].pc = "idle" /\ ~Locked(r) /\ proc # "freed"
  /\ proc \in {"cancelled", "nomm"} => LateNotifiers
  /\ SetSeq(r)
  /\ IF xnack_enabled
     THEN /\ gpu' = [gpu EXCEPT ![r] = "none"]
          /\ ev' = [ev EXCEPT ![t] = [pc |-> "update", range |-> r]]
          /\ UNCHANGED invalid
     ELSE /\ invalid[r] < MaxInvalid /\ evicted_ranges + Uncounted < MaxInvalid
          /\ invalid' = [invalid EXCEPT ![r] = @ + 1]
          /\ ev' = [ev EXCEPT ![t] = [pc |-> "count", range |-> r]]
          /\ UNCHANGED gpu
  /\ UNCHANGED <<xnack_enabled, evicted_ranges, pending, stops, proc>>

\* Faulty variant: every eviction stops the queues.
evict_count_always(t) ==
  /\ ev[t].pc = "count"
  /\ evicted_ranges' = evicted_ranges + 1
  /\ ev' = [ev EXCEPT ![t].pc = "quiesce"]
  /\ UNCHANGED <<xnack_enabled, invalid, pending, stops, gpu, wk, ft, proc>>

\* atomic_inc_return(&svms->evicted_ranges): only the first eviction goes on.
evict_count(t) ==
  /\ ev[t].pc = "count"
  /\ evicted_ranges' = evicted_ranges + 1
  /\ ev' = [ev EXCEPT ![t].pc = IF evicted_ranges = 0 THEN "quiesce" ELSE "update"]
  /\ UNCHANGED <<xnack_enabled, invalid, pending, stops, gpu, wk, ft, proc>>

\* kgd2opu_quiesce_mm, seen by one device: a process that is not in the table any more
\* is left alone, and when the eviction fails on a later device it is rolled back here.
quiesce_mm(t) ==
  /\ ev[t].pc = "quiesce"
  /\ \E undone \in IF QuiesceFails THEN BOOLEAN ELSE {FALSE} :
       stops' = IF proc = "alive" /\ ~undone THEN stops + 1 ELSE stops
  /\ ev' = [ev EXCEPT ![t].pc = "sched"]
  /\ UNCHANGED <<xnack_enabled, invalid, evicted_ranges, pending, gpu, wk, ft, proc>>

\* schedule_delayed_work(&svms->restore_work), whatever kgd2opu_quiesce_mm returned.
evict_schedule(t) ==
  /\ ev[t].pc = "sched"
  /\ pending' = TRUE
  /\ ev' = [ev EXCEPT ![t].pc = "update"]
  /\ UNCHANGED <<xnack_enabled, invalid, evicted_ranges, stops, gpu, wk, ft, proc>>

\* The kernel changes the CPU's page table and ends the invalidation.
cpu_update(t) ==
  /\ ev[t].pc = "update"
  /\ gpu' = [gpu EXCEPT ![ev[t].range] = IF @ = "fresh" THEN "stale" ELSE @]
  /\ ev' = [ev EXCEPT ![t].pc = "idle"]
  /\ UNCHANGED <<xnack_enabled, invalid, evicted_ranges, pending, stops, wk, ft, proc>>
-----------------------------------------------------------------------------
\* svm_range_restore_work starts; it returns when nothing is evicted or the mm is gone.
restore_begin ==
  /\ pending /\ wk.pc = "idle" /\ proc # "freed"
  /\ pending' = FALSE
  /\ wk' = IF evicted_ranges = 0 \/ proc = "nomm" THEN wk ELSE [wk EXCEPT !.pc = "lock"]
  /\ UNCHANGED <<xnack_enabled, invalid, evicted_ranges, stops, gpu, ev, ft, proc>>

\* The mmap lock and svms->lock are taken and the counter read.
restore_lock ==
  /\ wk.pc = "lock" /\ ft.pc = "idle"
  /\ wk' = [wk EXCEPT !.pc = "walk", !.seen = evicted_ranges, !.todo = Ranges]
  /\ UNCHANGED <<xnack_enabled, invalid, evicted_ranges, pending, stops, gpu, ev, ft, proc>>

\* The next range of the list; a valid one is skipped.
restore_range(r) ==
  /\ wk.pc = "walk" /\ r \in wk.todo
  /\ wk' = IF invalid[r] = 0 THEN [wk EXCEPT !.todo = @ \ {r}]
           ELSE [wk EXCEPT !.pc = "pages", !.range = r, !.inv = invalid[r]]
  /\ UNCHANGED <<xnack_enabled, invalid, evicted_ranges, pending, stops, gpu, ev, ft, proc>>

\* svm_range_validate_and_map: the pages are looked up and DMA-mapped ...
restore_pages ==
  /\ wk.pc = "pages" /\ ~Invalidating(wk.range)
  /\ wk' = [wk EXCEPT !.pc = "map", !.pages = TRUE]
  /\ UNCHANGED <<xnack_enabled, invalid, evicted_ranges, pending, stops, gpu, ev, ft, proc>>

\* ... or not (out of memory, no such address).
restore_fails ==
  /\ wk.pc \in {"pages", "map"}
  /\ wk' = [wk EXCEPT !.pc = "out"]
  /\ UNCHANGED <<xnack_enabled, invalid, evicted_ranges, pending, stops, gpu, ev, ft, proc>>

\* Under prange->lock: map if the pages are still valid, else -EAGAIN.
restore_map ==
  /\ wk.pc = "map" /\ ~Locked(wk.range)
  /\ IF wk.pages
     THEN /\ gpu' = [gpu EXCEPT ![wk.range] = "fresh"]
          /\ wk' = [wk EXCEPT !.pc = "swap"]
     ELSE wk' = [wk EXCEPT !.pc = "out"] /\ UNCHANGED gpu
  /\ UNCHANGED <<xnack_enabled, invalid, evicted_ranges, pending, stops, ev, ft, proc>>

\* atomic_cmpxchg(&prange->invalid, invalid, 0)
restore_swap ==
  /\ wk.pc = "swap"
  /\ IF invalid[wk.range] = wk.inv
     THEN /\ invalid' = [invalid EXCEPT ![wk.range] = 0]
          /\ wk' = [wk EXCEPT !.pc = "walk", !.todo = @ \ {wk.range}]
     ELSE wk' = [wk EXCEPT !.pc = "out"] /\ UNCHANGED invalid
  /\ UNCHANGED <<xnack_enabled, evicted_ranges, pending, stops, gpu, ev, ft, proc>>

\* Faulty variant: the counter of the process is cleared without comparing.
restore_done_blind ==
  /\ wk.pc = "walk" /\ wk.todo = {}
  /\ evicted_ranges' = 0 /\ wk' = [wk EXCEPT !.pc = "resume"]
  /\ UNCHANGED <<xnack_enabled, invalid, pending, stops, gpu, ev, ft, proc>>

\* Faulty variant: a worker that was overtaken by an eviction leaves it to the next one.
restore_done_overtaken ==
  /\ wk.pc = "walk" /\ wk.todo = {}
  /\ IF evicted_ranges = wk.seen
     THEN evicted_ranges' = 0 /\ wk' = [wk EXCEPT !.pc = "resume"]
     ELSE wk' = IdleWorker /\ UNCHANGED evicted_ranges
  /\ UNCHANGED <<xnack_enabled, invalid, pending, stops, gpu, ev, ft, proc>>

\* atomic_cmpxchg(&svms->evicted_ranges, evicted_ranges, 0)
restore_done ==
  /\ wk.pc = "walk" /\ wk.todo = {}
  /\ IF evicted_ranges = wk.seen
     THEN evicted_ranges' = 0 /\ wk' = [wk EXCEPT !.pc = "resume"]
     ELSE wk' = [wk EXCEPT !.pc = "out"] /\ UNCHANGED evicted_ranges
  /\ UNCHANGED <<xnack_enabled, invalid, pending, stops, gpu, ev, ft, proc>>

\* kgd2opu_resume_mm, which does nothing where no eviction is counted; the locks are
\* dropped and nothing is rescheduled.
restore_resume ==
  /\ wk.pc = "resume"
  /\ stops' = IF proc = "alive" /\ stops > 0 THEN stops - 1 ELSE stops
  /\ wk' = IdleWorker
  /\ UNCHANGED <<xnack_enabled, invalid, evicted_ranges, pending, gpu, ev, ft, proc>>

\* Faulty variant: a restore that is not complete is not scheduled again.
restore_out_dropped ==
  /\ wk.pc = "out"
  /\ wk' = IdleWorker
  /\ UNCHANGED <<xnack_enabled, invalid, evicted_ranges, pending, stops, gpu, ev, ft, proc>>

\* out_reschedule
restore_out ==
  /\ wk.pc = "out"
  /\ pending' = TRUE
  /\ wk' = IdleWorker
  /\ UNCHANGED <<xnack_enabled, invalid, evicted_ranges, stops, gpu, ev, ft, proc>>
-----------------------------------------------------------------------------
\* svm_range_restore_pages: the GPU faults on a range it has no mapping of.
fault_begin(r) ==
  /\ xnack_enabled /\ ft.pc = "idle" /\ gpu[r] = "none" /\ proc = "alive"
  /\ wk.pc \in {"idle", "lock"}
  /\ ft' = [pc |-> "pages", range |-> r, pages |-> FALSE]
  /\ UNCHANGED <<xnack_enabled, invalid, evicted_ranges, pending, stops, gpu, ev, wk, proc>>

fault_pages ==
  /\ ft.pc = "pages" /\ ~Invalidating(ft.range)
  /\ ft' = [ft EXCEPT !.pc = "map", !.pages = TRUE]
  /\ UNCHANGED <<xnack_enabled, invalid, evicted_ranges, pending, stops, gpu, ev, wk, proc>>

\* A fault that cannot be served now is served when the GPU retries.
fault_map ==
  /\ ft.pc = "map" /\ ~Locked(ft.range)
  /\ gpu' = IF ft.pages THEN [gpu EXCEPT ![ft.range] = "fresh"] ELSE gpu
  /\ ft' = IdleFault
  /\ UNCHANGED <<xnack_enabled, invalid, evicted_ranges, pending, stops, ev, wk, proc>>
-----------------------------------------------------------------------------
\* opu_process_notifier_release: the process leaves the table ...
release_unhash ==
  /\ Releases /\ proc = "alive"
  /\ proc' = "unhashed"
  /\ UNCHANGED <<xnack_enabled, invalid, evicted_ranges, pending, stops, gpu, ev, wk, ft>>

\* ... cancel_delayed_work_sync(&p->svms.restore_work) ...
release_cancel ==
  /\ proc = "unhashed" /\ wk.pc = "idle"
  /\ LateNotifiers \/ \A t \in Notifiers : ev[t].pc = "idle"
  /\ pending' = FALSE
  /\ proc' = "cancelled"
  /\ UNCHANGED <<xnack_enabled, invalid, evicted_ranges, stops, gpu, ev, wk, ft>>

\* ... and p->mm = NULL.
release_mm ==
  /\ proc = "cancelled"
  /\ proc' = "nomm"
  /\ UNCHANGED <<xnack_enabled, invalid, evicted_ranges, pending, stops, gpu, ev, wk, ft>>

\* The last reference is gone: svm_range_list_fini removes the notifiers, which waits
\* for the invalidations in progress, and the process is freed.
release_free ==
  /\ proc = "nomm" /\ ft.pc = "idle"
  /\ \A t \in Notifiers : ev[t].pc = "idle"
  /\ proc' = "freed"
  /\ UNCHANGED <<xnack_enabled, invalid, evicted_ranges, pending, stops, gpu, ev, wk, ft>>
-----------------------------------------------------------------------------
Evict ==
  \E t \in Notifiers :
    \/ \E r \in Ranges : evict_begin(t, r)
    \/ evict_count(t) \/ quiesce_mm(t) \/ evict_schedule(t) \/ cpu_update(t)

Restore ==
  \/ restore_begin \/ restore_lock \/ (\E r \in Ranges : restore_range(r))
  \/ restore_pages \/ restore_fails \/ restore_map \/ restore_swap
  \/ restore_done \/ restore_resume \/ restore_out

Fault == (\E r \in Ranges : fault_begin(r)) \/ fault_pages \/ fault_map

Release == release_unhash \/ release_cancel \/ release_mm \/ release_free

Next == Evict \/ Restore \/ Fault \/ Release

\* A callback runs to its end and the kernel's work queue runs the worker.  That
\* validation succeeds in the end is an assumption (memory becomes available): strong
\* fairness of the two steps that may fail.
Fairness ==
  /\ \A t \in Notifiers :
       WF_vars(evict_count(t)) /\ WF_vars(quiesce_mm(t)) /\ WF_vars(evict_schedule(t))
       /\ WF_vars(cpu_update(t))
  /\ WF_vars(restore_begin) /\ WF_vars(restore_lock)
  /\ WF_vars(\E r \in Ranges : restore_range(r))
  /\ SF_vars(restore_pages) /\ SF_vars(restore_map)
  /\ WF_vars(restore_swap) /\ WF_vars(restore_done) /\ WF_vars(restore_resume)
  /\ WF_vars(restore_out)

Spec == Init /\ [][Next]_vars /\ Fairness
-----------------------------------------------------------------------------
NotifierPcs == {"idle", "count", "quiesce", "sched", "update"}
WorkerPcs   == {"idle", "lock", "walk", "pages", "map", "swap", "resume", "out"}

\* The shape of the state: counters of ranges and of evictions, GPU mappings, notifiers,
\* worker and fault handler.
EvictTypeOK ==
  /\ xnack_enabled \in BOOLEAN
  /\ invalid \in [Ranges -> Nat]
  /\ evicted_ranges \in Nat
  /\ pending \in BOOLEAN
  /\ stops \in Nat
  /\ gpu \in [Ranges -> {"none", "fresh", "stale"}]
  /\ ev \in [Notifiers -> [pc : NotifierPcs, range : Ranges]]
  /\ wk \in [pc : WorkerPcs, seen : Nat, todo : SUBSET Ranges, range : Ranges,
             inv : Nat, pages : BOOLEAN]
  /\ ft \in [pc : {"idle", "pages", "map"}, range : Ranges, pages : BOOLEAN]
  /\ proc \in {"alive", "unhashed", "cancelled", "nomm", "freed"}

Stopping == \E t \in Notifiers : ev[t].pc = "quiesce"
Ones(b)  == IF b THEN 1 ELSE 0

\* The queues are stopped exactly once for the evictions counted now, once the first of
\* them has done so, and once more while the worker that has counted the evictions of
\* before down is about to resume them: nothing is resumed that was not stopped, and the
\* queues do not stay stopped (svm_range_evict, svm_range_restore_work).  It holds as
\* long as kgd2opu_quiesce_mm does not fail: svm_range_evict ignores that it did.
StopsExact ==
  proc = "alive" => stops = Ones(evicted_ranges > 0 /\ ~Stopping) + Ones(wk.pc = "resume")

\* As long as evictions are counted exactly one party is bound to restore them: the first
\* evictor on its way to schedule_delayed_work, the scheduled work, or the worker.
Restorers == Cardinality({t \in Notifiers : ev[t].pc \in {"quiesce", "sched"}})
             + Ones(pending) + Ones(wk.pc \notin {"idle", "resume"})
OneRestorer == proc = "alive" => Restorers = Ones(evicted_ranges > 0)

\* What the comment of svm_range_evict promises of every eviction: the queues are stopped
\* before it returns, hence before the CPU changes a page.
StoppedOnReturn ==
  \A r \in Ranges : proc = "alive" /\ gpu[r] = "stale" => stops > 0

\* The restore work outlives neither the process nor its mm (the comment in
\* svm_range_restore_work: the release of the process destroys this worker thread).
WorkerHasProcess == proc = "freed" => ~pending /\ wk.pc = "idle"

\* Eviction and restoration seen as the gate.
GateState   == IF evicted_ranges = 0 THEN "open" ELSE IF Stopping THEN "closing" ELSE "closed"
StaleRanges == {r \in Ranges : gpu[r] = "stale"}
Lifting     == wk.pc = "resume"
TheGate == INSTANCE SvmGate WITH gate <- GateState, stale <- StaleRanges, lifting <- Lifting

\* Every step is one of the gate's or leaves it alone: pages change behind a gate that is
\* not open, and the restoration ends only when no mapping is stale, whatever is
\* invalidated while it runs.
ImplementsGate == TheGate!Spec

\* Evictions that are counted are restored and the worker goes on to resume the queues,
\* unless the process exits, although validation fails and ranges are invalidated again.
QueuesResume == evicted_ranges > 0 ~> wk.pc = "resume" \/ proc # "alive"
=============================================================================
