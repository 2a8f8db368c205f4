----------------------------- MODULE OpuEviction -----------------------------
(***************************************************************************)
(* Eviction of the queues of a process and its sources (opu_process.c,     *)
(* opu_device.c).                                                          *)
(*                                                                         *)
(* Four parties stop and restart the queues of a process on all of its     *)
(* devices: the eviction worker (memory of the process is to be moved: its *)
(* eviction fence was asked to signal), the restore worker that undoes it, *)
(* shared virtual memory (kgd2opu_quiesce_mm and kgd2opu_resume_mm, see    *)
(* SvmEvict), and suspend, resume and reset of the devices.  Each runs     *)
(* over the devices one at a time; a device counts nested evictions and    *)
(* stops the queues at the first (evict_process_queues_cpsch, OpuQueues).  *)
(*                                                                         *)
(* The variables under "ledger" are not in the code: they count the        *)
(* evictions nobody will undo, at the places where that is decided.        *)
(***************************************************************************)
EXTENDS Integers, FiniteSets
CONSTANTS
  NDevices,      \* p->n_pdds
  FailingParties,\* parties whose first eviction of a device may fail
  LateModes,     \* whether an eviction may be asked for while a suspension is under way,
                 \* by a caller that may also be delayed after its first test
  BornLocked,    \* the process may have been opened while the driver was suspended
  MaxFences,     \* bound: eviction fences made
  MaxLocked      \* bound: suspensions and resets begun
Parties == {"evict", "restore", "mm", "pm"}
ASSUME DevicesAssumption == NDevices \in Nat \ {0}
ASSUME BoundsAssumption  == MaxFences \in Nat \ {0} /\ MaxLocked \in Nat
ASSUME ModesAssumption   == LateModes \subseteq BOOLEAN /\ BornLocked \in BOOLEAN
Devices == 1 .. NDevices
VARIABLES
  late,                \* the mode of this behaviour
  evicted,             \* qpd.evicted of each device
  pc, at, bad,         \* of each party: where it is, at which device, and the device at
                       \* which its eviction failed
  pending,             \* pending works: subset of {"evict", "restore"}
  ef,                  \* p->ef, 0 when NULL
  fence,               \* the fence last made
  signaled,            \* the signaled fences
  last_eviction_seqno,
  caller,              \* kgd2opu_schedule_evict_and_restore_process
  opu_locked, down,    \* suspended devices, and those being reset
  resetting,
  lost,                \* holds of opu_locked that no resume gives back
  begun,               \* bound: suspensions and resets so far
  pmheld, forgotten, stuck   \* ledger: suspended by pm; evictions nobody undoes, of all
                             \* devices and of one

evictVars == <<evicted, pc, at, bad>>
fenceVars == <<late, ef, fence, signaled, last_eviction_seqno, caller>>
pmVars    == <<opu_locked, down, resetting, lost, begun>>
ledger    == <<pmheld, forgotten, stuck>>
vars == <<evictVars, pending, fenceVars, pmVars, ledger>>

NoCaller == [pc |-> "idle", fence |-> 0]

Init ==
  /\ late \in LateModes
  /\ evicted = [d \in Devices |-> 0]
  /\ pc = [p \in Parties |-> "idle"]
  /\ at = [p \in Parties |-> 1]
  /\ bad = [p \in Parties |-> 1]
  /\ pending = {}
  /\ ef = 1 /\ fence = 1 /\ signaled = {} /\ last_eviction_seqno = 0
  /\ caller = NoCaller
  /\ \/ opu_locked = 0 /\ down = {}
     \/ BornLocked /\ opu_locked = 1 /\ down = {1}
  /\ resetting = {} /\ lost = 0 /\ begun = 0
  /\ pmheld = 0 /\ forgotten = 0 /\ stuck = [d \in Devices |-> 0]
-----------------------------------------------------------------------------
Begin(p, where) == pc' = [pc EXCEPT ![p] = where] /\ at' = [at EXCEPT ![p] = 1]
                   /\ UNCHANGED <<evicted, bad>>
Goto(p, where)  == pc' = [pc EXCEPT ![p] = where] /\ UNCHANGED <<evicted, at, bad>>

\* The party goes on with the next device, or has done the last one.
NextDevice(p, done, where) ==
  IF done THEN pc' = [pc EXCEPT ![p] = where] /\ at' = at
  ELSE at' = [at EXCEPT ![p] = @ + 1] /\ pc' = pc

\* The dqm's restore of one device.
restore_process_queues(d) == evicted' = [evicted EXCEPT ![d] = IF @ > 0 THEN @ - 1 ELSE 0]

\* opu_process_evict_queues: one device.  The queues are stopped at the first eviction.
evict_device(p) ==
  /\ pc[p] = "evict"
  /\ evicted' = [evicted EXCEPT ![at[p]] = @ + 1]
  /\ NextDevice(p, at[p] = NDevices, "evicted")
  /\ UNCHANGED <<bad, pending, fenceVars, pmVars, ledger>>

\* Stopping the queues fails.  The device has counted the eviction; the devices before it
\* are rolled back.
evict_device_fails(p) ==
  /\ pc[p] = "evict" /\ p \in FailingParties /\ evicted[at[p]] = 0
  /\ evicted' = [evicted EXCEPT ![at[p]] = 1]
  /\ stuck' = [stuck EXCEPT ![at[p]] = @ + 1]
  /\ bad' = [bad EXCEPT ![p] = at[p]]
  /\ at' = [at EXCEPT ![p] = 1]
  /\ pc' = [pc EXCEPT ![p] = IF at[p] = 1 THEN "failed" ELSE "undo"]
  /\ UNCHANGED <<pending, fenceVars, pmVars, pmheld, forgotten>>

undo_device(p) ==
  /\ pc[p] = "undo"
  /\ restore_process_queues(at[p])
  /\ NextDevice(p, at[p] + 1 = bad[p], "failed")
  /\ UNCHANGED <<bad, pending, fenceVars, pmVars, ledger>>

\* opu_process_restore_queues: one device, whatever the others returned.
restore_device(p) ==
  /\ pc[p] = "restore"
  /\ restore_process_queues(at[p])
  /\ NextDevice(p, at[p] = NDevices, "restored")
  /\ UNCHANGED <<bad, pending, fenceVars, pmVars, ledger>>
-----------------------------------------------------------------------------
\* kgd2opu_schedule_evict_and_restore_process up to the test of the fence ...
schedule_evict_test(f) ==
  /\ late /\ caller.pc = "idle"
  /\ f \in 1 .. fence /\ f \notin signaled
  /\ caller' = [pc |-> "tested", fence |-> f]
  /\ UNCHANGED <<late, evictVars, pending, ef, fence, signaled, last_eviction_seqno, pmVars, ledger>>

\* ... and from there on.
ScheduleEviction(f) ==
  IF f = last_eviction_seqno THEN UNCHANGED <<last_eviction_seqno, pending>>
  ELSE last_eviction_seqno' = f /\ pending' = pending \cup {"evict"}

schedule_evict_late ==
  /\ caller.pc = "tested"
  /\ ScheduleEviction(caller.fence)
  /\ caller' = NoCaller
  /\ UNCHANGED <<late, evictVars, ef, fence, signaled, pmVars, ledger>>

\* Faulty variant: a fence that has signaled or was seen is scheduled again.
schedule_evict_unchecked(f) ==
  /\ caller.pc = "idle" /\ f \in 1 .. fence
  /\ f # last_eviction_seqno
  /\ late \/ pc["pm"] \in {"idle", "cancel"}
  /\ ScheduleEviction(f)
  /\ UNCHANGED <<late, evictVars, ef, fence, signaled, caller, pmVars, ledger>>

\* A call that is not delayed.
schedule_evict(f) ==
  /\ caller.pc = "idle" /\ f \in 1 .. fence /\ f \notin signaled
  /\ f # last_eviction_seqno
  /\ late \/ pc["pm"] \in {"idle", "cancel"}
  /\ ScheduleEviction(f)
  /\ UNCHANGED <<late, evictVars, ef, fence, signaled, caller, pmVars, ledger>>

\* evict_process_worker: it reads p->ef->seqno and waits for a restore that is queued or
\* under way.  Without a fence that is the end of the worker.
evict_worker_begin ==
  /\ "evict" \in pending /\ pc["evict"] = "idle" /\ pc["pm"] # "cancel"
  /\ pending' = pending \ {"evict"}
  /\ Begin("evict", IF ef = 0 THEN "oops"
                    ELSE IF "restore" \in pending \/ pc["restore"] # "idle" THEN "flush"
                    ELSE "evict")
  /\ UNCHANGED <<fenceVars, pmVars, ledger>>

\* Faulty variant: the fence is given up without being signaled.
evict_worker_done_unsignaled ==
  /\ pc["evict"] = "evicted"
  /\ ef' = 0
  /\ forgotten' = IF "restore" \in pending THEN forgotten + 1 ELSE forgotten
  /\ pending' = pending \cup {"restore"}
  /\ Goto("evict", "idle")
  /\ UNCHANGED <<late, fence, signaled, last_eviction_seqno, caller, pmVars, pmheld, stuck>>

\* The queues are stopped: the fence signals and a restore is queued.
evict_worker_done ==
  /\ pc["evict"] = "evicted"
  /\ signaled' = signaled \cup ({ef} \ {0})
  /\ ef' = 0
  /\ forgotten' = IF "restore" \in pending THEN forgotten + 1 ELSE forgotten
  /\ pending' = pending \cup {"restore"}
  /\ Goto("evict", "idle")
  /\ UNCHANGED <<late, fence, last_eviction_seqno, caller, pmVars, pmheld, stuck>>

\* The eviction failed: it is logged.
evict_worker_failed ==
  /\ pc["evict"] = "failed"
  /\ Goto("evict", "idle")
  /\ UNCHANGED <<pending, fenceVars, pmVars, ledger>>
-----------------------------------------------------------------------------
\* The end of a run of the restore worker lets a flush of it go on.
RestoreEnds ==
  /\ pc' = [pc EXCEPT !["restore"] = "idle",
                      !["evict"] = IF @ = "flush" THEN "evict" ELSE @]
  /\ UNCHANGED <<evicted, at, bad>>

restore_worker_begin ==
  /\ "restore" \in pending /\ pc["restore"] = "idle" /\ pc["pm"] # "cancel_restore"
  /\ pending' = pending \ {"restore"}
  /\ Begin("restore", "bos")
  /\ UNCHANGED <<fenceVars, pmVars, ledger>>

\* amdgpu_amdopu_gpuvm_restore_process_bos: the memory is back, under a new fence.
restore_worker_bos ==
  /\ pc["restore"] = "bos" /\ fence < MaxFences
  /\ fence' = fence + 1 /\ ef' = fence + 1
  /\ Begin("restore", "restore")
  /\ UNCHANGED <<late, pending, signaled, last_eviction_seqno, caller, pmVars, ledger>>

\* It is not: the worker queues itself.
restore_worker_retry ==
  /\ pc["restore"] = "bos"
  /\ forgotten' = IF "restore" \in pending THEN forgotten + 1 ELSE forgotten
  /\ pending' = pending \cup {"restore"}
  /\ RestoreEnds
  /\ UNCHANGED <<fenceVars, pmVars, pmheld, stuck>>

restore_worker_done ==
  /\ pc["restore"] = "restored"
  /\ RestoreEnds
  /\ UNCHANGED <<pending, fenceVars, pmVars, ledger>>

\* Shared virtual memory stops the queues ...
quiesce_mm ==
  /\ pc["mm"] = "idle"
  /\ Begin("mm", "evict")
  /\ UNCHANGED <<pending, fenceVars, pmVars, ledger>>

\* ... and resumes them, whatever stopping them returned.
resume_mm ==
  /\ pc["mm"] \in {"evicted", "failed"}
  /\ Begin("mm", "restore")
  /\ UNCHANGED <<pending, fenceVars, pmVars, ledger>>

resume_mm_done ==
  /\ pc["mm"] = "restored"
  /\ Goto("mm", "idle")
  /\ UNCHANGED <<pending, fenceVars, pmVars, ledger>>
-----------------------------------------------------------------------------
\* kgd2opu_suspend and kgd2opu_pre_reset of a device: the first one suspends the
\* processes, opu_suspend_all_processes.
pm_suspend(d, reset) ==
  /\ pc["pm"] = "idle" /\ d \notin down \cup resetting
  /\ begun < MaxLocked
  /\ begun' = begun + 1
  /\ opu_locked' = opu_locked + 1
  /\ IF reset THEN resetting' = resetting \cup {d} /\ down' = down
              ELSE down' = down \cup {d} /\ resetting' = resetting
  /\ IF opu_locked = 0 THEN Goto("pm", "cancel") ELSE UNCHANGED evictVars
  /\ UNCHANGED <<pending, fenceVars, lost, ledger>>

\* cancel_delayed_work_sync(&p->eviction_work): waits for the worker and lets it not
\* start again.
pm_cancel_evict ==
  /\ pc["pm"] = "cancel" /\ pc["evict"] = "idle"
  /\ pending' = pending \ {"evict"}
  /\ Goto("pm", "cancel_restore")
  /\ UNCHANGED <<fenceVars, pmVars, ledger>>

\* Faulty variant: the suspend does not wait for the restore work.
pm_cancel_restore_async ==
  /\ pc["pm"] = "cancel_restore"
  /\ pending' = pending \ {"restore"}
  /\ forgotten' = IF "restore" \in pending \/ pc["restore"] # "idle" THEN forgotten + 1
                  ELSE forgotten
  /\ Begin("pm", "evict")
  /\ UNCHANGED <<fenceVars, pmVars, pmheld, stuck>>

\* cancel_delayed_work_sync(&p->restore_work): a restore that was due will not come.
pm_cancel_restore ==
  /\ pc["pm"] = "cancel_restore" /\ pc["restore"] = "idle"
  /\ pending' = pending \ {"restore"}
  /\ forgotten' = IF "restore" \in pending THEN forgotten + 1 ELSE forgotten
  /\ Begin("pm", "evict")
  /\ UNCHANGED <<fenceVars, pmVars, pmheld, stuck>>

\* The fence signals, whether or not the queues could be stopped.
pm_suspended ==
  /\ pc["pm"] \in {"evicted", "failed"}
  /\ pmheld' = IF pc["pm"] = "evicted" THEN pmheld + 1 ELSE pmheld
  /\ signaled' = signaled \cup ({ef} \ {0})
  /\ ef' = 0
  /\ Goto("pm", "idle")
  /\ UNCHANGED <<late, pending, fence, last_eviction_seqno, caller, pmVars, forgotten, stuck>>

\* kgd2opu_resume after opu_resume succeeded: the last one lets the processes be
\* restored, opu_resume_all_processes.
pm_resume(d) ==
  /\ pc["pm"] = "idle" /\ d \in down
  /\ down' = down \ {d}
  /\ opu_locked' = opu_locked - 1
  /\ IF opu_locked = 1
     THEN /\ pending' = pending \cup {"restore"}
          /\ pmheld' = 0
          /\ forgotten' = forgotten + IF "restore" \in pending THEN pmheld ELSE pmheld - 1
     ELSE UNCHANGED <<pending, pmheld, forgotten>>
  /\ UNCHANGED <<evictVars, fenceVars, resetting, lost, begun, stuck>>

\* kgd2opu_post_reset after opu_resume succeeded: nobody restores the processes.
pm_post_reset(d) ==
  /\ pc["pm"] = "idle" /\ d \in resetting
  /\ resetting' = resetting \ {d}
  /\ opu_locked' = opu_locked - 1
  /\ IF opu_locked = 1 THEN pmheld' = 0 /\ forgotten' = forgotten + pmheld
                       ELSE UNCHANGED <<pmheld, forgotten>>
  /\ UNCHANGED <<evictVars, pending, fenceVars, down, lost, begun, stuck>>

\* opu_resume fails in either: opu_locked keeps its hold for this device, which may be
\* suspended again.
opu_resume_fails(d) ==
  /\ pc["pm"] = "idle" /\ d \in down \cup resetting
  /\ down' = down \ {d} /\ resetting' = resetting \ {d}
  /\ lost' = lost + 1
  /\ UNCHANGED <<evictVars, pending, fenceVars, opu_locked, begun, ledger>>
-----------------------------------------------------------------------------
Loops == \E p \in Parties : evict_device(p) \/ evict_device_fails(p) \/ undo_device(p)
                            \/ restore_device(p)
Callers == \/ \E f \in 1 .. MaxFences : schedule_evict_test(f) \/ schedule_evict(f)
           \/ schedule_evict_late
Workers == \/ evict_worker_begin \/ evict_worker_done \/ evict_worker_failed
           \/ restore_worker_begin \/ restore_worker_bos \/ restore_worker_retry
           \/ restore_worker_done
Mm == quiesce_mm \/ resume_mm \/ resume_mm_done
Pm == \/ \E d \in Devices : \/ \E reset \in BOOLEAN : pm_suspend(d, reset)
                            \/ pm_resume(d) \/ pm_post_reset(d) \/ opu_resume_fails(d)
      \/ pm_cancel_evict \/ pm_cancel_restore \/ pm_suspended

Next == Loops \/ Callers \/ Workers \/ Mm \/ Pm

\* The work queues run the workers, a loop over the devices goes on, and a thread that
\* suspends a device is not stopped.  Memory can be restored in the end.
Fairness ==
  /\ \A p \in Parties : WF_vars(evict_device(p)) /\ WF_vars(undo_device(p))
                        /\ WF_vars(restore_device(p))
  /\ WF_vars(evict_worker_begin) /\ WF_vars(evict_worker_done) /\ WF_vars(evict_worker_failed)
  /\ WF_vars(restore_worker_begin) /\ SF_vars(restore_worker_bos)
  /\ WF_vars(restore_worker_bos \/ restore_worker_retry) /\ WF_vars(restore_worker_done)
  /\ WF_vars(resume_mm) /\ WF_vars(resume_mm_done)
  /\ WF_vars(pm_cancel_evict) /\ WF_vars(pm_cancel_restore) /\ WF_vars(pm_suspended)

Spec == Init /\ [][Next]_vars /\ Fairness
-----------------------------------------------------------------------------
Pcs == {"idle", "oops", "flush", "bos", "cancel", "cancel_restore", "evict", "undo", "evicted",
        "failed", "restore", "restored"}

\* The shape of the state.
EvictionTypeOK ==
  /\ late \in BOOLEAN
  /\ evicted \in [Devices -> Nat]
  /\ pc \in [Parties -> Pcs] /\ at \in [Parties -> Devices] /\ bad \in [Parties -> Devices]
  /\ pending \subseteq {"evict", "restore"}
  /\ ef \in 0 .. MaxFences /\ fence \in 1 .. MaxFences /\ signaled \subseteq 1 .. MaxFences
  /\ last_eviction_seqno \in 0 .. MaxFences
  /\ caller \in [pc : {"idle", "tested"}, fence : 0 .. MaxFences]
  /\ opu_locked \in Nat /\ down \subseteq Devices /\ resetting \subseteq Devices
  /\ lost \in Nat /\ begun \in Nat
  /\ pmheld \in Nat /\ forgotten \in Int /\ stuck \in [Devices -> Nat]

\* A party has evicted device d and is bound to undo it.
Holds(p, d) ==
  \/ pc[p] = "evict"   /\ d < at[p]
  \/ pc[p] = "undo"    /\ at[p] <= d /\ d < bad[p]
  \/ pc[p] = "restore" /\ at[p] <= d
  \/ pc[p] \in {"evicted", "bos"}
Bound(p, d) == IF Holds(p, d) THEN 1 ELSE 0
Queued == IF "restore" \in pending THEN 1 ELSE 0
Due(d) == Bound("evict", d) + Bound("restore", d) + Bound("mm", d) + Bound("pm", d)
          + Queued + pmheld

\* The evictions a device counts are those that somebody is going to undo, plus those
\* nobody is: a restore that suspending cancelled or that a reset does not schedule, and
\* the device on which an eviction failed.  So no source's restore resumes queues that
\* another source still holds, however the loops over the devices interleave.
EvictionsAccounted ==
  EvictionTypeOK /\ \A d \in Devices : evicted[d] = Due(d) + forgotten + stuck[d]

\* Nobody restores a device that is not evicted: restore_process_queues_cpsch warns.
RestoreMatchesEviction ==
  \A p \in Parties : pc[p] \in {"undo", "restore"} => evicted[at[p]] > 0

\* When the eviction worker is due to run there is a fence to signal, the one the
\* eviction was scheduled for (evict_process_worker reads p->ef->seqno and warns of a
\* mismatch).
EvictionHasFence == "evict" \in pending => ef # 0 /\ last_eviction_seqno = ef

\* So it is when no eviction is asked for during a suspension.
FenceUnlessLate == ~late => EvictionHasFence

Quiet == pending = {} /\ opu_locked = 0 /\ \A p \in Parties : pc[p] = "idle"

\* Evictions from different sources nest safely (comment of opu_process_evict_queues):
\* when no source holds the queues any more, they run.
NestedSafely == Quiet => \A d \in Devices : evicted[d] = 0

\* When every device is back, opu_open works again (it refuses while opu_is_locked).
UnlockedWhenUp == down \cup resetting = {} => opu_locked = 0

\* A fence that was asked to signal does so, unless the queues cannot be stopped or the
\* request came late.
FenceSignals ==
  last_eviction_seqno # 0 /\ last_eviction_seqno \notin signaled
    ~> last_eviction_seqno \in signaled \/ late \/ \E d \in Devices : stuck[d] > 0
=============================================================================
