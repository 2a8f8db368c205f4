------------------------------ MODULE OpuQueues ------------------------------
(***************************************************************************)
(* The queues of one device under the hardware scheduler (HWS, the "cpsch" *)
(* operations): the process queue manager of every process (pqm), the      *)
(* device queue manager (dqm) and the run list that the dqm hands to the   *)
(* firmware.                                                               *)
(*                                                                         *)
(* p->mutex is held through a queue ioctl, so a process has at most one    *)
(* under way: `op'.  dqm_lock is held in parts of it only; the steps below *)
(* are the parts, and between them other processes, the workers that evict *)
(* and restore queues, and the device's suspend and reset run.             *)
(*                                                                         *)
(* A queue is named by its process and its slot in the pqm.  Ring address, *)
(* size and percentage matter only through QUEUE_IS_ACTIVE and are one     *)
(* flag, `on'.  The packet manager and the MQD managers are not part of    *)
(* the source: what they answer is a choice from the constants below.      *)
(***************************************************************************)
EXTENDS Naturals, FiniteSets

CONSTANTS
  Procs,               \* processes
  Types,               \* types of the queues user mode creates
  MAX_PER_PROCESS,     \* OPU_MAX_NUM_OF_QUEUES_PER_PROCESS
  MAX_PER_DEVICE,      \* max_num_of_queues_per_device
  HWS_LIMIT,           \* queues of a process the firmware takes (127)
  HQD_HALF,            \* the same for a process that is being debugged
  NUM_SDMA,            \* SDMA queues of the device, for each SDMA type
  ReservedDoorbells,   \* doorbells that init_doorbell_bitmap masks out
  NoOversubscription,  \* sched_policy is HWS_NO_OVERSUBSCRIPTION
  VMIDS,               \* vm_info.vmid_num_opu
  CP_QUEUES,           \* get_cp_queues_num
  UINT,                \* an unsigned int counts modulo this (2^32)
  UnmapOutcomes,       \* how an unmap request to the firmware may end
  MapOutcomes,         \* how sending a run list may end
  NoMemory,            \* allocations may fail
  Debugging,           \* processes that are debugged (and get a DIQ)
  UsesGws,             \* user mode asks for GWS
  CarriesOn,           \* user mode goes on after a failed destroy, and may
                       \* destroy and update the queue again
  LateEvict,           \* evictions reach a process that is being released
  MaxEvicted,          \* bound: nested evictions of a process
  MaxStops             \* bound: suspends and resets of the device

COMPUTE == "COMPUTE"
SDMA == "SDMA"
SDMA_XGMI == "SDMA_XGMI"
DIQ == "DIQ"

SdmaTypes == {SDMA, SDMA_XGMI}
SdmaIds   == 0..(NUM_SDMA - 1)
Qids      == 0..(MAX_PER_PROCESS - 1)
Doorbells == Qids
NONE      == MAX_PER_PROCESS + NUM_SDMA   \* no queue, no SDMA id, no doorbell

ASSUME OpuQueuesAssumption ==
  /\ IsFiniteSet(Procs) /\ Procs # {}
  /\ Types \subseteq {COMPUTE} \cup SdmaTypes
  /\ MAX_PER_PROCESS \in Nat /\ MAX_PER_DEVICE \in Nat
  /\ HWS_LIMIT \in Nat /\ HQD_HALF \in Nat
  /\ NUM_SDMA \in Nat
  /\ ReservedDoorbells \subseteq Doorbells
  /\ VMIDS \in Nat /\ CP_QUEUES \in Nat
  /\ UINT \in Nat \ {0}
  /\ UnmapOutcomes \subseteq {"ok", "not_sent", "timeout", "unresponsive"}
  /\ MapOutcomes \subseteq {"ok", "not_sent"}
  /\ NoMemory \in BOOLEAN /\ NoOversubscription \in BOOLEAN
  /\ UsesGws \in BOOLEAN /\ CarriesOn \in BOOLEAN /\ LateEvict \in BOOLEAN
  /\ Debugging \subseteq Procs
  /\ MaxEvicted \in Nat /\ MaxStops \in Nat

VARIABLES
  dqm,     \* struct device_queue_manager
  hw,      \* the queues on the run list the firmware executes
  qpd,     \* per process: struct qcm_process_device
  pqm,     \* per process: struct process_queue_manager
  queue,   \* per process and slot: struct queue
  op,      \* per process: the queue operation under way
  phase,   \* per process: "live", "releasing" or "gone"
  failed,  \* per process: a destroy failed
  stops    \* suspends and resets so far

vars == <<dqm, hw, qpd, pqm, queue, op, phase, failed, stops>>
procVars == <<pqm, queue, op, phase, failed>>

NoOp == [at |-> "none", qid |-> NONE]

\* init_user_queue: the properties of a new queue.
FreshQueue(type, on) ==
  [type |-> type, on |-> on, is_evicted |-> FALSE, is_active |-> FALSE,
   sdma_id |-> NONE, doorbell_id |-> NONE, gws |-> FALSE, is_gws |-> FALSE]

\* A slot without a queue: the memory of the queue is freed.
NoQueue == FreshQueue(COMPUTE, FALSE)

\* A new qcm_process_device.
FreshQpd ==
  [queues_list |-> {}, diq |-> NONE, queue_count |-> 0, is_debug |-> FALSE,
   evicted |-> 0, num_gws |-> FALSE, doorbell_bitmap |-> ReservedDoorbells,
   reset_wavefronts |-> FALSE]

Init ==   \* initialize_cpsch, start_cpsch, pqm_init and the new qpds
  /\ dqm = [active_queue_count |-> 0, active_cp_queue_count |-> 0,
            total_queue_count |-> 0, gws_queue_count |-> 0,
            registered |-> [p \in Procs |-> 0],
            sdma_bitmap |-> [t \in SdmaTypes |-> SdmaIds],
            active_runlist |-> FALSE, is_hws_hang |-> FALSE,
            is_resetting |-> FALSE, sched_running |-> TRUE]
  /\ hw = {}
  /\ qpd = [p \in Procs |-> FreshQpd]
  /\ pqm = [p \in Procs |-> [slots |-> {}, nodes |-> {}]]
  /\ queue = [p \in Procs |-> [i \in Qids |-> NoQueue]]
  /\ op = [p \in Procs |-> NoOp]
  /\ phase = [p \in Procs |-> "live"]
  /\ failed = [p \in Procs |-> FALSE]
  /\ stops = 0

-----------------------------------------------------------------------------
(* Helpers of the dqm.                                                     *)

\* list_empty of the two lists of a qpd.
NoQueues(p) == qpd[p].queues_list = {} /\ qpd[p].diq = NONE

Lowest(ids) == CHOOSE i \in ids : \A j \in ids : i <= j

\* ++ and -- of an unsigned int.
Inc(n) == (n + 1) % UINT
Dec(n) == (n + UINT - 1) % UINT
Sub(n, k) == (n + k * (UINT - 1)) % UINT

\* The types that increment_queue_count counts as CP queues.
is_cp(type) == type \in {COMPUTE, DIQ}

increment_queue_count(d, type) ==
  [d EXCEPT !.active_queue_count = Inc(@),
            !.active_cp_queue_count = IF is_cp(type) THEN Inc(@) ELSE @]

decrement_queue_count(d, type) ==
  [d EXCEPT !.active_queue_count = Dec(@),
            !.active_cp_queue_count = IF is_cp(type) THEN Dec(@) ELSE @]

QUEUE_IS_ACTIVE(q) == q.on /\ ~q.is_evicted

\* External: init_mqd and update_mqd of the MQD managers.
update_mqd(q) == [q EXCEPT !.is_active = QUEUE_IS_ACTIVE(q)]

\* dqm->processes_count, which moves with the list of registered processes.
processes_count(d) == Cardinality({x \in Procs \X (1..UINT) :
                                     x[2] <= d.registered[x[1]]})

\* The sdma id and the doorbell go back when a queue goes.
deallocate_sdma_queue(d, q) ==
  IF q.type \in SdmaTypes
  THEN [d EXCEPT !.sdma_bitmap[q.type] = @ \cup {q.sdma_id}]
  ELSE d

deallocate_doorbell(bits, q) ==
  IF q.type \in SdmaTypes THEN bits ELSE bits \ {q.doorbell_id}

register_process(d, p) == [d EXCEPT !.registered[p] = @ + 1]

\* Nothing happens to a process that is not in the list.
unregister_process(d, p) ==
  [d EXCEPT !.registered[p] = IF @ = 0 THEN 0 ELSE @ - 1]

\* The queues pm_send_runlist finds: those that are active on the lists of the
\* registered processes, the debug queues among them.
Runnable(d, qs, qp) ==
  {x \in Procs \X Qids :
     /\ d.registered[x[1]] > 0
     /\ \/ x[2] \in qp[x[1]].queues_list /\ qs[x[1]][x[2]].is_active
        \/ x[2] = qp[x[1]].diq}

-----------------------------------------------------------------------------
(* The run list.  Each operator gives the possible results: the dqm and    *)
(* the firmware's run list afterwards, and the return value.               *)

Result(d, h, ret) == [d |-> d, h |-> h, ret |-> ret]

\* Faulty variant: the run list stays marked as active after it was unmapped.
unmap_result_still_active(d, h, outcome) == Result(d, {}, "0")

\* How an unmap request ends: the firmware preempts everything; the packet
\* could not be sent; the fence does not come (a hang: reset is scheduled);
\* or one queue did not respond and stays where it is.
unmap_result(d, h, outcome) ==
  CASE outcome = "ok" ->
         Result([d EXCEPT !.active_runlist = FALSE], {}, "0")
    [] outcome = "not_sent" -> Result(d, h, "ENOMEM")
    [] outcome = "timeout" ->
         Result([d EXCEPT !.is_hws_hang = TRUE], h, "ETIME")
    [] outcome = "unresponsive" -> Result(d, h, "ETIME")

unmap_queues_cpsch(d, h) ==
  IF ~d.sched_running THEN {Result(d, h, "0")}
  ELSE IF d.is_hws_hang THEN {Result(d, h, "EIO")}
  ELSE IF ~d.active_runlist THEN {Result(d, h, "0")}
  ELSE {unmap_result(d, h, o) : o \in UnmapOutcomes}

map_queues_cpsch(d, h, run) ==
  IF \/ ~d.sched_running
     \/ d.active_queue_count = 0
     \/ \A p \in Procs : d.registered[p] = 0
     \/ d.active_runlist
  THEN {Result(d, h, "0")}
  ELSE {IF o = "ok" THEN Result([d EXCEPT !.active_runlist = TRUE], run, "0")
                    ELSE Result(d, h, "ENOMEM") : o \in MapOutcomes}

execute_queues_cpsch(d, h, run) ==
  IF d.is_hws_hang THEN {Result(d, h, "EIO")}
  ELSE UNION {IF u.ret # "0" THEN {u} ELSE map_queues_cpsch(u.d, u.h, run) :
                u \in unmap_queues_cpsch(d, h)}

-----------------------------------------------------------------------------
(* pqm_create_queue.                                                       *)

\* User mode may call: the process lives, no other call holds p->mutex, and
\* nothing failed that it does not know how to handle.
MayCall(p) ==
  /\ phase[p] = "live"
  /\ op[p].at = "none"
  /\ failed[p] => CarriesOn

FreeSlots(p) == Qids \ pqm[p].slots
MaxQueues(p, type) ==
  IF qpd[p].is_debug \/ type = DIQ THEN HQD_HALF ELSE HWS_LIMIT

\* Up to and with register_process, whose failure is not looked at.  A failure
\* to allocate the node or the queue undoes all of it and is left out.
create_begin(p, type, on) ==
  /\ MayCall(p)
  /\ qpd[p].queue_count < MaxQueues(p, type)
  /\ FreeSlots(p) # {}
  /\ LET qid == Lowest(FreeSlots(p))
     IN  /\ pqm' = [pqm EXCEPT ![p].slots = @ \cup {qid}]
         /\ queue' = [queue EXCEPT ![p][qid] = FreshQueue(type, on)]
         /\ op' = [op EXCEPT ![p] = [at |-> "create", qid |-> qid]]
  /\ \/ NoQueues(p) /\ dqm' = register_process(dqm, p)
     \/ (NoQueues(p) => NoMemory) /\ UNCHANGED dqm
  /\ UNCHANGED <<hw, qpd, phase, failed, stops>>

\* err_create_queue: the slot is given back, and the process is unregistered
\* if it has no queue.
create_undo(p, d) ==
  /\ pqm' = [pqm EXCEPT ![p].slots = @ \ {op[p].qid}]
  /\ dqm' = IF NoQueues(p) THEN unregister_process(d, p) ELSE d
  /\ queue' = [queue EXCEPT ![p][op[p].qid] = NoQueue]
  /\ op' = [op EXCEPT ![p] = NoOp]
  /\ UNCHANGED <<hw, phase, failed, stops>>

Oversubscribed ==
  /\ NoOversubscription
  /\ \/ processes_count(dqm) >= VMIDS
     \/ dqm.active_queue_count >= CP_QUEUES

\* Faulty variant: only the queues' own doorbells are taken.
FreeDoorbells_unreserved(p) ==
  Doorbells \ {queue[p][i].doorbell_id : i \in qpd[p].queues_list}

FreeDoorbells(p) == Doorbells \ qpd[p].doorbell_bitmap

\* Faulty variant: the limit of the device is not tested.
Refused_unlimited(p, q) ==
  \/ q.type = COMPUTE /\ Oversubscribed
  \/ q.type \in SdmaTypes /\ dqm.sdma_bitmap[q.type] = {}
  \/ q.type = COMPUTE /\ FreeDoorbells(p) = {}

\* The tests that the dqm makes of a new queue.  None of them holds the lock
\* when the queue is added.
Refused(p, q) ==
  \/ q.type = COMPUTE /\ Oversubscribed
  \/ dqm.total_queue_count >= MAX_PER_DEVICE
  \/ q.type \in SdmaTypes /\ dqm.sdma_bitmap[q.type] = {}
  \/ q.type = COMPUTE /\ FreeDoorbells(p) = {}

create_refused(p) ==
  /\ op[p].at = "create"
  /\ LET q == queue[p][op[p].qid] IN q.type # DIQ /\ Refused(p, q)
  /\ create_undo(p, dqm)
  /\ UNCHANGED qpd

\* allocate_sdma_queue under the lock, or allocate_doorbell.
create_reserve(p) ==
  /\ op[p].at = "create"
  /\ LET q == queue[p][op[p].qid]
     IN  /\ q.type # DIQ /\ ~Refused(p, q)
         /\ IF q.type \in SdmaTypes
            THEN LET id == Lowest(dqm.sdma_bitmap[q.type])
                 IN  /\ queue' = [queue EXCEPT ![p][op[p].qid].sdma_id = id]
                     /\ dqm' = [dqm EXCEPT !.sdma_bitmap[q.type] = @ \ {id}]
                     /\ UNCHANGED qpd
            ELSE LET id == Lowest(FreeDoorbells(p))
                 IN  /\ queue' = [queue EXCEPT ![p][op[p].qid].doorbell_id = id]
                     /\ qpd' = [qpd EXCEPT ![p].doorbell_bitmap = @ \cup {id}]
                     /\ UNCHANGED dqm
  /\ op' = [op EXCEPT ![p].at = "reserved"]
  /\ UNCHANGED <<hw, pqm, phase, failed, stops>>

\* Faulty variant: the SDMA queue is not given back.
create_no_mqd_leaking(p) ==
  /\ NoMemory
  /\ op[p].at = "reserved"
  /\ create_undo(p, dqm)
  /\ UNCHANGED qpd

\* allocate_mqd fails.
create_no_mqd(p) ==
  /\ NoMemory
  /\ op[p].at = "reserved"
  /\ LET q == queue[p][op[p].qid]
     IN  /\ create_undo(p, deallocate_sdma_queue(dqm, q))
         /\ qpd' = [qpd EXCEPT ![p].doorbell_bitmap =
                                  deallocate_doorbell(@, q)]

\* The queue becomes known to the dqm and then to the pqm.
create_queue_cpsch(p) ==
  /\ op[p].at = "reserved"
  /\ LET qid == op[p].qid
         q   == update_mqd([queue[p][qid] EXCEPT
                              !.is_evicted = qpd[p].evicted > 0])
         d   == [IF q.is_active THEN increment_queue_count(dqm, q.type)
                                ELSE dqm EXCEPT !.total_queue_count = Inc(@)]
     IN  /\ queue' = [queue EXCEPT ![p][qid] = q]
         /\ qpd' = [qpd EXCEPT ![p].queues_list = @ \cup {qid},
                               ![p].queue_count = Inc(@)]
         /\ pqm' = [pqm EXCEPT ![p].nodes = @ \cup {qid}]
         /\ IF q.is_active
            THEN \E x \in execute_queues_cpsch(d, hw, Runnable(d, queue', qpd')) :
                    dqm' = x.d /\ hw' = x.h
            ELSE dqm' = d /\ UNCHANGED hw
  /\ op' = [op EXCEPT ![p] = NoOp]
  /\ UNCHANGED <<phase, failed, stops>>

\* create_kernel_queue_cpsch, which tests the limit under the lock.
create_kernel_queue_cpsch(p) ==
  /\ op[p].at = "create"
  /\ LET qid == op[p].qid
         d   == [increment_queue_count(dqm, DIQ) EXCEPT
                   !.total_queue_count = Inc(@)]
     IN  /\ queue[p][qid].type = DIQ
         /\ dqm.total_queue_count < MAX_PER_DEVICE
         /\ qpd' = [qpd EXCEPT ![p].diq = qid, ![p].is_debug = TRUE]
         /\ pqm' = [pqm EXCEPT ![p].nodes = @ \cup {qid}]
         /\ \E x \in execute_queues_cpsch(d, hw, Runnable(d, queue, qpd')) :
               dqm' = x.d /\ hw' = x.h
  /\ op' = [op EXCEPT ![p] = NoOp]
  /\ UNCHANGED <<queue, phase, failed, stops>>

create_kernel_queue_refused(p) ==
  /\ op[p].at = "create"
  /\ queue[p][op[p].qid].type = DIQ
  /\ dqm.total_queue_count >= MAX_PER_DEVICE
  /\ create_undo(p, dqm)
  /\ UNCHANGED qpd

-----------------------------------------------------------------------------
(* pqm_destroy_queue.                                                      *)

\* What get_queue_by_qid finds for user mode.  (The DIQ is in the same list; its
\* node has no queue, and to update it is a NULL dereference.)
UserNodes(p) == pqm[p].nodes \ {qpd[p].diq}

\* Faulty variant: active_queue_count is left alone.
destroy_queue_count_kept(d, q) ==
  [d EXCEPT !.total_queue_count = Dec(@)]

\* What destroy_queue_cpsch does to the counters.
destroy_queue_count(d, q) ==
  [IF q.is_active THEN decrement_queue_count(d, q.type) ELSE d
     EXCEPT !.total_queue_count = Dec(@),
            !.gws_queue_count = IF q.is_active /\ q.is_gws THEN Dec(@) ELSE @]

\* destroy_queue_cpsch.  Nothing is done for a process that is being debugged.
\* Whatever execute_queues_cpsch returns, the queue is off the list and its MQD
\* is freed; but unless the return value is 0 or -ETIME the pqm keeps its node.
\* A second destroy of such a node does it all again.  (list_del of a deleted
\* entry is refused with a warning in a build with CONFIG_DEBUG_LIST; in others
\* it faults with dqm_lock held, and there is no next state.)
destroy_queue_cpsch(p, qid) ==
  /\ MayCall(p)
  /\ qid \in UserNodes(p)
  /\ ~qpd[p].is_debug
  /\ LET q  == queue[p][qid]
         d  == destroy_queue_count(deallocate_sdma_queue(dqm, q), q)
         qp == [qpd EXCEPT ![p].queues_list = @ \ {qid},
                           ![p].queue_count = Dec(@),
                           ![p].doorbell_bitmap = deallocate_doorbell(@, q)]
     IN  \E x \in IF q.is_active
                  THEN execute_queues_cpsch(d, hw, Runnable(d, queue, qp))
                  ELSE {Result(d, hw, "0")} :
           /\ dqm' = x.d /\ hw' = x.h
           /\ qpd' = [qp EXCEPT ![p].reset_wavefronts = @ \/ x.ret = "ETIME"]
           /\ IF x.ret \in {"0", "ETIME"}
              THEN /\ op' = [op EXCEPT ![p] = [at |-> "destroyed", qid |-> qid]]
                   /\ UNCHANGED failed
              ELSE failed' = [failed EXCEPT ![p] = TRUE] /\ UNCHANGED op
  /\ UNCHANGED <<pqm, queue, phase, stops>>

destroy_kernel_queue_cpsch(p) ==
  /\ MayCall(p)
  /\ qpd[p].diq # NONE
  /\ LET d  == [decrement_queue_count(dqm, DIQ) EXCEPT
                  !.total_queue_count = Dec(@)]
     IN  /\ qpd' = [qpd EXCEPT ![p].diq = NONE, ![p].is_debug = FALSE]
         /\ op' = [op EXCEPT ![p] = [at |-> "destroyed", qid |-> qpd[p].diq]]
         /\ \E x \in execute_queues_cpsch(d, hw, Runnable(d, queue, qpd')) :
               dqm' = x.d /\ hw' = x.h
  /\ UNCHANGED <<pqm, queue, phase, failed, stops>>

\* Faulty variant: the process stays registered when its last queue has gone.
destroy_finish_registered(p) ==
  /\ op[p].at = "destroyed"
  /\ LET qid == op[p].qid
     IN  /\ pqm' = [pqm EXCEPT ![p].slots = @ \ {qid}, ![p].nodes = @ \ {qid}]
         /\ qpd' = IF queue[p][qid].gws
                   THEN [qpd EXCEPT ![p].num_gws = FALSE] ELSE qpd
         /\ queue' = [queue EXCEPT ![p][qid] = NoQueue]
  /\ op' = [op EXCEPT ![p] = NoOp]
  /\ UNCHANGED <<dqm, hw, phase, failed, stops>>

\* The rest of pqm_destroy_queue, after dqm_unlock.
destroy_finish(p) ==
  /\ op[p].at = "destroyed"
  /\ LET qid == op[p].qid
     IN  /\ pqm' = [pqm EXCEPT ![p].slots = @ \ {qid}, ![p].nodes = @ \ {qid}]
         /\ qpd' = IF queue[p][qid].gws
                   THEN [qpd EXCEPT ![p].num_gws = FALSE] ELSE qpd
         /\ queue' = [queue EXCEPT ![p][qid] = NoQueue]
  /\ dqm' = IF NoQueues(p) THEN unregister_process(dqm, p) ELSE dqm
  /\ op' = [op EXCEPT ![p] = NoOp]
  /\ UNCHANGED <<hw, phase, failed, stops>>

-----------------------------------------------------------------------------
(* pqm_update_queue and pqm_set_gws: the properties change before the lock *)
(* is taken, update_queue makes them effective.                            *)

pqm_update_queue(p, qid, on) ==
  /\ MayCall(p)
  /\ qid \in UserNodes(p)
  /\ queue' = [queue EXCEPT ![p][qid].on = on]
  /\ op' = [op EXCEPT ![p] = [at |-> "update", qid |-> qid]]
  /\ UNCHANGED <<dqm, hw, qpd, pqm, phase, failed, stops>>

\* Only one queue of a process can have GWS.  (Taking it back from another
\* queue hands a null pointer to external code and is left out.)
pqm_set_gws(p, qid, gws) ==
  /\ UsesGws
  /\ MayCall(p)
  /\ qid \in UserNodes(p)
  /\ qpd[p].num_gws # gws
  /\ ~gws => queue[p][qid].gws
  /\ queue' = [queue EXCEPT ![p][qid].gws = gws]
  /\ qpd' = [qpd EXCEPT ![p].num_gws = gws]
  /\ op' = [op EXCEPT ![p] = [at |-> "update", qid |-> qid]]
  /\ UNCHANGED <<dqm, hw, pqm, phase, failed, stops>>

\* Faulty variant: the counter follows the new state whatever the old one was.
update_queue_count_blindly(d, old, q) ==
  IF q.is_active THEN increment_queue_count(d, q.type)
                 ELSE decrement_queue_count(d, q.type)

\* The counters, from the previous and the new activity state.
update_queue_count(d, old, q) ==
  LET e == IF q.is_active /\ ~old.is_active
           THEN increment_queue_count(d, q.type)
           ELSE IF ~q.is_active /\ old.is_active
           THEN decrement_queue_count(d, q.type) ELSE d
  IN  IF ~q.is_active \/ q.gws = q.is_gws THEN e
      ELSE [e EXCEPT !.gws_queue_count = IF q.gws THEN Inc(@) ELSE Dec(@)]

\* update_queue: unmap (whose failure ends it), update, map.
update_queue(p) ==
  /\ op[p].at = "update"
  /\ LET qid == op[p].qid
         q   == update_mqd(queue[p][qid])
     IN  \E u \in unmap_queues_cpsch(dqm, hw) :
           IF u.ret # "0"
           THEN dqm' = u.d /\ hw' = u.h /\ UNCHANGED queue
           ELSE LET d == update_queue_count(u.d, queue[p][qid], q)
                IN  /\ queue' = [queue EXCEPT ![p][qid] =
                                   [q EXCEPT !.is_gws = q.gws]]
                    /\ \E x \in map_queues_cpsch(d, u.h, Runnable(d, queue', qpd)) :
                          dqm' = x.d /\ hw' = x.h
  /\ op' = [op EXCEPT ![p] = NoOp]
  /\ UNCHANGED <<qpd, pqm, phase, failed, stops>>

-----------------------------------------------------------------------------
(* Eviction and restoration, by workers that hold no process mutex.  The   *)
(* release of a process cancels its own workers, but a caller that looked  *)
(* the process up before (kgd2opu_quiesce_mm) can still be on its way.     *)

MayEvict(p) == phase[p] = "live" \/ (LateEvict /\ phase[p] = "releasing")

\* The counters without a set of active queues of a process.
Discount(d, p, qs) ==
  [d EXCEPT !.active_queue_count = Sub(@, Cardinality(qs)),
            !.active_cp_queue_count =
               Sub(@, Cardinality({i \in qs : is_cp(queue[p][i].type)}))]

ActiveQueues(p) == {i \in qpd[p].queues_list : queue[p][i].is_active}

\* Faulty variant: queues that are not active are not marked.
evict_queue_if_active(q) ==
  IF q.is_active THEN [q EXCEPT !.is_evicted = TRUE, !.is_active = FALSE] ELSE q

\* Every queue is marked; an active one is deactivated.
evict_queue(q) == [q EXCEPT !.is_evicted = TRUE, !.is_active = FALSE]

evict_process_queues_cpsch(p) ==
  /\ MayEvict(p)
  /\ qpd[p].evicted < MaxEvicted
  /\ qpd' = [qpd EXCEPT ![p].evicted = @ + 1]
  /\ IF qpd[p].evicted > 0
     THEN UNCHANGED <<dqm, hw, queue>>
     ELSE LET d == Discount(dqm, p, ActiveQueues(p))
          IN  /\ queue' = [queue EXCEPT ![p] =
                   [i \in Qids |-> IF i \in qpd[p].queues_list
                                   THEN evict_queue(queue[p][i])
                                   ELSE queue[p][i]]]
              /\ \E x \in execute_queues_cpsch(d, hw, Runnable(d, queue', qpd)) :
                    dqm' = x.d /\ hw' = x.h
  /\ UNCHANGED <<pqm, op, phase, failed, stops>>

\* is_active of a queue that is not to run is left alone.
restore_queue(q) == [q EXCEPT !.is_evicted = FALSE, !.is_active = @ \/ q.on]

\* Only the last of several restores restores the queues.  (One too many is
\* warned of and changes nothing.)
restore_process_queues_cpsch(p) ==
  /\ MayEvict(p)
  /\ qpd[p].evicted > 0
  /\ IF qpd[p].evicted > 1
     THEN /\ qpd' = [qpd EXCEPT ![p].evicted = @ - 1]
          /\ UNCHANGED <<dqm, hw, queue>>
     ELSE LET on == {i \in qpd[p].queues_list : queue[p][i].on}
              cp == {i \in on : is_cp(queue[p][i].type)}
              d  == [dqm EXCEPT
                       !.active_queue_count = (@ + Cardinality(on)) % UINT,
                       !.active_cp_queue_count = (@ + Cardinality(cp)) % UINT]
          IN  /\ queue' = [queue EXCEPT ![p] =
                   [i \in Qids |-> IF i \in qpd[p].queues_list
                                   THEN restore_queue(queue[p][i])
                                   ELSE queue[p][i]]]
              /\ qpd' = [qpd EXCEPT ![p].evicted = 0]
              /\ \E x \in execute_queues_cpsch(d, hw, Runnable(d, queue', qpd)) :
                    dqm' = x.d /\ hw' = x.h
  /\ UNCHANGED <<pqm, op, phase, failed, stops>>

-----------------------------------------------------------------------------
(* opu_process_notifier_release, as far as the queues are concerned, and   *)
(* process_termination_cpsch.                                              *)

\* The threads of the process are gone.  The debugger is unregistered first,
\* so the loop over the kernel queues in the termination finds none.
release_begin(p) ==
  /\ phase[p] = "live"
  /\ op[p].at = "none"
  /\ qpd[p].diq = NONE
  /\ phase' = [phase EXCEPT ![p] = "releasing"]
  /\ UNCHANGED <<dqm, hw, qpd, pqm, queue, op, failed, stops>>

\* Faulty variant: the SDMA queues are not given back.
sdma_given_back_not(bitmap, p) == bitmap

\* deallocate_sdma_queue for all queues of the process.
sdma_given_back(bitmap, p) ==
  [t \in SdmaTypes |-> bitmap[t] \cup
     {queue[p][i].sdma_id :
        i \in {j \in qpd[p].queues_list : queue[p][j].type = t}}]

terminate_unregister(d, p) == unregister_process(d, p)

\* The dqm once all queues of a process are cleared and it is unregistered.
terminate_clear(p) ==
  LET gws == {i \in ActiveQueues(p) : queue[p][i].is_gws}
  IN  terminate_unregister(
        [Discount(dqm, p, ActiveQueues(p)) EXCEPT
           !.total_queue_count = Sub(@, Cardinality(qpd[p].queues_list)),
           !.gws_queue_count = Sub(@, Cardinality(gws)),
           !.sdma_bitmap = sdma_given_back(@, p)], p)

\* The section under the lock, up to the first free_mqd.  is_active of the
\* queues is left as it is.
process_termination_cpsch(p) ==
  /\ phase[p] = "releasing"
  /\ op[p].at = "none"
  /\ LET d == terminate_clear(p)
     IN  \E x \in execute_queues_cpsch(d, hw, Runnable(d, queue, qpd)) :
           /\ dqm' = x.d /\ hw' = x.h
           /\ \E first \in IF NoQueues(p) THEN {{}}
                           ELSE {{i} : i \in qpd[p].queues_list} :
                 qpd' = [qpd EXCEPT
                   ![p].queues_list = @ \ first,
                   ![p].queue_count = Sub(@, Cardinality(first)),
                   ![p].reset_wavefronts =
                      IF ~x.d.is_hws_hang /\ (x.ret # "0" \/ @)
                      THEN FALSE ELSE @]
  /\ op' = [op EXCEPT ![p] = [at |-> "terminating", qid |-> NONE]]
  /\ UNCHANGED <<pqm, queue, phase, failed, stops>>

\* Faulty variant: the queue is freed but not taken off the list.
terminate_free_mqd_listed(p) ==
  /\ op[p].at = "terminating"
  /\ qpd[p].queues_list # {}
  /\ qpd' = [qpd EXCEPT ![p].queue_count = Dec(@)]
  /\ UNCHANGED <<dqm, hw, procVars, stops>>

\* One more turn of the loop, which drops the lock for free_mqd.
terminate_free_mqd(p) ==
  /\ op[p].at = "terminating"
  /\ \E i \in qpd[p].queues_list :
        qpd' = [qpd EXCEPT ![p].queues_list = @ \ {i},
                           ![p].queue_count = Dec(@)]
  /\ UNCHANGED <<dqm, hw, procVars, stops>>

\* pqm_uninit, and the process is gone: its pdd is freed, the next process has
\* a new one.
pqm_uninit(p) ==
  /\ op[p].at = "terminating"
  /\ qpd[p].queues_list = {}
  /\ pqm' = [pqm EXCEPT ![p] = [slots |-> {}, nodes |-> {}]]
  /\ op' = [op EXCEPT ![p] = NoOp]
  /\ queue' = [queue EXCEPT ![p] = [i \in Qids |-> NoQueue]]
  /\ qpd' = [qpd EXCEPT ![p] = FreshQpd]
  /\ phase' = [phase EXCEPT ![p] = "gone"]
  /\ UNCHANGED <<dqm, hw, failed, stops>>

\* opu_create_process_device_data for a new process.
new_process(p) ==
  /\ phase[p] = "gone"
  /\ phase' = [phase EXCEPT ![p] = "live"]
  /\ failed' = [failed EXCEPT ![p] = FALSE]
  /\ UNCHANGED <<dqm, hw, qpd, pqm, queue, op, stops>>

-----------------------------------------------------------------------------
(* Suspend, resume and reset of the device.                                *)

pre_reset ==
  /\ dqm.sched_running
  /\ stops < MaxStops
  /\ dqm' = [dqm EXCEPT !.is_resetting = TRUE]
  /\ UNCHANGED <<hw, qpd, procVars, stops>>

stop_cpsch ==
  /\ dqm.sched_running
  /\ stops < MaxStops
  /\ stops' = stops + 1
  /\ \E u \in IF dqm.is_hws_hang THEN {Result(dqm, hw, "EIO")}
              ELSE unmap_queues_cpsch(dqm, hw) :
        /\ dqm' = [u.d EXCEPT !.sched_running = FALSE]
        /\ hw' = u.h
  /\ UNCHANGED <<qpd, procVars>>

\* Faulty variant: the run list is not built again.
start_cpsch_without_runlist ==
  /\ ~dqm.sched_running
  /\ dqm' = [dqm EXCEPT !.is_hws_hang = FALSE, !.is_resetting = FALSE,
                        !.sched_running = TRUE]
  /\ hw' = {}
  /\ UNCHANGED <<qpd, procVars, stops>>

\* The firmware starts anew and has no run list, whatever active_runlist says.
start_cpsch ==
  /\ ~dqm.sched_running
  /\ LET d == [dqm EXCEPT !.is_hws_hang = FALSE, !.is_resetting = FALSE,
                          !.sched_running = TRUE]
     IN  \E x \in execute_queues_cpsch(d, {}, Runnable(d, queue, qpd)) :
           dqm' = x.d /\ hw' = x.h
  /\ UNCHANGED <<qpd, procVars, stops>>

-----------------------------------------------------------------------------

\* The device has one debugger and so at most one DIQ.
DebuggerFree ==
  \A p \in Procs : /\ qpd[p].diq = NONE
                   /\ \A i \in Qids : queue[p][i].type # DIQ

create_call(p) ==
  \/ \E type \in Types, on \in BOOLEAN : create_begin(p, type, on)
  \/ p \in Debugging /\ DebuggerFree /\ create_begin(p, DIQ, TRUE)

\* The steps that the thread which holds p->mutex takes by itself.
Proceed(p) ==
  \/ create_refused(p)
  \/ create_reserve(p)
  \/ create_no_mqd(p)
  \/ create_queue_cpsch(p)
  \/ create_kernel_queue_cpsch(p)
  \/ create_kernel_queue_refused(p)
  \/ destroy_finish(p)
  \/ update_queue(p)
  \/ process_termination_cpsch(p)
  \/ terminate_free_mqd(p)
  \/ pqm_uninit(p)

Call(p) ==
  \/ create_call(p)
  \/ destroy_kernel_queue_cpsch(p)
  \/ \E qid \in Qids : \/ destroy_queue_cpsch(p, qid)
                        \/ \E on \in BOOLEAN : pqm_update_queue(p, qid, on)
                        \/ \E gws \in BOOLEAN : pqm_set_gws(p, qid, gws)
  \/ release_begin(p)
  \/ new_process(p)

Next ==
  \/ \E p \in Procs : \/ Call(p)
                      \/ Proceed(p)
                      \/ evict_process_queues_cpsch(p)
                      \/ restore_process_queues_cpsch(p)
  \/ pre_reset
  \/ stop_cpsch
  \/ start_cpsch

\* A thread that is inside an operation, or releases its process, is scheduled,
\* and dqm_lock, which is held for bounded sections only, comes to it.
Fairness == \A p \in Procs : WF_vars(Proceed(p))

Spec == Init /\ [][Next]_vars /\ Fairness

-----------------------------------------------------------------------------
(* Properties.                                                             *)

Queue == [type : {COMPUTE, DIQ} \cup SdmaTypes, on : BOOLEAN,
          is_evicted : BOOLEAN, is_active : BOOLEAN,
          sdma_id : SdmaIds \cup {NONE}, doorbell_id : Doorbells \cup {NONE},
          gws : BOOLEAN, is_gws : BOOLEAN]

Counter == 0..(UINT - 1)

Dqm == [active_queue_count : Counter, active_cp_queue_count : Counter,
        total_queue_count : Counter, gws_queue_count : Counter,
        registered : [Procs -> Nat],
        sdma_bitmap : [SdmaTypes -> SUBSET SdmaIds],
        active_runlist : BOOLEAN, is_hws_hang : BOOLEAN,
        is_resetting : BOOLEAN, sched_running : BOOLEAN]

Qpd == [queues_list : SUBSET Qids, diq : Qids \cup {NONE},
        queue_count : Counter, is_debug : BOOLEAN,
        evicted : 0..MaxEvicted, num_gws : BOOLEAN,
        doorbell_bitmap : SUBSET Doorbells, reset_wavefronts : BOOLEAN]

Pqm == [slots : SUBSET Qids, nodes : SUBSET Qids]

Op == [at : {"none", "create", "reserved", "destroyed", "update",
             "terminating"},
       qid : Qids \cup {NONE}]

\* The types of the variables.
TypeOK ==
  /\ dqm \in Dqm
  /\ hw \subseteq Procs \X Qids
  /\ qpd \in [Procs -> Qpd]
  /\ pqm \in [Procs -> Pqm]
  /\ queue \in [Procs -> [Qids -> Queue]]
  /\ op \in [Procs -> Op]
  /\ phase \in [Procs -> {"live", "releasing", "gone"}]
  /\ failed \in [Procs -> BOOLEAN]
  /\ stops \in 0..MaxStops

\* The queues that the counters of the dqm stand for: a process that is being
\* terminated is taken off the books before its queues leave the list.
Accounted == {x \in Procs \X Qids :
                /\ op[x[1]].at # "terminating"
                /\ x[2] \in qpd[x[1]].queues_list \cup {qpd[x[1]].diq}}
Active == {x \in Accounted : \/ x[2] = qpd[x[1]].diq
                             \/ queue[x[1]][x[2]].is_active}

\* Through every order of creation, update, eviction, restoration, destruction
\* and termination the counters stay exact: active_queue_count, from which
\* map_queues_cpsch decides whether there is anything to run, its CP part,
\* total_queue_count and queue_count, which the limits are tested against.
CountersExact ==
  /\ dqm.active_queue_count = Cardinality(Active)
  /\ dqm.active_cp_queue_count =
        Cardinality({x \in Active : queue[x[1]][x[2]].type \in {COMPUTE, DIQ}})
  /\ dqm.total_queue_count = Cardinality(Accounted)
  /\ \A p \in Procs : qpd[p].queue_count = Cardinality(qpd[p].queues_list)

\* The comment in create_queue_cpsch ("Eviction state logic"): while a process
\* is evicted, however often, all its queues are marked and none is active,
\* the ones that were created or updated meanwhile included; and none stays
\* marked when the process is not evicted.
EvictedIsInactive ==
  \A p \in Procs : \A i \in qpd[p].queues_list :
    /\ queue[p][i].is_evicted <=> qpd[p].evicted > 0
    /\ queue[p][i].is_evicted => ~queue[p][i].is_active

\* Queues of a process that hold, or are about to hold, SDMA queues.
Holding(p) ==
  (IF op[p].at = "terminating" THEN {} ELSE qpd[p].queues_list)
    \cup (IF op[p].at = "reserved" THEN {op[p].qid} ELSE {})
SdmaHolders(t) == {x \in Procs \X Qids :
                     x[2] \in Holding(x[1]) /\ queue[x[1]][x[2]].type = t}

\* An SDMA queue of the device has one holder at a time and none is lost.
SdmaExclusive ==
  \A t \in SdmaTypes :
    /\ \A x, y \in SdmaHolders(t) :
          queue[x[1]][x[2]].sdma_id = queue[y[1]][y[2]].sdma_id => x = y
    /\ {queue[x[1]][x[2]].sdma_id : x \in SdmaHolders(t)}
          = SdmaIds \ dqm.sdma_bitmap[t]

\* The same for the doorbells of a process that lives: two CP queues of it
\* never ring the same bell, a reserved bell is not handed out, none is lost.
DoorbellsExclusive ==
  \A p \in Procs : phase[p] = "live" =>
    LET cp == {i \in Holding(p) : queue[p][i].type = COMPUTE}
    IN  /\ \A i, j \in cp :
              queue[p][i].doorbell_id = queue[p][j].doorbell_id => i = j
        /\ {queue[p][i].doorbell_id : i \in cp}
              = qpd[p].doorbell_bitmap \ ReservedDoorbells

\* A process is in the list of the dqm once, and just as long as it has queues
\* (or is about to, or has just lost the last one).
RegisteredWhileNeeded ==
  \A p \in Procs :
    dqm.registered[p] =
      IF \/ op[p].at \in {"create", "reserved", "destroyed"}
         \/ op[p].at # "terminating" /\ ~NoQueues(p)
      THEN 1 ELSE 0

\* Whenever the dqm is unlocked and the scheduler runs and does not hang, the
\* firmware runs what the lists say: all active queues and no others, in
\* particular no queue that was destroyed, deactivated or evicted.
RunlistComplete ==
  dqm.sched_running /\ ~dqm.is_hws_hang =>
    /\ hw = Runnable(dqm, queue, qpd)
    /\ hw = Active
    /\ dqm.active_runlist <=> hw # {}

\* The same when run lists may fail to be sent and processes may fail to be
\* registered, across hangs, suspends and resets: the firmware runs all active
\* queues of the registered processes or nothing, and active_runlist tells
\* which.
RunlistFaithful ==
  dqm.sched_running /\ ~dqm.is_hws_hang =>
    hw = IF dqm.active_runlist THEN Runnable(dqm, queue, qpd) ELSE {}

\* What deallocate_doorbell asserts with WARN_ON(!old): the queue that a later
\* destroy will find through the pqm still has its doorbell; it is still on
\* the list that destroy_queue_cpsch takes it off.
PqmNodesAreListed ==
  \A p \in Procs : op[p].at = "none" /\ phase[p] = "live" =>
    /\ pqm[p].nodes \ {qpd[p].diq} = qpd[p].queues_list
    /\ pqm[p].nodes = pqm[p].slots

\* What uninitialize asserts with WARN_ON(active_queue_count > 0 ||
\* processes_count > 0): when every process is gone nothing is left over.
UninitClean ==
  (\A p \in Procs : phase[p] = "gone") =>
     dqm.active_queue_count = 0 /\ processes_count(dqm) = 0

\* The limit of queues on the device (max_num_of_queues_per_device) is tested
\* before dqm_lock is taken and the queue is counted later under the lock, so
\* it can be exceeded: but only by the queues whose creation passed the test
\* at the same time, of which a process has one.
LimitOvershoot ==
  dqm.total_queue_count + 1 <= MAX_PER_DEVICE + Cardinality(Procs)

\* Every queue operation that was begun ends, the loop of the termination
\* included, whatever is evicted, restored, stopped or started meanwhile.
OperationsEnd ==
  \A p \in Procs :
    /\ (op[p].at # "none") ~> (op[p].at = "none")
    /\ (phase[p] = "releasing") ~> (phase[p] = "gone")
=============================================================================
